------------------------- MODULE RlpxConnProofs -----------------------------
(***************************************************************************)
(* RlpxConn for every number and length of messages, packet size, word,    *)
(* set of keys and padding, in two parts.                                  *)
(*                                                                         *)
(* The stream: its types, NoWrap, NoSpuriousFailure, and that it           *)
(* implements MsgChannel.  The inductive invariant Inv says that the       *)
(* reader's position, the frames on their way and the writer's position    *)
(* form one chain, and that an intact frame tells the truth about its      *)
(* message.                                                                *)
(*                                                                         *)
(* The connection: the node that was dialled, the secrets both ends        *)
(* derive, no refusal without a cause, and the theorems of the stream      *)
(* again, with the handshake before it.  The inductive invariant ConnInv   *)
(* adds HandOK, which says what both ends know and what is on its way at   *)
(* every pair of steps, and that nothing is sent before the buyer's        *)
(* handshake is done.                                                      *)
(***************************************************************************)
EXTENDS RlpxConn, SequenceTheorems, TLAPS

\* Length of a part of message i of s.
LengthIn(s, i, part) == IF part = "header" THEN HeaderSize ELSE s[i].len

\* A position in the stream is the kind, message, part and offset of the frame there.
Pos(code, id, part, from) == [code |-> code, id |-> id, part |-> part, from |-> from]
At(f) == Pos(f.code, f.id, f.part, f.from)

\* The frame is the last of its part, and the position of the frame after it.
LastOf(s, f) == IF f.code = "size" THEN f.val = 0 ELSE f.from + f.size = LengthIn(s, f.id, f.part)
PartEnd(id, part) == IF part = "header" THEN Pos("size", id, "payload", 0)
                                        ELSE Pos("size", id + 1, "header", 0)
After(s, f) == IF LastOf(s, f) THEN PartEnd(f.id, f.part)
               ELSE Pos("data", f.id, f.part, IF f.code = "size" THEN 0 ELSE f.from + f.size)

ReaderPos(rd, n) == Pos(rd.pc, n + 1, rd.part, IF rd.pc = "data" THEN rd.cur ELSE 0)
WriterPos(wr, n) == IF wr.pc = "idle" THEN Pos("size", n + 1, "header", 0)
                                      ELSE Pos(wr.pc, n, wr.part, wr.cur)

\* What an intact frame says is true of its message.
FrameOK(s, n, f) ==
    /\ f.code = "size" => f.size = SizeBytes /\ f.val = LengthIn(s, f.id, f.part)
    /\ f.code = "data" => f.size > 0 /\ f.from + f.size <= LengthIn(s, f.id, f.part)
    /\ LastOf(s, f) /\ f.part = "payload" => f.id <= n

SentInv == \A i \in 1..Len(sent) : sent[i].id = i

WriterInv ==
    /\ whole <= Len(sent) /\ whole + 1 >= Len(sent)
    /\ w.pc = "idle" => whole = Len(sent)
    /\ w.pc \in {"size", "data"} => Len(sent) = whole + 1
    /\ w.pc = "size" => w.cur = 0
    /\ w.pc = "data" => w.remaining > 0 /\ w.cur + w.remaining = LengthIn(sent, Len(sent), w.part)

ReaderInv ==
    /\ r.clean
    /\ Len(got) <= whole
    /\ r.pc = "data" => /\ r.id = Len(got) + 1 /\ r.id <= Len(sent)
                        /\ r.remaining > 0 /\ r.cur + r.remaining = LengthIn(sent, r.id, r.part)
    /\ r.pc # "failed" /\ r.part = "payload" =>
            /\ r.id = Len(got) + 1 /\ r.id <= Len(sent)
            /\ r.typ = sent[r.id].typ /\ r.len = sent[r.id].len

FramesInv ==
    \A i \in 1..Len(wire) : /\ wire[i].id \in 1..Len(sent)
                            /\ wire[i].ok => FrameOK(sent, whole, wire[i])

ChainInv ==
    /\ r.pc # "failed" /\ Len(wire) > 0 => At(wire[1]) = ReaderPos(r, Len(got))
    /\ \A i \in 1..(Len(wire) - 1) : At(wire[i + 1]) = After(sent, wire[i])
    /\ w.pc # "failed" /\ Len(wire) > 0 => After(sent, wire[Len(wire)]) = WriterPos(w, Len(sent))
    /\ w.pc # "failed" /\ r.pc # "failed" /\ Len(wire) = 0 => ReaderPos(r, Len(got)) = WriterPos(w, Len(sent))

FaultInv ==
    (w.pc = "failed" \/ r.pc = "failed" \/ \E i \in 1..Len(wire) : ~wire[i].ok) => faults > 0

Inv == TypeOK /\ SentInv /\ WriterInv /\ ReaderInv /\ FramesInv /\ ChainInv /\ FaultInv

-----------------------------------------------------------------------------
\* What Append does to a sequence.
LEMMA AppendFact ==
    ASSUME NEW S, NEW q \in Seq(S), NEW e \in S, NEW p, p = Append(q, e)
    PROVE  /\ p \in Seq(S) /\ Len(q) \in Nat /\ Len(p) = Len(q) + 1 /\ p[Len(q) + 1] = e
           /\ \A i \in 1..Len(q) : p[i] = q[i]
           /\ \A i \in 1..Len(p) : i \in 1..Len(q) \/ i = Len(q) + 1
OBVIOUS

\* What Tail does to a sequence.
LEMMA TailFact ==
    ASSUME NEW S, NEW q \in Seq(S), Len(q) > 0, NEW p, p = Tail(q)
    PROVE  /\ p \in Seq(S) /\ Len(q) \in Nat /\ Len(p) = Len(q) - 1 /\ Head(q) = q[1] /\ q[1] \in S
           /\ \A i \in 1..Len(p) : p[i] = q[i + 1]
<1>1. q # << >> /\ Len(q) \in Nat
  BY EmptySeq, LenProperties
<1>2. Head(q) = q[1]
  OBVIOUS
<1> QED BY <1>1, <1>2, HeadTailProperties

\* A word counts from 0.
LEMMA Zero == 0 \in 0..(Word - 1) /\ Word \in Nat /\ MaxFaults \in Nat
BY StreamAssumption

\* Lengths are counted in a word, and headers are not empty.
LEMMA LengthType ==
    ASSUME sent \in Seq(Message), NEW i \in 1..Len(sent), NEW part \in Parts
    PROVE  /\ Length(i, part) = LengthIn(sent, i, part)
           /\ LengthIn(sent, i, part) \in 0..(Word - 1)
           /\ part = "header" => LengthIn(sent, i, part) > 0
<1>1. sent[i] \in Message
  BY ElementOfSeq
<1>2. sent[i].len \in 0..(Word - 1) /\ HeaderSize \in 1..(Word - 1) /\ Word \in Nat
  BY <1>1, StreamAssumption DEF Message
<1> QED BY <1>2 DEF LengthIn, Length

\* Appending a frame at the writer's position moves that position.
LEMMA ChainAppend ==
    ASSUME wire \in Seq(FrameType), ChainInv, NEW f \in FrameType, w.pc # "failed",
           wire' = Append(wire, f), r' = r, got' = got, sent' = sent,
           At(f) = WriterPos(w, Len(sent)),
           w'.pc # "failed" => After(sent, f) = WriterPos(w', Len(sent))
    PROVE  ChainInv'
<1>1. /\ Len(wire) \in Nat /\ Len(wire') = Len(wire) + 1 /\ wire'[Len(wire) + 1] = f
      /\ \A i \in 1..Len(wire) : wire'[i] = wire[i]
  BY AppendFact
<1>3. r'.pc # "failed" => At(wire'[1]) = ReaderPos(r', Len(got'))
  <2>1. CASE Len(wire) = 0
    BY <1>1, <2>1 DEF ChainInv
  <2>2. CASE Len(wire) > 0
    BY <1>1, <2>2 DEF ChainInv
  <2> QED BY <1>1, <2>1, <2>2
<1>4. \A i \in 1..(Len(wire') - 1) : At(wire'[i + 1]) = After(sent', wire'[i])
  <2> SUFFICES ASSUME NEW i \in 1..Len(wire) PROVE At(wire'[i + 1]) = After(sent, wire[i])
    BY <1>1
  <2>1. CASE i = Len(wire)
    BY <2>1, <1>1 DEF ChainInv
  <2>2. CASE i # Len(wire)
    <3>1. i \in 1..(Len(wire) - 1) /\ i + 1 \in 1..Len(wire)
      BY <2>2, <1>1
    <3> QED BY <3>1, <1>1 DEF ChainInv
  <2> QED BY <2>1, <2>2
<1>5. w'.pc # "failed" => After(sent', wire'[Len(wire')]) = WriterPos(w', Len(sent'))
  BY <1>1
<1> QED BY <1>1, <1>3, <1>4, <1>5 DEF ChainInv

\* Taking the first frame moves the reader behind it.
LEMMA ChainTail ==
    ASSUME wire \in Seq(FrameType), ChainInv, Len(wire) > 0,
           wire' = Tail(wire), w' = w, sent' = sent,
           r'.pc # "failed" => ReaderPos(r', Len(got')) = After(sent, wire[1])
    PROVE  ChainInv'
<1>1. /\ Len(wire) \in Nat /\ Len(wire') = Len(wire) - 1
      /\ \A i \in 1..Len(wire') : wire'[i] = wire[i + 1]
  BY TailFact
<1>2. \A i \in 1..(Len(wire') - 1) : At(wire'[i + 1]) = After(sent', wire'[i])
  <2> SUFFICES ASSUME NEW i \in 1..(Len(wire') - 1) PROVE At(wire'[i + 1]) = After(sent, wire'[i])
    OBVIOUS
  <2>1. i + 1 \in 1..(Len(wire) - 1) /\ wire'[i + 1] = wire[(i + 1) + 1] /\ wire'[i] = wire[i + 1]
    BY <1>1
  <2> QED BY <2>1 DEF ChainInv
<1>3. r'.pc # "failed" /\ Len(wire') > 0 => At(wire'[1]) = ReaderPos(r', Len(got'))
  <2> SUFFICES ASSUME r'.pc # "failed", Len(wire') > 0 PROVE At(wire'[1]) = After(sent, wire[1])
    OBVIOUS
  <2>1. 1 \in 1..(Len(wire) - 1) /\ wire'[1] = wire[1 + 1]
    BY <1>1
  <2> QED BY <2>1 DEF ChainInv
<1>4. w'.pc # "failed" /\ Len(wire') > 0 => After(sent', wire'[Len(wire')]) = WriterPos(w', Len(sent'))
  BY <1>1 DEF ChainInv
<1>5. w'.pc # "failed" /\ r'.pc # "failed" /\ Len(wire') = 0 => ReaderPos(r', Len(got')) = WriterPos(w', Len(sent'))
  <2>1. Len(wire') = 0 => Len(wire) = 1
    BY <1>1
  <2> QED BY <2>1 DEF ChainInv
<1> QED BY <1>2, <1>3, <1>4, <1>5 DEF ChainInv

\* An intact first frame is where the reader is, and tells the truth.
LEMMA HeadFrame ==
    ASSUME Inv, Len(wire) > 0
    PROVE  /\ Head(wire) = wire[1] /\ wire[1] \in FrameType
           /\ wire[1].id \in 1..Len(sent)
           /\ wire[1].ok => FrameOK(sent, whole, wire[1])
           /\ ~wire[1].ok => faults > 0
           /\ r.pc # "failed" => /\ wire[1].code = r.pc /\ wire[1].id = Len(got) + 1
                                 /\ wire[1].part = r.part
                                 /\ r.pc = "data" => wire[1].from = r.cur
<1>0. wire \in Seq(FrameType)
  BY DEF Inv, TypeOK
<1>1. Head(wire) = wire[1] /\ wire[1] \in FrameType /\ 1 \in 1..Len(wire)
  BY <1>0, TailFact
<1>2. /\ wire[1].id \in 1..Len(sent)
      /\ wire[1].ok => FrameOK(sent, whole, wire[1])
      /\ ~wire[1].ok => faults > 0
  BY <1>1 DEF Inv, FramesInv, FaultInv
<1>3. r.pc # "failed" => At(wire[1]) = ReaderPos(r, Len(got))
  BY DEF Inv, ChainInv
<1> QED BY <1>1, <1>2, <1>3 DEF At, ReaderPos, Pos

\* The frames that stay are as they were.
LEMMA TailFrames ==
    ASSUME wire \in Seq(FrameType), FramesInv, Len(wire) > 0,
           wire' = Tail(wire), sent' = sent, whole' = whole
    PROVE  FramesInv' /\ wire' \in Seq(FrameType)
<1>1. /\ Len(wire) \in Nat /\ Len(wire') = Len(wire) - 1 /\ wire' \in Seq(FrameType)
      /\ \A i \in 1..Len(wire') : wire'[i] = wire[i + 1]
  BY TailFact
<1>2. \A i \in 1..Len(wire') : i + 1 \in 1..Len(wire)
  BY <1>1
<1> QED BY <1>1, <1>2 DEF FramesInv

-----------------------------------------------------------------------------
GotType == [id : Nat, typ : MsgTypes \cup {""}, len : Nat]

\* A step that writes one frame.
LEMMA WriteFrame ==
    ASSUME Inv, w.pc \in {"size", "data"}, NEW f \in FrameType,
           wire' = Append(wire, f), sent' = sent, r' = r, got' = got,
           f.id = Len(sent), f.id > 0, At(f) = WriterPos(w, Len(sent)),
           f.ok => FrameOK(sent, whole', f),
           whole' \in {whole, Len(sent)}, w' \in WriterType, WriterInv',
           w'.pc # "failed" => After(sent, f) = WriterPos(w', Len(sent)),
           faults' \in 0..MaxFaults, faults' >= faults,
           ~f.ok \/ w'.pc = "failed" => faults' > 0
    PROVE  Inv'
<1>0. /\ wire \in Seq(FrameType) /\ sent \in Seq(Message) /\ whole \in Nat /\ Len(sent) \in Nat
      /\ faults \in Nat /\ faults' \in Nat /\ w.pc # "failed" /\ Len(got) \in Nat
  <2>1. wire \in Seq(FrameType) /\ sent \in Seq(Message) /\ whole \in Nat /\ got \in Seq(GotType) /\ faults \in 0..MaxFaults
    BY DEF Inv, TypeOK, GotType
  <2> QED BY <2>1, LenProperties
<1>1. /\ wire' \in Seq(FrameType) /\ Len(wire) \in Nat
      /\ Len(wire') = Len(wire) + 1 /\ wire'[Len(wire) + 1] = f
      /\ \A i \in 1..Len(wire) : wire'[i] = wire[i]
      /\ \A i \in 1..Len(wire') : i \in 1..Len(wire) \/ i = Len(wire) + 1
  BY <1>0, AppendFact
<1>2. whole <= whole' /\ whole' \in Nat
  BY <1>0 DEF Inv, WriterInv
<1>3. TypeOK'
  BY <1>0, <1>1, <1>2 DEF Inv, TypeOK
<1>4. SentInv' /\ ReaderInv'
  BY <1>0, <1>2 DEF Inv, SentInv, ReaderInv
<1>5. FramesInv'
  <2> SUFFICES ASSUME NEW i \in 1..Len(wire')
               PROVE  wire'[i].id \in 1..Len(sent) /\ (wire'[i].ok => FrameOK(sent, whole', wire'[i]))
    BY DEF FramesInv
  <2>1. CASE i \in 1..Len(wire)
    <3>1. wire[i] \in FrameType /\ wire'[i] = wire[i]
      BY <1>0, <1>1, <2>1, ElementOfSeq
    <3>2. wire[i].id \in 1..Len(sent) /\ (wire[i].ok => FrameOK(sent, whole, wire[i]))
      BY <2>1 DEF Inv, FramesInv
    <3> QED BY <1>0, <1>2, <3>1, <3>2, SMTT(40) DEF FrameOK, FrameType
  <2>2. CASE i = Len(wire) + 1
    BY <1>0, <1>1, <2>2
  <2> QED BY <1>1, <2>1, <2>2
<1>6. ChainInv'
  BY <1>0, ChainAppend DEF Inv
<1>7. FaultInv'
  BY <1>0, <1>1 DEF Inv, FaultInv
<1> QED BY <1>3, <1>4, <1>5, <1>6, <1>7 DEF Inv

\* A step that reads one frame.
LEMMA ReadFrame ==
    ASSUME Inv, Len(wire) > 0, wire' = Tail(wire), sent' = sent, whole' = whole, w' = w,
           faults' = faults, r' \in ReaderType, got' \in Seq(GotType), ReaderInv',
           r'.pc # "failed" => ReaderPos(r', Len(got')) = After(sent, wire[1]),
           r'.pc = "failed" => faults > 0
    PROVE  Inv'
<1>0. wire \in Seq(FrameType)
  BY DEF Inv, TypeOK
<1>1. FramesInv' /\ wire' \in Seq(FrameType)
  BY <1>0, TailFrames DEF Inv
<1>2. TypeOK'
  BY <1>1 DEF Inv, TypeOK, GotType
<1>3. SentInv' /\ WriterInv'
  BY DEF Inv, SentInv, WriterInv
<1>4. ChainInv'
  BY <1>0, ChainTail DEF Inv
<1>5. FaultInv'
  <2>1. /\ Len(wire) \in Nat /\ Len(wire') = Len(wire) - 1
        /\ \A i \in 1..Len(wire') : wire'[i] = wire[i + 1]
    BY <1>0, TailFact
  <2>2. \A i \in 1..Len(wire') : i + 1 \in 1..Len(wire)
    BY <2>1
  <2> QED BY <2>1, <2>2 DEF Inv, FaultInv
<1> QED BY <1>1, <1>2, <1>3, <1>4, <1>5 DEF Inv

-----------------------------------------------------------------------------
\* The types, one by one.
LEMMA Basics ==
    ASSUME Inv
    PROVE  /\ wire \in Seq(FrameType) /\ sent \in Seq(Message) /\ got \in Seq(GotType)
           /\ w \in WriterType /\ r \in ReaderType
           /\ whole \in Nat /\ faults \in 0..MaxFaults /\ faults \in Nat
           /\ Len(wire) \in Nat /\ Len(sent) \in Nat /\ Len(got) \in Nat
<1>1. /\ wire \in Seq(FrameType) /\ sent \in Seq(Message) /\ got \in Seq(GotType)
      /\ w \in WriterType /\ r \in ReaderType
      /\ whole \in Nat /\ faults \in 0..MaxFaults
  BY DEF Inv, TypeOK, GotType
<1> QED BY <1>1, LenProperties

\* Nothing is on its way, and both ends are at the first message.
LEMMA InitInv == Init => Inv
<1> SUFFICES ASSUME Init PROVE Inv
  OBVIOUS
<1>1. /\ w.pc = "idle" /\ r.pc = "size" /\ r.part = "header" /\ r.clean
      /\ sent = << >> /\ wire = << >> /\ got = << >> /\ whole = 0 /\ faults = 0
  BY DEF Init
<1>2. w \in WriterType
  BY Zero DEF Init, WriterType, Parts
<1>3. r \in ReaderType
  BY Zero DEF Init, ReaderType, Parts
<1>4. TypeOK
  BY <1>1, <1>2, <1>3, Zero, EmptySeq DEF TypeOK
<1>5. Len(sent) = 0 /\ Len(wire) = 0 /\ Len(got) = 0
  BY <1>1, EmptySeq
<1>6. SentInv /\ FramesInv /\ FaultInv
  BY <1>1, <1>5 DEF SentInv, FramesInv, FaultInv
<1>7. WriterInv /\ ReaderInv
  BY <1>1, <1>5 DEF WriterInv, ReaderInv
<1>8. ChainInv
  BY <1>1, <1>5 DEF ChainInv, ReaderPos, WriterPos
<1> QED BY <1>4, <1>6, <1>7, <1>8 DEF Inv

\* Connection.writeSize: the frame announces the length of the part.
LEMMA WriteSizeInv == ASSUME Inv, writeSize PROVE Inv'
<1> DEFINE n == Length(Len(sent), w.part)
           f == Frame("size", SizeBytes, n, TRUE)
<1>0. w \in WriterType /\ sent \in Seq(Message) /\ whole \in Nat /\ Len(sent) \in Nat /\ faults \in 0..MaxFaults
  BY Basics
<1>1. /\ w.pc = "size" /\ w.cur = 0 /\ Len(sent) = whole + 1 /\ Len(sent) \in 1..Len(sent)
      /\ w.part \in Parts
  BY <1>0 DEF Inv, WriterInv, writeSize, WriterType
<1>2. /\ n = LengthIn(sent, Len(sent), w.part) /\ n \in 0..(Word - 1) /\ n \in Nat
      /\ w.part = "header" => n > 0
  BY <1>0, <1>1, LengthType, StreamAssumption
<1>3. FrameFits(SizeBytes) /\ SizeBytes \in Nat
  BY StreamAssumption DEF FrameFits
<1>4. /\ wire' = Append(wire, f) /\ sent' = sent /\ r' = r /\ got' = got /\ faults' = faults
      /\ n = 0 => NextPart
      /\ n # 0 => w' = [w EXCEPT !.pc = "data", !.cur = 0, !.remaining = n] /\ whole' = whole
  BY <1>3 DEF writeSize, reader
<1> HIDE DEF n
<1>5. /\ f \in FrameType /\ f.id = Len(sent) /\ f.code = "size" /\ f.part = w.part /\ f.from = 0
      /\ f.size = SizeBytes /\ f.val = n /\ f.ok
  BY <1>0, <1>1, <1>2, <1>3 DEF Frame, FrameType
<1> HIDE DEF f
<1>6. At(f) = WriterPos(w, Len(sent))
  BY <1>1, <1>5 DEF At, WriterPos
<1>7. CASE n = 0
  <2>1. w.part = "payload" /\ w' = [w EXCEPT !.pc = "idle", !.remaining = 0] /\ whole' = Len(sent)
    BY <1>1, <1>2, <1>4, <1>7 DEF NextPart, Parts
  <2>2. w' \in WriterType /\ w'.pc = "idle"
    BY <1>0, <2>1, Zero DEF WriterType
  <2>3. WriterInv'
    BY <1>0, <1>4, <2>1, <2>2 DEF WriterInv
  <2>4. FrameOK(sent, whole', f)
    BY <1>0, <1>2, <1>5, <1>7, <2>1 DEF FrameOK
  <2>5. After(sent, f) = WriterPos(w', Len(sent))
    BY <1>5, <1>7, <2>1, <2>2 DEF After, LastOf, PartEnd, WriterPos
  <2> QED BY <1>0, <1>1, <1>4, <1>5, <1>6, <2>1, <2>2, <2>3, <2>4, <2>5, WriteFrame
<1>8. CASE n # 0
  <2>1. w' = [w EXCEPT !.pc = "data", !.cur = 0, !.remaining = n] /\ whole' = whole
    BY <1>4, <1>8
  <2>2. /\ w' \in WriterType /\ w'.pc = "data" /\ w'.cur = 0 /\ w'.remaining = n /\ w'.part = w.part
    BY <1>0, <2>1, <1>2 DEF WriterType
  <2>3. WriterInv'
    BY <1>0, <1>1, <1>2, <1>4, <1>8, <2>1, <2>2 DEF WriterInv
  <2>4. FrameOK(sent, whole', f)
    BY <1>2, <1>5, <1>8 DEF FrameOK, LastOf
  <2>5. After(sent, f) = WriterPos(w', Len(sent))
    BY <1>5, <1>8, <2>2 DEF After, LastOf, WriterPos
  <2> QED BY <1>0, <1>1, <1>4, <1>5, <1>6, <2>1, <2>2, <2>3, <2>4, <2>5, WriteFrame
<1> QED BY <1>7, <1>8

\* Connection.writeData: a packet is at most what is left.
LEMMA WriteDataInv == ASSUME Inv, writeData PROVE Inv'
<1> DEFINE n == PacketLen(w.remaining)
           left == w.remaining - n
           f == Frame("data", n, 0, TRUE)
<1>0. w \in WriterType /\ sent \in Seq(Message) /\ whole \in Nat /\ Len(sent) \in Nat /\ faults \in 0..MaxFaults
  BY Basics
<1>1. /\ w.pc = "data" /\ Len(sent) = whole + 1 /\ Len(sent) \in 1..Len(sent)
      /\ w.part \in Parts /\ w.cur \in Nat /\ w.remaining \in 1..(Word - 1) /\ w.remaining \in Nat
      /\ w.cur + w.remaining = LengthIn(sent, Len(sent), w.part)
  BY <1>0 DEF Inv, WriterInv, writeData, WriterType
<1>2. /\ n \in 1..w.remaining /\ n \in Nat /\ n <= PacketSize
      /\ Left(w.remaining, n) = left /\ left \in 0..(Word - 1)
  BY <1>1, StreamAssumption DEF PacketLen, Left
<1>3. FrameFits(n)
  BY <1>2, StreamAssumption DEF FrameFits
<1>4. /\ wire' = Append(wire, f) /\ sent' = sent /\ r' = r /\ got' = got /\ faults' = faults
      /\ left = 0 => NextPart
      /\ left # 0 => w' = [w EXCEPT !.cur = @ + n, !.remaining = left] /\ whole' = whole
  BY <1>2, <1>3 DEF writeData, reader
<1> HIDE DEF n
<1>5. /\ f \in FrameType /\ f.id = Len(sent) /\ f.code = "data" /\ f.part = w.part /\ f.from = w.cur
      /\ f.size = n /\ f.ok
  BY <1>0, <1>1, <1>2 DEF Frame, FrameType
<1> HIDE DEF f
<1>6. At(f) = WriterPos(w, Len(sent))
  BY <1>1, <1>5 DEF At, WriterPos
<1>7. CASE left = 0
  <2>1. LastOf(sent, f)
    BY <1>1, <1>2, <1>5, <1>7 DEF LastOf
  <2>2. CASE w.part = "header"
    <3>1. /\ w' = [pc |-> "size", part |-> "payload", cur |-> 0, remaining |-> 0] /\ whole' = whole
      BY <1>4, <1>7, <2>2 DEF NextPart
    <3>2. w' \in WriterType
      BY <3>1, Zero DEF WriterType, Parts
    <3>3. WriterInv'
      BY <1>0, <1>1, <1>4, <3>1 DEF WriterInv
    <3>4. FrameOK(sent, whole', f)
      BY <1>1, <1>2, <1>5, <2>2, <1>7 DEF FrameOK
    <3>5. After(sent, f) = WriterPos(w', Len(sent))
      BY <1>5, <2>1, <2>2, <3>1 DEF After, PartEnd, WriterPos
    <3> QED BY <1>0, <1>1, <1>4, <1>5, <1>6, <3>1, <3>2, <3>3, <3>4, <3>5, WriteFrame
  <2>3. CASE w.part = "payload"
    <3>1. w' = [w EXCEPT !.pc = "idle", !.remaining = 0] /\ whole' = Len(sent)
      BY <1>4, <1>7, <2>3 DEF NextPart
    <3>2. w' \in WriterType /\ w'.pc = "idle"
      BY <1>0, <3>1, Zero DEF WriterType
    <3>3. WriterInv'
      BY <1>0, <1>4, <3>1, <3>2 DEF WriterInv
    <3>4. FrameOK(sent, whole', f)
      BY <1>0, <1>1, <1>2, <1>5, <1>7, <3>1 DEF FrameOK
    <3>5. After(sent, f) = WriterPos(w', Len(sent))
      BY <1>5, <2>1, <2>3, <3>2 DEF After, PartEnd, WriterPos
    <3> QED BY <1>0, <1>1, <1>4, <1>5, <1>6, <3>1, <3>2, <3>3, <3>4, <3>5, WriteFrame
  <2> QED BY <1>1, <2>2, <2>3 DEF Parts
<1>8. CASE left # 0
  <2>1. w' = [w EXCEPT !.cur = @ + n, !.remaining = left] /\ whole' = whole
    BY <1>4, <1>8
  <2>a. left \in 0..(Word - 1) /\ w.cur + n \in Nat /\ left > 0 /\ (w.cur + n) + left = w.cur + w.remaining
    BY <1>1, <1>2, <1>8
  <2> HIDE DEF left
  <2>2. /\ w' \in WriterType /\ w'.pc = "data" /\ w'.cur = w.cur + n /\ w'.remaining = left
        /\ w'.part = w.part
    BY <1>0, <1>1, <2>a, <2>1 DEF WriterType
  <2>3. WriterInv'
    BY <1>0, <1>1, <1>4, <2>a, <2>1, <2>2 DEF WriterInv
  <2>4. ~LastOf(sent, f) /\ FrameOK(sent, whole', f)
    BY <1>1, <1>2, <1>5, <2>a DEF FrameOK, LastOf
  <2>5. After(sent, f) = WriterPos(w', Len(sent))
    BY <1>5, <2>2, <2>4 DEF After, WriterPos
  <2> QED BY <1>0, <1>1, <1>4, <1>5, <1>6, <2>1, <2>2, <2>3, <2>4, <2>5, WriteFrame
<1> QED BY <1>7, <1>8

-----------------------------------------------------------------------------
\* The receiving function returns nothing, or the next message.
Receives == got' = got \/ got' = Append(got, sent[Len(got) + 1])

\* A part ends in its last frame: what the reader takes it for is what it was.
LEMMA ReadDoneInv ==
    ASSUME Inv, Len(wire) > 0, wire' = Tail(wire), sent' = sent, whole' = whole, w' = w, faults' = faults,
           r.pc # "failed", wire[1].ok, LastOf(sent, wire[1]), NEW n, NEW id, NEW clean,
           id = Len(got) + 1, n = LengthIn(sent, id, r.part), clean = TRUE, ReadDone(n, id, clean)
    PROVE  Inv' /\ Receives
<1>0. /\ r \in ReaderType /\ sent \in Seq(Message) /\ got \in Seq(GotType) /\ whole \in Nat
      /\ Len(sent) \in Nat /\ Len(got) \in Nat
  BY Basics
<1>1. /\ wire[1] \in FrameType /\ wire[1].id = id /\ wire[1].part = r.part /\ id \in 1..Len(sent)
      /\ FrameOK(sent, whole, wire[1])
  BY HeadFrame
<1>2. sent[id] \in Message /\ r.part \in Parts
  BY <1>0, <1>1, ElementOfSeq DEF ReaderType
<1>3. CASE r.part = "header"
  <2>1. n = HeaderSize /\ After(sent, wire[1]) = Pos("size", id, "payload", 0)
    BY <1>1, <1>3 DEF LengthIn, After, PartEnd
  <2>2. PICK typ \in MsgTypes, len \in Lens :
            /\ typ = sent[id].typ /\ len = sent[id].len
            /\ r' = [pc |-> "size", part |-> "payload", cur |-> 0, remaining |-> 0,
                     clean |-> TRUE, id |-> id, typ |-> typ, len |-> len]
    BY <1>3, <2>1 DEF ReadDone
  <2>3. got' = got
    BY <1>3, <2>1 DEF ReadDone
  <2>4. len \in Nat /\ id \in Nat
    BY <1>0, StreamAssumption
  <2>5. r' \in ReaderType
    BY <2>2, <2>4, Zero DEF ReaderType, Parts
  <2>6. ReaderInv'
    BY <1>0, <1>1, <2>2, <2>3 DEF Inv, ReaderInv
  <2>7. ReaderPos(r', Len(got')) = After(sent, wire[1])
    BY <2>1, <2>2, <2>3 DEF ReaderPos
  <2>8. r'.pc # "failed"
    BY <2>2
  <2> QED BY <1>0, <2>3, <2>5, <2>6, <2>7, <2>8, ReadFrame DEF Receives
<1>4. CASE r.part = "payload"
  <2>1. n = sent[id].len /\ r.len = n /\ r.typ = sent[id].typ /\ n \in Nat /\ id <= whole
        /\ After(sent, wire[1]) = Pos("size", id + 1, "header", 0)
    BY <1>0, <1>1, <1>2, <1>4, StreamAssumption DEF Inv, ReaderInv, LengthIn, After, PartEnd, FrameOK, Message
  <2>2. /\ got' = Append(got, [id |-> id, typ |-> r.typ, len |-> n])
        /\ r' = [r EXCEPT !.pc = "size", !.part = "header", !.cur = 0, !.remaining = 0]
    BY <1>4, <2>1 DEF ReadDone
  <2>a. id \in Nat
    BY <1>0
  <2>b. r.typ \in MsgTypes \cup {""}
    BY <1>0 DEF ReaderType
  <2>3. [id |-> id, typ |-> r.typ, len |-> n] \in GotType
    BY <2>a, <2>b, <2>1 DEF GotType
  <2>4. got' \in Seq(GotType) /\ Len(got') = id
    BY <1>0, <2>2, <2>3, AppendFact
  <2>5. r' \in ReaderType /\ r'.pc = "size" /\ r'.part = "header" /\ r'.clean
    BY <1>0, <2>2, Zero DEF ReaderType, Parts, Inv, ReaderInv
  <2>6. ReaderInv'
    BY <2>1, <2>4, <2>5 DEF ReaderInv
  <2>7. ReaderPos(r', Len(got')) = After(sent, wire[1])
    BY <2>1, <2>4, <2>5 DEF ReaderPos
  <2>8. sent[id].id = id
    BY <1>1 DEF Inv, SentInv
  <2>9. [id |-> id, typ |-> r.typ, len |-> n] = sent[id]
    BY <1>2, <2>1, <2>8 DEF Message
  <2> QED BY <1>0, <2>2, <2>4, <2>5, <2>6, <2>7, <2>9, ReadFrame DEF Receives
<1> QED BY <1>2, <1>3, <1>4 DEF Parts

\* A damaged frame ends the reading.
LEMMA ReadFailedInv ==
    ASSUME Inv, Len(wire) > 0, wire' = Tail(wire), sent' = sent, whole' = whole, w' = w, faults' = faults,
           faults > 0, ReadFailed
    PROVE  Inv' /\ Receives
<1>0. r \in ReaderType /\ got \in Seq(GotType)
  BY Basics
<1>1. got' = got /\ r' = [r EXCEPT !.pc = "failed"]
  BY DEF ReadFailed
<1>2. r' \in ReaderType /\ r'.pc = "failed" /\ r'.clean = r.clean
  BY <1>0, <1>1 DEF ReaderType
<1>3. ReaderInv'
  BY <1>1, <1>2 DEF Inv, ReaderInv
<1> QED BY <1>0, <1>1, <1>2, <1>3, ReadFrame DEF Receives

\* Connection.readSize
LEMMA ReadSizeInv == ASSUME Inv, readSize PROVE Inv' /\ Receives
<1> DEFINE f == wire[1]
<1>0. /\ r \in ReaderType /\ sent \in Seq(Message) /\ got \in Seq(GotType) /\ wire \in Seq(FrameType)
      /\ Len(sent) \in Nat /\ Len(got) \in Nat /\ Len(wire) \in Nat
  BY Basics
<1>1. /\ Len(wire) > 0 /\ r.pc = "size" /\ wire' = Tail(wire)
      /\ sent' = sent /\ whole' = whole /\ w' = w /\ faults' = faults
  BY <1>0, EmptySeq DEF readSize, writer
<1>2. /\ Head(wire) = f /\ f \in FrameType /\ f.id \in 1..Len(sent) /\ (f.ok => FrameOK(sent, whole, f))
      /\ (~f.ok => faults > 0) /\ f.code = "size" /\ f.id = Len(got) + 1 /\ f.part = r.part
  BY <1>1, HeadFrame
<1>3. CASE ~f.ok
  <2>1. ReadFailed
    BY <1>2, <1>3 DEF readSize, Intact
  <2> QED BY <1>1, <1>2, <1>3, <2>1, ReadFailedInv
<1>4. CASE f.ok
  <2>1. f.size = SizeBytes /\ f.val = LengthIn(sent, f.id, r.part) /\ r.clean /\ r.part \in Parts
    BY <1>0, <1>2, <1>4 DEF FrameOK, Inv, ReaderInv, ReaderType
  <2>2. r.part = "payload" => f.id = r.id
    BY <1>1, <1>2 DEF Inv, ReaderInv
  <2>3. f.val \in 0..(Word - 1) /\ f.val \in Nat /\ f.id \in Nat
    BY <1>0, <1>2, <2>1, LengthType, Zero
  <2> DEFINE clean == r.clean /\ f.ok /\ f.part = r.part /\ (r.part = "payload" => f.id = r.id)
  <2>4. clean = TRUE
    BY <1>2, <1>4, <2>1, <2>2
  <2>5. IF StartData(f.val)
        THEN /\ r' = [r EXCEPT !.pc = "data", !.cur = 0, !.remaining = f.val, !.clean = clean, !.id = f.id]
             /\ got' = got
        ELSE ReadDone(f.val, f.id, clean)
    BY <1>2, <1>4, <2>1 DEF readSize, Intact
  <2> HIDE DEF clean
  <2>6. CASE f.val > 0
    <3>1. r' = [r EXCEPT !.pc = "data", !.cur = 0, !.remaining = f.val, !.clean = TRUE, !.id = f.id] /\ got' = got
      BY <2>4, <2>5, <2>6 DEF StartData
    <3>2. /\ r' \in ReaderType /\ r'.pc = "data" /\ r'.cur = 0 /\ r'.remaining = f.val /\ r'.clean
          /\ r'.id = f.id /\ r'.part = r.part /\ r'.typ = r.typ /\ r'.len = r.len
      BY <1>0, <2>3, <3>1 DEF ReaderType
    <3>3. ReaderInv'
      BY <1>0, <1>1, <1>2, <2>1, <2>3, <2>6, <3>1, <3>2 DEF Inv, ReaderInv
    <3>4. ReaderPos(r', Len(got')) = After(sent, f)
      BY <1>2, <2>3, <2>6, <3>1, <3>2 DEF ReaderPos, After, LastOf
    <3> QED BY <1>0, <1>1, <3>1, <3>2, <3>3, <3>4, ReadFrame DEF Receives
  <2>7. CASE f.val = 0
    <3>1. ReadDone(f.val, f.id, clean)
      BY <2>5, <2>7 DEF StartData
    <3>2. LastOf(sent, f)
      BY <1>2, <2>7 DEF LastOf
    <3> QED BY <1>1, <1>2, <1>4, <2>1, <2>4, <3>1, <3>2, ReadDoneInv
  <2> QED BY <2>3, <2>6, <2>7
<1> QED BY <1>3, <1>4

\* Connection.readData: a packet never holds more than the bytes that are left.
LEMMA ReadDataInv == ASSUME Inv, readData PROVE Inv' /\ Receives
<1> DEFINE f == wire[1]
<1>0. /\ r \in ReaderType /\ sent \in Seq(Message) /\ got \in Seq(GotType) /\ wire \in Seq(FrameType)
      /\ Len(sent) \in Nat /\ Len(got) \in Nat /\ Len(wire) \in Nat
  BY Basics
<1>1. /\ Len(wire) > 0 /\ r.pc = "data" /\ wire' = Tail(wire)
      /\ sent' = sent /\ whole' = whole /\ w' = w /\ faults' = faults
  BY <1>0, EmptySeq DEF readData, writer
<1>2. /\ Head(wire) = f /\ f \in FrameType /\ f.id \in 1..Len(sent) /\ (f.ok => FrameOK(sent, whole, f))
      /\ (~f.ok => faults > 0) /\ f.code = "data" /\ f.id = Len(got) + 1 /\ f.part = r.part /\ f.from = r.cur
  BY <1>1, HeadFrame
<1>3. CASE ~f.ok
  <2>1. ReadFailed
    BY <1>2, <1>3 DEF readData, Intact
  <2> QED BY <1>1, <1>2, <1>3, <2>1, ReadFailedInv
<1>4. CASE f.ok
  <2>0. f.size \in Nat
    BY <1>2 DEF FrameType
  <2>1. /\ r.clean /\ r.id = f.id /\ r.remaining \in 0..(Word - 1) /\ r.cur \in Nat /\ Word \in Nat
        /\ r.cur + r.remaining = LengthIn(sent, f.id, r.part)
    BY <1>0, <1>1, <1>2, Zero DEF Inv, ReaderInv, ReaderType
  <2>2. f.size > 0 /\ r.cur + f.size <= LengthIn(sent, f.id, r.part)
    BY <1>2, <1>4 DEF FrameOK
  <2> DEFINE clean == r.clean /\ f.ok /\ f.id = r.id /\ f.part = r.part /\ f.from = r.cur
             left  == Left(r.remaining, f.size)
  <2>3. left = r.remaining - f.size /\ left \in 0..(Word - 1) /\ left \in Nat
    BY <2>0, <2>1, <2>2 DEF Left
  <2>4. clean = TRUE
    BY <1>2, <1>4, <2>1
  <2>5. IF left > 0
        THEN r' = [r EXCEPT !.cur = @ + f.size, !.remaining = left, !.clean = clean] /\ got' = got
        ELSE ReadDone(r.cur + f.size, r.id, clean)
    <3>1. f.size # 0
      BY <2>0, <2>2
    <3>2. Intact(f) /\ f.code = "data" /\ Head(wire) = f
      BY <1>2, <1>4 DEF Intact
    <3> HIDE DEF f
    <3> QED BY <3>1, <3>2, Zenon DEF readData, reader
  <2> HIDE DEF clean, left
  <2>6. CASE left > 0
    <3>1. r' = [r EXCEPT !.cur = @ + f.size, !.remaining = left, !.clean = TRUE] /\ got' = got
      BY <2>4, <2>5, <2>6
    <3>a. r.cur + f.size \in Nat /\ (r.cur + f.size) + left = LengthIn(sent, f.id, r.part)
      BY <2>0, <2>1, <2>3
    <3>2. /\ r' \in ReaderType /\ r'.pc = "data" /\ r'.cur = r.cur + f.size /\ r'.remaining = left /\ r'.clean
          /\ r'.id = r.id /\ r'.part = r.part /\ r'.typ = r.typ /\ r'.len = r.len
      BY <1>0, <1>1, <2>3, <3>a, <3>1 DEF ReaderType
    <3>3. ReaderInv'
      BY <1>0, <1>1, <1>2, <2>1, <2>6, <3>a, <3>1, <3>2 DEF Inv, ReaderInv
    <3>4. ~LastOf(sent, f)
      BY <1>2, <2>0, <2>1, <2>3, <2>6, <3>a DEF LastOf
    <3>5. ReaderPos(r', Len(got')) = After(sent, f)
      BY <1>2, <3>1, <3>2, <3>4 DEF ReaderPos, After
    <3> QED BY <1>0, <1>1, <3>1, <3>2, <3>3, <3>5, ReadFrame DEF Receives
  <2>7. CASE left = 0
    <3>1. ReadDone(r.cur + f.size, r.id, clean)
      BY <2>5, <2>7
    <3>2. r.cur + f.size = LengthIn(sent, f.id, r.part)
      BY <2>0, <2>1, <2>3, <2>7
    <3>3. LastOf(sent, f)
      BY <1>2, <3>2 DEF LastOf
    <3> QED BY <1>1, <1>2, <1>4, <2>1, <2>4, <3>1, <3>2, <3>3, ReadDoneInv
  <2> QED BY <2>3, <2>6, <2>7
<1> QED BY <1>3, <1>4

-----------------------------------------------------------------------------
\* A damaged frame is where it was, and says nothing.
LEMMA WorseFrame ==
    ASSUME NEW f \in FrameType, NEW g, g \in {f, [f EXCEPT !.ok = FALSE]}
    PROVE  /\ g \in FrameType /\ g.id = f.id /\ At(g) = At(f) /\ (g.ok => g = f)
           /\ \A s : After(s, g) = After(s, f)
<1>1. CASE g = f
  BY <1>1
<1>2. CASE g = [f EXCEPT !.ok = FALSE]
  <2>1. /\ g \in FrameType /\ g.code = f.code /\ g.id = f.id /\ g.part = f.part /\ g.from = f.from
        /\ g.size = f.size /\ g.val = f.val /\ g.ok = FALSE
    BY <1>2 DEF FrameType
  <2>2. At(g) = At(f)
    BY <2>1 DEF At
  <2>3. \A s : After(s, g) = After(s, f)
    BY <2>1 DEF After, LastOf
  <2> QED BY <2>1, <2>2, <2>3
<1> QED BY <1>1, <1>2

\* A step that only fails an end, or damages or loses frames.
LEMMA FailInv ==
    ASSUME Inv, sent' = sent, whole' = whole, got' = got, wire' \in Seq(FrameType),
           Len(wire') <= Len(wire), Len(wire') < Len(wire) => w'.pc = "failed",
           \A i \in 1..Len(wire') : wire'[i] \in {wire[i], [wire[i] EXCEPT !.ok = FALSE]},
           w' \in {w, [w EXCEPT !.pc = "failed"]}, r' \in {r, [r EXCEPT !.pc = "failed"]},
           faults' \in 0..MaxFaults, faults' > 0
    PROVE  Inv'
<1>0. /\ wire \in Seq(FrameType) /\ w \in WriterType /\ r \in ReaderType /\ Len(wire) \in Nat
      /\ Len(wire') \in Nat /\ sent \in Seq(Message) /\ got \in Seq(GotType) /\ whole \in Nat
  BY Basics, LenProperties
<1>1. \A i \in 1..Len(wire') :
        /\ i \in 1..Len(wire) /\ wire'[i].id = wire[i].id /\ At(wire'[i]) = At(wire[i])
        /\ (wire'[i].ok => wire'[i] = wire[i]) /\ After(sent, wire'[i]) = After(sent, wire[i])
  <2> SUFFICES ASSUME NEW i \in 1..Len(wire')
               PROVE  /\ i \in 1..Len(wire) /\ wire'[i].id = wire[i].id /\ At(wire'[i]) = At(wire[i])
                      /\ (wire'[i].ok => wire'[i] = wire[i]) /\ After(sent, wire'[i]) = After(sent, wire[i])
    OBVIOUS
  <2>1. i \in 1..Len(wire)
    BY <1>0
  <2>2. wire[i] \in FrameType
    BY <1>0, <2>1, ElementOfSeq
  <2> QED BY <2>1, <2>2, WorseFrame
<1>2. /\ w' \in WriterType /\ (w'.pc # "failed" => w' = w)
      /\ r' \in ReaderType /\ (r'.pc # "failed" => r' = r) /\ r'.clean = r.clean
  <2>1. w' \in WriterType /\ (w'.pc # "failed" => w' = w)
    BY <1>0 DEF WriterType
  <2>2. r' \in ReaderType /\ (r'.pc # "failed" => r' = r) /\ r'.clean = r.clean
    <3>1. CASE r' = r
      BY <1>0, <3>1
    <3>2. CASE r' = [r EXCEPT !.pc = "failed"]
      BY <1>0, <3>2 DEF ReaderType
    <3> QED BY <3>1, <3>2
  <2> QED BY <2>1, <2>2
<1>3. TypeOK'
  BY <1>0, <1>2 DEF TypeOK, GotType
<1>4. SentInv'
  BY DEF Inv, SentInv
<1>5. WriterInv'
  <2>1. CASE w'.pc = "failed"
    BY <2>1 DEF Inv, WriterInv
  <2>2. CASE w' = w
    BY <2>2 DEF Inv, WriterInv
  <2> QED BY <1>2, <2>1, <2>2
<1>6. ReaderInv'
  <2>1. CASE r'.pc = "failed"
    BY <1>2, <2>1 DEF Inv, ReaderInv
  <2>2. CASE r' = r
    BY <2>2 DEF Inv, ReaderInv
  <2> QED BY <1>2, <2>1, <2>2
<1>7. FramesInv'
  BY <1>1 DEF Inv, FramesInv
<1>8. FaultInv'
  BY DEF FaultInv
<1>9. ChainInv'
  <2>1. r'.pc # "failed" /\ Len(wire') > 0 => At(wire'[1]) = ReaderPos(r', Len(got'))
    <3> SUFFICES ASSUME r'.pc # "failed", Len(wire') > 0 PROVE At(wire'[1]) = ReaderPos(r, Len(got))
      BY <1>2
    <3>1. 1 \in 1..Len(wire') /\ Len(wire) > 0
      BY <1>0
    <3>2. At(wire'[1]) = At(wire[1])
      BY <1>1, <3>1
    <3>3. r' = r
      BY <1>2
    <3>4. r.pc # "failed"
      BY <3>3
    <3> QED BY <3>1, <3>2, <3>4 DEF Inv, ChainInv
  <2>2. \A i \in 1..(Len(wire') - 1) : At(wire'[i + 1]) = After(sent', wire'[i])
    <3> SUFFICES ASSUME NEW i \in 1..(Len(wire') - 1) PROVE At(wire'[i + 1]) = After(sent, wire'[i])
      OBVIOUS
    <3>1. i \in 1..Len(wire') /\ i + 1 \in 1..Len(wire') /\ i \in 1..(Len(wire) - 1)
      BY <1>0
    <3>2. At(wire[i + 1]) = After(sent, wire[i])
      BY <3>1 DEF Inv, ChainInv
    <3> QED BY <1>1, <3>1, <3>2
  <2>3. w'.pc # "failed" => w' = w /\ Len(wire') = Len(wire)
    BY <1>0, <1>2
  <2>4. w'.pc # "failed" /\ Len(wire') > 0 => After(sent', wire'[Len(wire')]) = WriterPos(w', Len(sent'))
    <3> SUFFICES ASSUME w'.pc # "failed", Len(wire') > 0
                 PROVE  After(sent, wire'[Len(wire)]) = WriterPos(w, Len(sent))
      BY <2>3
    <3>1. Len(wire) \in 1..Len(wire') /\ Len(wire) > 0 /\ w.pc # "failed"
      BY <1>0, <2>3
    <3>2. After(sent, wire[Len(wire)]) = WriterPos(w, Len(sent))
      BY <3>1 DEF Inv, ChainInv
    <3> QED BY <1>1, <3>1, <3>2
  <2>5. w'.pc # "failed" /\ r'.pc # "failed" /\ Len(wire') = 0
            => ReaderPos(r', Len(got')) = WriterPos(w', Len(sent'))
    BY <1>2, <2>3 DEF Inv, ChainInv
  <2> QED BY <2>1, <2>2, <2>4, <2>5 DEF ChainInv
<1> QED BY <1>3, <1>4, <1>5, <1>6, <1>7, <1>8, <1>9 DEF Inv

\* The steps that go wrong, but for a frame that is cut by the write deadline.
LEMMA FaultsInv ==
    ASSUME Inv, ShortSource \/ ReadTimeout \/ ReadDeadline \/ Damage \/ Break
    PROVE  Inv' /\ sent' = sent /\ whole' = whole /\ got' = got
<1>0. /\ wire \in Seq(FrameType) /\ Len(wire) \in Nat /\ faults \in 0..MaxFaults /\ MaxFaults \in Nat
  BY Basics, Zero
<1>1. Fault => faults' \in 0..MaxFaults /\ faults' > 0
  BY <1>0 DEF Fault
<1>2. \A i \in 1..Len(wire) : wire[i] \in {wire[i], [wire[i] EXCEPT !.ok = FALSE]}
  OBVIOUS
<1>3. CASE ShortSource
  <2>1. /\ sent' = sent /\ whole' = whole /\ got' = got /\ wire' = wire /\ r' = r
        /\ w' = [w EXCEPT !.pc = "failed"] /\ faults' \in 0..MaxFaults /\ faults' > 0
    BY <1>1, <1>3 DEF ShortSource, WriteFailed, reader
  <2> QED BY <1>0, <1>2, <2>1, FailInv
<1>4. CASE ReadTimeout
  <2>1. /\ sent' = sent /\ whole' = whole /\ got' = got /\ wire' = wire /\ w' = w
        /\ r' = [r EXCEPT !.pc = "failed"] /\ faults' \in 0..MaxFaults /\ faults' > 0
    BY <1>1, <1>4 DEF ReadTimeout, ReadFailed, writer
  <2> QED BY <1>0, <1>2, <2>1, FailInv
<1>5. CASE ReadDeadline
  <2>1. /\ sent' = sent /\ whole' = whole /\ got' = got /\ wire' = wire /\ w' = w
        /\ r' = [r EXCEPT !.pc = "failed"] /\ faults' = faults /\ w.pc = "failed"
    BY <1>5 DEF ReadDeadline, ReadFailed, writer
  <2>2. faults' \in 0..MaxFaults /\ faults' > 0
    BY <1>0, <2>1 DEF Inv, FaultInv
  <2> QED BY <1>0, <1>2, <2>1, <2>2, FailInv
<1>6. CASE Damage
  <2>1. /\ sent' = sent /\ whole' = whole /\ got' = got /\ w' = w /\ r' = r
        /\ faults' \in 0..MaxFaults /\ faults' > 0
    BY <1>1, <1>6 DEF Damage, writer, reader
  <2>2. PICK i \in DOMAIN wire : wire' = [wire EXCEPT ![i].ok = FALSE]
    BY <1>6 DEF Damage
  <2>3. i \in 1..Len(wire)
    BY <1>0, LenProperties
  <2>4. [wire[i] EXCEPT !.ok = FALSE] \in FrameType
    BY <1>0, <2>3, ElementOfSeq, WorseFrame
  <2>5. /\ wire' \in Seq(FrameType) /\ Len(wire') = Len(wire)
        /\ \A j \in 1..Len(wire) : wire'[j] = IF j = i THEN [wire[i] EXCEPT !.ok = FALSE] ELSE wire[j]
    BY <1>0, <2>2, <2>3, <2>4, ExceptSeq
  <2> QED BY <1>0, <2>1, <2>5, FailInv
<1>7. CASE Break
  <2>1. /\ sent' = sent /\ whole' = whole /\ got' = got /\ r' = r
        /\ w' = [w EXCEPT !.pc = "failed"] /\ faults' \in 0..MaxFaults /\ faults' > 0
    BY <1>1, <1>7 DEF Break, WriteFailed, reader
  <2>2. PICK k \in 0..Len(wire) : wire' = SubSeq(wire, 1, k)
    BY <1>7 DEF Break
  <2>3. /\ wire' \in Seq(FrameType) /\ Len(wire') = k
        /\ \A j \in 1..k : wire'[j] = wire[j]
    BY <1>0, <2>2, SubSeqProperties
  <2>4. w'.pc = "failed"
    BY <2>1, Basics DEF WriterType
  <2> QED BY <1>0, <2>1, <2>3, <2>4, FailInv
<1> QED BY <1>3, <1>4, <1>5, <1>6, <1>7

\* The write deadline: the cut frame is where the writer was.
LEMMA WriteTimeoutInv == ASSUME Inv, WriteTimeout PROVE Inv'
<1> DEFINE f == Frame(w.pc, PacketLen(w.remaining), 0, FALSE)
<1>0. /\ w \in WriterType /\ sent \in Seq(Message) /\ whole \in Nat /\ Len(sent) \in Nat
      /\ faults \in 0..MaxFaults /\ MaxFaults \in Nat
  BY Basics, Zero
<1>1. /\ w.pc \in {"size", "data"} /\ w' = [w EXCEPT !.pc = "failed"] /\ wire' = Append(wire, f)
      /\ sent' = sent /\ whole' = whole /\ r' = r /\ got' = got
      /\ faults' \in 0..MaxFaults /\ faults' >= faults /\ faults' > 0
  BY <1>0 DEF WriteTimeout, WriteFailed, reader, Fault
<1>2. w.remaining \in Nat /\ w.cur \in Nat /\ w.part \in Parts /\ Len(sent) > 0
  BY <1>0, <1>1, Zero DEF Inv, WriterInv, WriterType
<1>3. PacketLen(w.remaining) \in Nat
  BY <1>2, StreamAssumption DEF PacketLen
<1>4. /\ f \in FrameType /\ f.id = Len(sent) /\ f.code = w.pc /\ f.part = w.part /\ f.from = w.cur
      /\ f.ok = FALSE
  BY <1>0, <1>1, <1>2, <1>3 DEF Frame, FrameType
<1> HIDE DEF f
<1>5. At(f) = WriterPos(w, Len(sent))
  BY <1>1, <1>4 DEF At, WriterPos
<1>6. w' \in WriterType /\ w'.pc = "failed"
  BY <1>0, <1>1 DEF WriterType
<1>7. WriterInv'
  BY <1>1, <1>6 DEF Inv, WriterInv
<1> QED BY <1>1, <1>2, <1>4, <1>5, <1>6, <1>7, WriteFrame

\* Node.sendMsg: nothing that is said of earlier messages changes.
LEMMA SendInv ==
    ASSUME Inv, NEW typ \in MsgTypes, NEW n \in Lens, sendMsg(typ, n)
    PROVE  Inv' /\ whole' = whole /\ got' = got /\ sent' \in Seq(Message)
           /\ \A i \in 1..Len(sent) : sent'[i] = sent[i]
<1> DEFINE m == [id |-> Len(sent) + 1, typ |-> typ, len |-> n]
<1>0. /\ wire \in Seq(FrameType) /\ w \in WriterType /\ r \in ReaderType /\ Len(wire) \in Nat
      /\ sent \in Seq(Message) /\ got \in Seq(GotType) /\ whole \in Nat /\ Len(sent) \in Nat
      /\ Len(got) \in Nat /\ MaxMsgs \in Nat
  BY Basics, StreamAssumption
<1>1. /\ w.pc = "idle" /\ Len(sent) < MaxMsgs /\ sent' = Append(sent, m)
      /\ w' = [pc |-> "size", part |-> "header", cur |-> 0, remaining |-> 0]
      /\ whole' = whole /\ wire' = wire /\ r' = r /\ got' = got /\ faults' = faults
  BY DEF sendMsg, reader
<1>2. m \in Message /\ m.id = Len(sent) + 1
  BY <1>0, <1>1 DEF Message
<1> HIDE DEF m
<1>3. /\ sent' \in Seq(Message) /\ Len(sent') = Len(sent) + 1 /\ sent'[Len(sent) + 1] = m
      /\ \A i \in 1..Len(sent) : sent'[i] = sent[i]
      /\ \A i \in 1..Len(sent') : i \in 1..Len(sent) \/ i = Len(sent) + 1
  BY <1>0, <1>1, <1>2, AppendFact
<1>4. \A i \in 1..Len(sent) : \A part : LengthIn(sent', i, part) = LengthIn(sent, i, part)
  BY <1>3 DEF LengthIn
<1>5. TypeOK'
  <2>1. w' \in WriterType
    BY <1>1, Zero DEF WriterType, Parts
  <2> QED BY <1>1, <1>3, <2>1 DEF Inv, TypeOK
<1>6. SentInv'
  BY <1>2, <1>3 DEF Inv, SentInv
<1>7. WriterInv'
  BY <1>0, <1>1, <1>3 DEF Inv, WriterInv
<1>8. ReaderInv'
  <2>1. r.pc = "data" => r.id \in 1..Len(sent)
    BY <1>0 DEF Inv, ReaderInv
  <2>2. r.pc # "failed" /\ r.part = "payload" => r.id \in 1..Len(sent)
    BY <1>0 DEF Inv, ReaderInv
  <2> QED BY <1>0, <1>1, <1>3, <1>4, <2>1, <2>2 DEF Inv, ReaderInv
<1>9. \A i \in 1..Len(wire) : /\ wire[i].id \in 1..Len(sent)
                              /\ LastOf(sent', wire[i]) = LastOf(sent, wire[i])
                              /\ After(sent', wire[i]) = After(sent, wire[i])
  <2> SUFFICES ASSUME NEW i \in 1..Len(wire)
               PROVE  /\ wire[i].id \in 1..Len(sent)
                      /\ LastOf(sent', wire[i]) = LastOf(sent, wire[i])
                      /\ After(sent', wire[i]) = After(sent, wire[i])
    OBVIOUS
  <2>1. wire[i].id \in 1..Len(sent)
    BY DEF Inv, FramesInv
  <2>2. LastOf(sent', wire[i]) = LastOf(sent, wire[i])
    BY <1>4, <2>1 DEF LastOf
  <2> QED BY <2>1, <2>2 DEF After
<1>10. FramesInv'
  <2> SUFFICES ASSUME NEW i \in 1..Len(wire)
               PROVE  /\ wire[i].id \in 1..Len(sent')
                      /\ wire[i].ok => FrameOK(sent', whole, wire[i])
    BY <1>1 DEF FramesInv
  <2>1. wire[i].ok => FrameOK(sent, whole, wire[i])
    BY DEF Inv, FramesInv
  <2>2. wire[i].id \in 1..Len(sent')
    BY <1>0, <1>3, <1>9
  <2>3. FrameOK(sent, whole, wire[i]) => FrameOK(sent', whole, wire[i])
    BY <1>4, <1>9 DEF FrameOK
  <2> QED BY <2>1, <2>2, <2>3
<1>11. ChainInv'
  <2>1. WriterPos(w', Len(sent')) = WriterPos(w, Len(sent)) /\ w'.pc # "failed"
    BY <1>1, <1>3 DEF WriterPos
  <2>2. \A i \in 1..(Len(wire) - 1) : At(wire[i + 1]) = After(sent', wire[i])
    <3> SUFFICES ASSUME NEW i \in 1..(Len(wire) - 1) PROVE At(wire[i + 1]) = After(sent', wire[i])
      OBVIOUS
    <3>1. i \in 1..Len(wire) /\ At(wire[i + 1]) = After(sent, wire[i])
      BY <1>0 DEF Inv, ChainInv
    <3> QED BY <1>9, <3>1
  <2>3. Len(wire) > 0 => After(sent', wire[Len(wire)]) = After(sent, wire[Len(wire)])
    BY <1>0, <1>9
  <2> QED BY <1>1, <2>1, <2>2, <2>3 DEF Inv, ChainInv
<1>12. FaultInv'
  BY <1>1 DEF Inv, FaultInv
<1> QED BY <1>1, <1>3, <1>5, <1>6, <1>7, <1>8, <1>10, <1>11, <1>12 DEF Inv

-----------------------------------------------------------------------------
\* What a step does to the channel: nothing, a message is sent to its end or received.
LEMMA StepInv ==
    ASSUME Inv, [Next]_vars
    PROVE  /\ Inv'
           /\ \/ sent' = sent /\ whole' = whole /\ got' = got
              \/ sent' = sent /\ whole' = Len(sent) /\ whole + 1 = Len(sent) /\ got' = got
              \/ /\ sent' \in Seq(Message) /\ whole' = whole /\ got' = got
                 /\ \A i \in 1..Len(sent) : sent'[i] = sent[i]
              \/ sent' = sent /\ whole' = whole /\ got' = Append(got, sent[Len(got) + 1])
<1>1. CASE \E typ \in MsgTypes, n \in Lens : sendMsg(typ, n)
  BY <1>1, SendInv
<1>2. ASSUME writeSize \/ writeData
      PROVE  sent' = sent /\ got' = got /\ (whole' = whole \/ (whole' = Len(sent) /\ whole + 1 = Len(sent)))
  <2>1. w.pc \in {"size", "data"} /\ sent' = sent /\ got' = got /\ whole' \in {whole, Len(sent)}
    BY <1>2 DEF writeSize, writeData, NextPart, reader
  <2> QED BY <2>1 DEF Inv, WriterInv
<1>3. CASE writeSize
  BY <1>2, <1>3, WriteSizeInv
<1>4. CASE writeData
  BY <1>2, <1>4, WriteDataInv
<1>5. CASE WriteTimeout
  BY <1>5, WriteTimeoutInv DEF WriteTimeout, reader
<1>6. CASE readSize
  BY <1>6, ReadSizeInv DEF Receives, readSize, writer
<1>7. CASE readData
  BY <1>7, ReadDataInv DEF Receives, readData, writer
<1>8. CASE ShortSource \/ ReadTimeout \/ ReadDeadline \/ Damage \/ Break
  BY <1>8, FaultsInv
<1>9. CASE UNCHANGED vars
  <2>1. sent' = sent /\ whole' = whole /\ w' = w /\ wire' = wire /\ r' = r /\ got' = got /\ faults' = faults
    BY <1>9 DEF vars
  <2>2. TypeOK' /\ SentInv' /\ WriterInv' /\ ReaderInv'
    BY <2>1 DEF Inv, TypeOK, SentInv, WriterInv, ReaderInv
  <2>3. FramesInv' /\ ChainInv' /\ FaultInv'
    BY <2>1 DEF Inv, FramesInv, ChainInv, FaultInv
  <2> QED BY <2>1, <2>2, <2>3 DEF Inv
<1> QED BY <1>1, <1>3, <1>4, <1>5, <1>6, <1>7, <1>8, <1>9 DEF Next, Writes, Reads, Read

\* The reader's position, the frames on their way and the writer's position form
\* one chain in every reachable state.
THEOREM InvHolds == Spec => []Inv
<1>1. Inv /\ [Next]_vars => Inv'
  BY StepInv
<1> QED BY InitInv, <1>1, PTL DEF Spec

\* The types of the stream's variables.
THEOREM TypesHold == Spec => []TypeOK
<1>1. Inv => TypeOK
  BY DEF Inv
<1> QED BY InvHolds, <1>1, PTL

\* The count of the bytes that are left, from the invariant.
LEMMA InvNoWrap == Inv => NoWrap
<1> SUFFICES ASSUME Inv, r.pc = "data" PROVE r.remaining + r.cur = Length(r.id, r.part)
  BY DEF NoWrap
<1>1. r \in ReaderType /\ sent \in Seq(Message) /\ Len(sent) \in Nat /\ Len(got) \in Nat
  BY Basics
<1>2. r.part \in Parts /\ r.cur \in Nat /\ r.remaining \in 0..(Word - 1)
  BY <1>1 DEF ReaderType
<1>3. /\ r.id = Len(got) + 1 /\ r.id <= Len(sent)
      /\ r.cur + r.remaining = LengthIn(sent, r.id, r.part)
  BY DEF Inv, ReaderInv
<1>4. r.id \in 1..Len(sent)
  BY <1>1, <1>3
<1> QED BY <1>1, <1>2, <1>3, <1>4, LengthType, Zero

\* The unsigned count of the bytes that are left never wraps around in readData, for
\* every packet size, word size and length of a message.
THEOREM CountNeverWraps == Spec => []NoWrap
BY InvHolds, InvNoWrap, PTL

\* sendMsg and the receiving functions fail only if something below them did.
THEOREM FailuresHaveFaults == Spec => []NoSpuriousFailure
<1>1. Inv => NoSpuriousFailure
  BY DEF Inv, FaultInv, NoSpuriousFailure
<1> QED BY InvHolds, <1>1, PTL

\* No message was sent, and none received.
LEMMA ChannelInit == Init => Channel!Init
<1> SUFFICES ASSUME Init PROVE Whole = << >> /\ got = << >>
  BY DEF Channel!Init
<1>1. whole = 0 /\ got = << >>
  BY DEF Init
<1> QED BY <1>1, SubSeqEmpty DEF Whole

\* What a step does to the messages is a step of the channel.
LEMMA ChannelStep ==
    ASSUME Inv, Inv',
           \/ sent' = sent /\ whole' = whole /\ got' = got
           \/ sent' = sent /\ whole' = Len(sent) /\ whole + 1 = Len(sent) /\ got' = got
           \/ /\ sent' \in Seq(Message) /\ whole' = whole /\ got' = got
              /\ \A i \in 1..Len(sent) : sent'[i] = sent[i]
           \/ sent' = sent /\ whole' = whole /\ got' = Append(got, sent[Len(got) + 1])
    PROVE  [Channel!Next]_Channel!chan
<1> SUFFICES Channel!Next \/ (Whole' = Whole /\ got' = got)
  BY DEF Channel!chan
<1>0. /\ sent \in Seq(Message) /\ whole \in Nat /\ whole <= Len(sent) /\ Len(sent) \in Nat
      /\ Len(got) \in Nat /\ Len(got) <= whole
  BY Basics DEF Inv, WriterInv, ReaderInv
<1>1. \A i \in 1..whole : sent[i] \in Message
  BY <1>0, ElementOfSeq
<1>2. Whole \in Seq(Message) /\ Len(Whole) = whole /\ \A i \in 1..whole : Whole[i] = sent[i]
  BY <1>0, <1>1, SubSeqProperties DEF Whole
<1>3. CASE sent' = sent /\ whole' = whole /\ got' = got
  BY <1>3 DEF Whole
<1>4. CASE sent' = sent /\ whole' = Len(sent) /\ whole + 1 = Len(sent) /\ got' = got
  <2>1. Whole' = SubSeq(sent, 1, whole + 1) /\ sent[whole + 1] \in Message
    BY <1>0, <1>4, ElementOfSeq DEF Whole
  <2>2. \A i \in 1..(whole + 1) : sent[i] \in Message
    BY <1>0, <1>4, ElementOfSeq
  <2>3. /\ Whole' \in Seq(Message) /\ Len(Whole') = whole + 1
        /\ \A i \in 1..(whole + 1) : Whole'[i] = sent[i]
    BY <1>0, <2>1, <2>2, SubSeqProperties
  <2>4. DEFINE p == Append(Whole, sent[whole + 1])
  <2>5. /\ p \in Seq(Message) /\ Len(p) = whole + 1 /\ p[whole + 1] = sent[whole + 1]
        /\ \A i \in 1..whole : p[i] = Whole[i]
        /\ \A i \in 1..(whole + 1) : i \in 1..whole \/ i = whole + 1
    BY <1>0, <1>2, <2>1, AppendFact
  <2>6. Whole' = p
    <3> HIDE DEF p
    <3>1. \A i \in 1..(whole + 1) : Whole'[i] = p[i]
      BY <1>2, <2>3, <2>5
    <3> QED BY <2>3, <2>5, <3>1, SeqEqual
  <2> QED BY <1>4, <2>1, <2>6 DEF Channel!Next, Channel!Send
<1>5. CASE /\ sent' \in Seq(Message) /\ whole' = whole /\ got' = got
           /\ \A i \in 1..Len(sent) : sent'[i] = sent[i]
  <2>1. \A i \in 1..whole : sent'[i] = sent[i] /\ sent'[i] \in Message
    BY <1>0, <1>1, <1>5
  <2>2. Whole' \in Seq(Message) /\ Len(Whole') = whole /\ \A i \in 1..whole : Whole'[i] = sent'[i]
    BY <1>0, <1>5, <2>1, SubSeqProperties DEF Whole
  <2>3. Whole' = Whole
    BY <1>2, <2>1, <2>2, SeqEqual
  <2> QED BY <1>5, <2>3
<1>6. CASE sent' = sent /\ whole' = whole /\ got' = Append(got, sent[Len(got) + 1])
  <2>2. Len(got') <= whole /\ got \in Seq(GotType) /\ got' \in Seq(GotType)
    BY <1>6, Basics DEF Inv, ReaderInv, TypeOK, GotType
  <2>3. Len(got') = Len(got) + 1
    BY <1>6, <2>2
  <2>4. Len(got) < whole /\ Whole[Len(got) + 1] = sent[Len(got) + 1] /\ Whole' = Whole
    BY <1>0, <1>2, <1>6, <2>2, <2>3 DEF Whole
  <2> QED BY <1>2, <1>6, <2>4 DEF Channel!Next, Channel!Receive
<1> QED BY <1>3, <1>4, <1>5, <1>6

\* The stream implements the channel of net/node.go: a received message is the next one
\* that was written to its end, whole, whatever its packets and wherever the connection fails.
THEOREM StreamIsChannel == Spec => IsChannel
<1>1. Inv /\ [Next]_vars => [Channel!Next]_Channel!chan
  BY StepInv, ChannelStep
<1> QED BY <1>1, ChannelInit, InvHolds, PTL DEF Spec, IsChannel, Channel!Spec

-----------------------------------------------------------------------------
(***************************************************************************)
(* The handshake.  Its messages and what the ends learn are determined by  *)
(* the keys of the ends and by the padding of the two packets.             *)
(***************************************************************************)
RD == <<Conn, "dial">>
RL == <<Conn, "listen">>
Nobody == Handshake!Nobody
Nothing == Handshake!Nothing
NoSecrets == Handshake!NoSecrets

\* The messages: a damaged request asks for the signature of another value, another
\* damaged message has rev 0.
Request(x) == [rev |-> 1, typ |-> 0, size |-> 1024, random |-> x]
AckMsg(K, x, v) ==
    [rev |-> v, typ |-> 1, size |-> 130, sig |-> [by |-> K.listen, of |-> x], pub |-> K.listen]
AuthMsg(K, p, v) ==
    [rev |-> v, kind |-> "auth", to |-> K.listen, size |-> 169 + p + 113,
     body |-> [sig |-> [by |-> RD, of |-> <<{K.dial, K.listen}, RD>>], pub |-> K.dial, nonce |-> RD]]
RespMsg(K, q, v) ==
    [rev |-> v, kind |-> "resp", to |-> K.dial, size |-> 102 + q + 113,
     body |-> [rand |-> RL, nonce |-> RL]]

\* What the ends know when both are done.
Aes == <<{RD, RL}, RL, RD>>
Mac1(K, p) == <<Aes, RL, AuthMsg(K, p, 1)>>
Mac2(K, q) == <<Aes, RD, RespMsg(K, q, 1)>>
DialSec(K, p, q) == [aes |-> Aes, egress |-> Mac1(K, p), ingress |-> Mac2(K, q)]
ListenSec(K, p, q) == [aes |-> Aes, egress |-> Mac2(K, q), ingress |-> Mac1(K, p)]
DialKnows(K, nonces, auth, sec) ==
    [random |-> Nobody, remote |-> K.listen, remoteRand |-> Nobody, nonces |-> nonces,
     auth |-> auth, sec |-> sec]
ListenKnows(K, sec) ==
    [random |-> Nobody, remote |-> K.dial, remoteRand |-> Nobody, nonces |-> << >>,
     auth |-> << >>, sec |-> sec]
Asked(K, p) == DialKnows(K, <<RD>>, <<AuthMsg(K, p, 1)>>, NoSecrets)
Agreed(K, p, q) == DialKnows(K, <<RD>>, <<AuthMsg(K, p, 1)>>, DialSec(K, p, q))

\* What the two ends know and the messages on their way, for every pair of steps they
\* can be at: D and L are the steps, WL and WD the messages on their way to the
\* listening and to the dialling end, kd and kl what they know, and n the faults.
HandOK(K, D, L, WL, WD, kd, kl, n) ==
    /\ D \in {"sendRequest", "recvAck", "sendAuth", "recvResp", "done", "failed"}
    /\ L \in {"recvRequest", "recvAuth", "done", "failed"}
    /\ D = "failed" \/ L = "failed" => n > 0 \/ K.listen # K.want
    /\ L = "recvRequest" =>
          /\ D \in {"sendRequest", "recvAck", "failed"} /\ WD = << >>
          /\ D = "recvAck" => WL # << >>
          /\ WL # << >> => \E x \in {RD, Nobody} : WL = <<Request(x)>> /\ (x = RD \/ n > 0)
    /\ D = "sendRequest" =>
          WL = << >> /\ WD = << >> /\ L \in {"recvRequest", "failed"} /\ kd = Nothing
    /\ D = "recvAck" =>
          /\ kd = Nothing /\ L \in {"recvRequest", "recvAuth", "failed"}
          /\ L = "recvAuth" => WL = << >> /\ WD # << >>
          /\ WD # << >> => \E x \in {RD, Nobody}, v \in {0, 1} :
                              WD = <<AckMsg(K, x, v)>> /\ (n > 0 \/ (x = RD /\ v = 1))
    /\ D = "sendAuth" =>
          /\ kd = DialKnows(K, << >>, << >>, NoSecrets) /\ K.listen = K.want
          /\ L \in {"recvAuth", "failed"} /\ WD = << >>
          /\ L = "recvAuth" => WL = << >>
    /\ D = "recvResp" =>
          /\ K.listen = K.want /\ \E p \in Pads : kd = Asked(K, p)
          /\ L \in {"recvAuth", "done", "failed"}
          /\ L # "done" => WD = << >>
          /\ L = "recvAuth" => WL # << >>
    /\ L = "recvAuth" /\ WL # << >> =>
          /\ K.listen = K.want
          /\ \E p \in Pads, v \in {0, 1} :
                kd = Asked(K, p) /\ WL = <<AuthMsg(K, p, v)>> /\ (n > 0 \/ v = 1)
    /\ L # "done" => kl = Nothing
    /\ L = "done" =>
          /\ D \in {"recvResp", "done", "failed"} /\ K.listen = K.want
          /\ \E p \in Pads, q \in Pads :
                /\ kl = ListenKnows(K, ListenSec(K, p, q))
                /\ D # "done" => kd = Asked(K, p)
                /\ D = "recvResp" => \E v \in {0, 1} : WD = <<RespMsg(K, q, v)>> /\ (n > 0 \/ v = 1)
                /\ D = "done" => kd = Agreed(K, p, q)
    /\ D = "done" => L = "done"

\* A function of the ends of the one connection.
PerEnd(f) == DOMAIN f = {Conn} /\ DOMAIN f[Conn] = {"dial", "listen"}

HandInv ==
    /\ key \in [{Conn} -> [dial : Keys, listen : Keys, want : Keys]]
    /\ PerEnd(pc) /\ PerEnd(known) /\ PerEnd(hwire)
    /\ HandOK(key[Conn], pc[Conn]["dial"], pc[Conn]["listen"], hwire[Conn]["listen"],
              hwire[Conn]["dial"], known[Conn]["dial"], known[Conn]["listen"], faults)

\* Nothing is sent, and no header read, before the buyer's handshake is done.
HeardInv == sent # << >> \/ r.part = "payload" => BuyerReady

ConnInv == Inv /\ HandInv /\ HeardInv

-----------------------------------------------------------------------------
\* The parts of HandInv.
LEMMA HandParts ==
    ASSUME HandInv
    PROVE  /\ PerEnd(pc) /\ PerEnd(known) /\ PerEnd(hwire)
           /\ HandOK(key[Conn], pc[Conn]["dial"], pc[Conn]["listen"], hwire[Conn]["listen"],
                     hwire[Conn]["dial"], known[Conn]["dial"], known[Conn]["listen"], faults)
BY DEF HandInv

\* A wire of one message.
LEMMA OneMessage ==
    ASSUME NEW m
    PROVE  /\ <<m>> # << >> /\ Head(<<m>>) = m /\ Tail(<<m>>) = << >> /\ <<m>>[1] = m
           /\ Append(<< >>, m) = <<m>>
OBVIOUS

-----------------------------------------------------------------------------
(***************************************************************************)
(* What each step of the handshake does to HandOK, on the values alone.    *)
(***************************************************************************)
\* sendPreAuthRequest
LEMMA AfterRequest ==
    ASSUME NEW K, NEW D, NEW L, NEW WL, NEW WD, NEW kd, NEW kl, NEW n,
           HandOK(K, D, L, WL, WD, kd, kl, n), D = "sendRequest"
    PROVE  HandOK(K, "recvAck", L, <<Request(RD)>>, WD, kd, kl, n)
BY OneMessage DEF HandOK

\* receiverPreAuthHandshake
LEMMA AfterAck ==
    ASSUME NEW K, NEW D, NEW L, NEW WL, NEW WD, NEW kd, NEW kl, NEW n, NEW x \in {RD, Nobody},
           HandOK(K, D, L, WL, WD, kd, kl, n), L = "recvRequest", WL = <<Request(x)>>, x = RD \/ n > 0
    PROVE  HandOK(K, D, "recvAuth", << >>, <<AckMsg(K, x, 1)>>, kd, kl, n)
BY OneMessage DEF HandOK

\* recvPreAuthAck
LEMMA AfterCheck ==
    ASSUME NEW K, NEW D, NEW L, NEW WL, NEW WD, NEW kd, NEW kl, NEW n,
           HandOK(K, D, L, WL, WD, kd, kl, n), D = "recvAck", WD # << >>, K.listen = K.want
    PROVE  HandOK(K, "sendAuth", L, WL, << >>, DialKnows(K, << >>, << >>, NoSecrets), kl, n)
BY DEF HandOK

\* makeAuthMsg
LEMMA AfterAuth ==
    ASSUME NEW K, NEW D, NEW L, NEW WL, NEW WD, NEW kd, NEW kl, NEW n, NEW p \in Pads, NEW WL2,
           HandOK(K, D, L, WL, WD, kd, kl, n), D = "sendAuth",
           L = "recvAuth" => WL2 = <<AuthMsg(K, p, 1)>>
    PROVE  HandOK(K, "recvResp", L, WL2, WD, Asked(K, p), kl, n)
BY OneMessage DEF HandOK

\* receiverEncHandshake
LEMMA AfterResp ==
    ASSUME NEW K, NEW D, NEW L, NEW WL, NEW WD, NEW kd, NEW kl, NEW n, NEW p \in Pads, NEW q \in Pads,
           NEW WD2, HandOK(K, D, L, WL, WD, kd, kl, n), L = "recvAuth", WL # << >>,
           K.listen = K.want, kd = Asked(K, p),
           D = "recvResp" => WD2 = <<RespMsg(K, q, 1)>>
    PROVE  HandOK(K, D, "done", << >>, WD2, kd, ListenKnows(K, ListenSec(K, p, q)), n)
BY OneMessage DEF HandOK

\* handleAuthResp
LEMMA AfterDone ==
    ASSUME NEW K, NEW D, NEW L, NEW WL, NEW WD, NEW kd, NEW kl, NEW n, NEW p \in Pads, NEW q \in Pads,
           HandOK(K, D, L, WL, WD, kd, kl, n), D = "recvResp", L = "done",
           kl = ListenKnows(K, ListenSec(K, p, q))
    PROVE  HandOK(K, "done", L, WL, << >>, Agreed(K, p, q), kl, n)
BY DEF HandOK

\* An end fails, with a fault or because the other node is not the one dialled.
LEMMA AfterFailure ==
    ASSUME NEW K, NEW D, NEW L, NEW WL, NEW WD, NEW kd, NEW kl, NEW n \in Nat, NEW n2 \in Nat,
           HandOK(K, D, L, WL, WD, kd, kl, n), n2 >= n, n2 > 0 \/ K.listen # K.want
    PROVE  /\ D # "done" => HandOK(K, "failed", L, WL, WD, kd, kl, n2)
           /\ L # "done" => HandOK(K, D, "failed", WL, WD, kd, kl, n2)
<1>1. n > 0 => n2 > 0
  OBVIOUS
<1>2. ASSUME D # "done" PROVE HandOK(K, "failed", L, WL, WD, kd, kl, n2)
  BY <1>1, <1>2 DEF HandOK
<1>3. ASSUME L # "done" PROVE HandOK(K, D, "failed", WL, WD, kd, kl, n2)
  BY <1>1, <1>3 DEF HandOK
<1> QED BY <1>2, <1>3

\* A fault of the stream.
LEMMA AfterFault ==
    ASSUME NEW K, NEW D, NEW L, NEW WL, NEW WD, NEW kd, NEW kl, NEW n \in Nat, NEW n2 \in Nat,
           HandOK(K, D, L, WL, WD, kd, kl, n), n2 >= n
    PROVE  HandOK(K, D, L, WL, WD, kd, kl, n2)
<1>1. n > 0 => n2 > 0
  OBVIOUS
<1> QED BY <1>1 DEF HandOK

\* A message to the listening end is damaged.
LEMMA AfterDamageToListen ==
    ASSUME NEW K, NEW D, NEW L, NEW WL, NEW WD, NEW kd, NEW kl, NEW n \in Nat, NEW n2 \in Nat, NEW WL2,
           HandOK(K, D, L, WL, WD, kd, kl, n), n2 > 0, WL # << >>,
           \A x : WL = <<Request(x)>> => WL2 = <<Request(Nobody)>>,
           \A p, v : WL = <<AuthMsg(K, p, v)>> => WL2 = <<AuthMsg(K, p, 0)>>
    PROVE  HandOK(K, D, L, WL2, WD, kd, kl, n2)
<1>1. L = "recvRequest" => WL2 = <<Request(Nobody)>> /\ WL2 # << >>
  BY OneMessage DEF HandOK
<1>2. ASSUME L = "recvAuth"
      PROVE  /\ WL2 # << >> /\ K.listen = K.want
             /\ \E p \in Pads, v \in {0, 1} : kd = Asked(K, p) /\ WL2 = <<AuthMsg(K, p, v)>>
  <2>1. PICK p \in Pads, v \in {0, 1} : kd = Asked(K, p) /\ WL = <<AuthMsg(K, p, v)>>
    BY <1>2 DEF HandOK
  <2>2. WL2 = <<AuthMsg(K, p, 0)>> /\ 0 \in {0, 1} /\ WL2 # << >>
    BY <2>1, OneMessage
  <2> QED BY <1>2, <2>1, <2>2 DEF HandOK
<1> QED BY <1>1, <1>2 DEF HandOK

\* A message to the dialling end is damaged.
LEMMA AfterDamageToDial ==
    ASSUME NEW K, NEW D, NEW L, NEW WL, NEW WD, NEW kd, NEW kl, NEW n \in Nat, NEW n2 \in Nat, NEW WD2,
           HandOK(K, D, L, WL, WD, kd, kl, n), n2 > 0, WD # << >>,
           \A x, v : WD = <<AckMsg(K, x, v)>> => WD2 = <<AckMsg(K, x, 0)>>,
           \A q, v : WD = <<RespMsg(K, q, v)>> => WD2 = <<RespMsg(K, q, 0)>>
    PROVE  HandOK(K, D, L, WL, WD2, kd, kl, n2)
<1>1. ASSUME D = "recvAck"
      PROVE  WD2 # << >> /\ \E x \in {RD, Nobody}, v \in {0, 1} : WD2 = <<AckMsg(K, x, v)>>
  <2>1. PICK x \in {RD, Nobody}, v \in {0, 1} : WD = <<AckMsg(K, x, v)>>
    BY <1>1 DEF HandOK
  <2> QED BY <2>1, OneMessage
<1>2. ASSUME L = "done"
      PROVE  \E p \in Pads, q \in Pads :
                /\ kl = ListenKnows(K, ListenSec(K, p, q))
                /\ D # "done" => kd = Asked(K, p)
                /\ D = "recvResp" => \E v \in {0, 1} : WD2 = <<RespMsg(K, q, v)>>
                /\ D = "done" => kd = Agreed(K, p, q)
  <2>1. PICK p \in Pads, q \in Pads :
                /\ kl = ListenKnows(K, ListenSec(K, p, q))
                /\ D # "done" => kd = Asked(K, p)
                /\ D = "recvResp" => \E v \in {0, 1} : WD = <<RespMsg(K, q, v)>> /\ (n > 0 \/ v = 1)
                /\ D = "done" => kd = Agreed(K, p, q)
    BY <1>2 DEF HandOK
  <2> QED BY <2>1
<1> QED BY <1>1, <1>2 DEF HandOK

-----------------------------------------------------------------------------
(***************************************************************************)
(* The steps of the handshake.                                             *)
(***************************************************************************)
\* sendPreAuthRequest keeps the invariant: the request is the first message.
LEMMA RequestStep == ASSUME HandInv, Handshake!sendPreAuthRequest(Conn) PROVE HandInv'
<1>1. /\ pc[Conn]["dial"] = "sendRequest" /\ pc' = [pc EXCEPT ![Conn]["dial"] = "recvAck"]
      /\ hwire' = [hwire EXCEPT ![Conn]["listen"] = Append(hwire[Conn]["listen"], Request(RD))]
      /\ key' = key /\ known' = known /\ faults' = faults
  BY DEF Handshake!sendPreAuthRequest, Handshake!Put, Handshake!Goto, Handshake!Peer,
         Handshake!Random, Handshake!preAuthReqSize, Request, RD
<1>2. hwire[Conn]["listen"] = << >>
  BY <1>1 DEF HandInv, HandOK
<1>3. hwire' = [hwire EXCEPT ![Conn]["listen"] = <<Request(RD)>>]
  BY <1>1, <1>2, OneMessage
<1>4. PerEnd(pc') /\ pc'[Conn]["dial"] = "recvAck" /\ pc'[Conn]["listen"] = pc[Conn]["listen"]
  BY <1>1, HandParts DEF PerEnd
<1>5. /\ PerEnd(hwire') /\ hwire'[Conn]["listen"] = <<Request(RD)>>
      /\ hwire'[Conn]["dial"] = hwire[Conn]["dial"]
  BY <1>3, HandParts DEF PerEnd
<1>6. HandOK(key[Conn], "recvAck", pc[Conn]["listen"], <<Request(RD)>>, hwire[Conn]["dial"],
             known[Conn]["dial"], known[Conn]["listen"], faults)
  BY <1>1, HandParts, AfterRequest
<1> QED BY <1>1, <1>4, <1>5, <1>6 DEF HandInv

\* receiverPreAuthHandshake: the listening end signs what it was asked, whatever that is.
LEMMA AckStep == ASSUME HandInv, Handshake!receiverPreAuthHandshake(Conn) PROVE HandInv'
<1> DEFINE K == key[Conn]
<1>1. /\ pc[Conn]["listen"] = "recvRequest" /\ hwire[Conn]["listen"] # << >>
      /\ key' = key /\ faults' = faults
  BY DEF Handshake!receiverPreAuthHandshake
<1>2. PICK x \in {RD, Nobody} : hwire[Conn]["listen"] = <<Request(x)>> /\ (x = RD \/ faults > 0)
  BY <1>1 DEF HandInv, HandOK
<1>3. Handshake!Next1(Conn, "listen") = Request(x) /\ Tail(hwire[Conn]["listen"]) = << >>
  BY <1>2, OneMessage DEF Handshake!Next1
<1>4. Handshake!Decodes(Request(x), Handshake!preAuthReqSize)
  BY DEF Handshake!Decodes, Handshake!preAuthReqSize, Request
<1>5. [rev |-> 1, typ |-> 1, size |-> Handshake!preAuthAckSize,
       sig |-> Handshake!Sign(key[Conn].listen, Request(x).random), pub |-> key[Conn].listen] = AckMsg(K, x, 1)
  BY DEF Handshake!Sign, Handshake!preAuthAckSize, AckMsg, Request
<1>6. /\ pc' = [pc EXCEPT ![Conn]["listen"] = "recvAuth"] /\ known' = known
      /\ Handshake!TakeAndPut(Conn, "listen", AckMsg(K, x, 1))
  BY <1>3, <1>4, <1>5 DEF Handshake!receiverPreAuthHandshake, Handshake!Goto
<1>7. hwire[Conn]["dial"] = << >>
  BY <1>1 DEF HandInv, HandOK
<1>8. /\ PerEnd(hwire') /\ hwire'[Conn]["listen"] = << >>
      /\ hwire'[Conn]["dial"] = <<AckMsg(K, x, 1)>>
  <2>1. /\ PerEnd(hwire') /\ hwire'[Conn]["listen"] = Tail(hwire[Conn]["listen"])
        /\ hwire'[Conn]["dial"] = Append(hwire[Conn]["dial"], AckMsg(K, x, 1))
    BY <1>6, HandParts DEF PerEnd, Handshake!TakeAndPut, Handshake!Peer
  <2> QED BY <2>1, <1>3, <1>7, OneMessage
<1>9. PerEnd(pc') /\ pc'[Conn]["listen"] = "recvAuth" /\ pc'[Conn]["dial"] = pc[Conn]["dial"]
  BY <1>6, HandParts DEF PerEnd
<1>10. HandOK(K, pc[Conn]["dial"], "recvAuth", << >>, <<AckMsg(K, x, 1)>>,
              known[Conn]["dial"], known[Conn]["listen"], faults)
  BY <1>1, <1>2, HandParts, AfterAck
<1> QED BY <1>1, <1>6, <1>8, <1>9, <1>10 DEF HandInv

\* An end fails.
LEMMA FailStep ==
    ASSUME HandInv, faults \in Nat, faults' \in Nat, faults' >= faults, key' = key,
           NEW s \in {"dial", "listen"}, pc[Conn][s] # "done", Handshake!Fail(Conn, s),
           faults' > 0 \/ key[Conn].listen # key[Conn].want
    PROVE  HandInv'
<1>1. pc' = [pc EXCEPT ![Conn][s] = "failed"] /\ known' = known /\ hwire' = hwire
  BY DEF Handshake!Fail, Handshake!Goto
<1>2. /\ PerEnd(pc') /\ pc'[Conn][s] = "failed"
      /\ \A t \in {"dial", "listen"} : t # s => pc'[Conn][t] = pc[Conn][t]
  BY <1>1, HandParts DEF PerEnd
<1>3. CASE s = "dial"
  <2>1. HandOK(key[Conn], "failed", pc[Conn]["listen"], hwire[Conn]["listen"], hwire[Conn]["dial"],
               known[Conn]["dial"], known[Conn]["listen"], faults')
    BY <1>3, HandParts, AfterFailure
  <2> QED BY <1>1, <1>2, <1>3, <2>1 DEF HandInv
<1>4. CASE s = "listen"
  <2>1. HandOK(key[Conn], pc[Conn]["dial"], "failed", hwire[Conn]["listen"], hwire[Conn]["dial"],
               known[Conn]["dial"], known[Conn]["listen"], faults')
    BY <1>4, HandParts, AfterFailure
  <2> QED BY <1>1, <1>2, <1>4, <2>1 DEF HandInv
<1> QED BY <1>3, <1>4

\* recvPreAuthAck: the dialling end goes on only with the node it dialled.
LEMMA CheckStep == ASSUME HandInv, faults \in Nat, Handshake!recvPreAuthAck(Conn) PROVE HandInv'
<1> DEFINE K == key[Conn]
<1> DEFINE kd == DialKnows(K, << >>, << >>, NoSecrets)
<1>1. /\ pc[Conn]["dial"] = "recvAck" /\ hwire[Conn]["dial"] # << >>
      /\ key' = key /\ faults' = faults
  BY DEF Handshake!recvPreAuthAck
<1>2. PICK x \in {RD, Nobody}, v \in {0, 1} :
          hwire[Conn]["dial"] = <<AckMsg(K, x, v)>> /\ (faults > 0 \/ (x = RD /\ v = 1))
  BY <1>1 DEF HandInv, HandOK
<1>3. /\ Handshake!Next1(Conn, "dial") = AckMsg(K, x, v) /\ Tail(hwire[Conn]["dial"]) = << >>
      /\ AckMsg(K, x, v).pub = K.listen
  BY <1>2, OneMessage DEF Handshake!Next1, AckMsg
<1> DEFINE fine == /\ Handshake!Decodes(AckMsg(K, x, v), Handshake!preAuthAckSize)
                   /\ Handshake!verifyPreAuthAck(Handshake!Random(Conn, "dial"), K.want, AckMsg(K, x, v))
<1>4. CASE fine
  <2>1. K.listen = K.want
    BY <1>4 DEF Handshake!verifyPreAuthAck, AckMsg
  <2>2. /\ pc' = [pc EXCEPT ![Conn]["dial"] = "sendAuth"]
        /\ hwire' = [hwire EXCEPT ![Conn]["dial"] = Tail(@)]
        /\ known' = [known EXCEPT ![Conn]["dial"].remote = K.listen]
    BY <1>3, <1>4 DEF Handshake!recvPreAuthAck, Handshake!Take, Handshake!Goto
  <2>3. known[Conn]["dial"] = Nothing
    BY <1>1 DEF HandInv, HandOK
  <2>4. [Nothing EXCEPT !.remote = K.listen] = kd
    BY DEF Nothing, Handshake!Nothing, DialKnows, NoSecrets, Nobody
  <2>5. PerEnd(pc') /\ pc'[Conn]["dial"] = "sendAuth" /\ pc'[Conn]["listen"] = pc[Conn]["listen"]
    BY <2>2, HandParts DEF PerEnd
  <2>6. PerEnd(hwire') /\ hwire'[Conn]["dial"] = << >> /\ hwire'[Conn]["listen"] = hwire[Conn]["listen"]
    BY <2>2, <1>3, HandParts DEF PerEnd
  <2>7. PerEnd(known') /\ known'[Conn]["dial"] = kd /\ known'[Conn]["listen"] = known[Conn]["listen"]
    BY <2>2, <2>3, <2>4, HandParts DEF PerEnd
  <2>8. HandOK(K, "sendAuth", pc[Conn]["listen"], hwire[Conn]["listen"], << >>, kd,
               known[Conn]["listen"], faults)
    BY <1>1, <2>1, HandParts, AfterCheck
  <2> QED BY <1>1, <2>5, <2>6, <2>7, <2>8 DEF HandInv
<1>5. CASE ~fine
  <2>1. Handshake!Fail(Conn, "dial")
    BY <1>3, <1>5 DEF Handshake!recvPreAuthAck
  <2>2. faults > 0 \/ K.listen # K.want
    <3> SUFFICES ASSUME faults = 0, K.listen = K.want PROVE fine
      BY <1>5
    <3>1. x = RD /\ v = 1
      BY <1>2
    <3>2. K.want = K.listen
      OBVIOUS
    <3> QED BY <3>1, <3>2 DEF Handshake!Decodes, Handshake!verifyPreAuthAck, Handshake!Recover,
                Handshake!preAuthAckSize, Handshake!Random, AckMsg, RD
  <2> QED BY <1>1, <2>1, <2>2, FailStep
<1> QED BY <1>4, <1>5

\* What was padded by sealEIP8 opens at the end it is for.
LEMMA SealedOpens ==
    ASSUME NEW K, NEW p \in Pads, NEW v \in {0, 1}
    PROVE  /\ Handshake!Opens(AuthMsg(K, p, v), "auth", K.listen) <=> v = 1
           /\ Handshake!Opens(RespMsg(K, p, v), "resp", K.dial) <=> v = 1
<1>1. p \in Nat /\ p >= 100
  BY PadAssumption
<1>2. 169 + p + 113 >= 307 /\ 102 + p + 113 >= 210
  BY <1>1
<1>3. Handshake!Opens(AuthMsg(K, p, v), "auth", K.listen) <=> v = 1
  BY <1>2 DEF Handshake!Opens, Handshake!PlainLen, AuthMsg
<1>4. Handshake!Opens(RespMsg(K, p, v), "resp", K.dial) <=> v = 1
  BY <1>2 DEF Handshake!Opens, Handshake!PlainLen, RespMsg
<1> QED BY <1>3, <1>4

\* makeAuthMsg: the packet is for the node that was dialled.
LEMMA AuthStep == ASSUME HandInv, Handshake!makeAuthMsg(Conn) PROVE HandInv'
<1> DEFINE K == key[Conn]
<1> DEFINE k0 == DialKnows(K, << >>, << >>, NoSecrets)
<1>1. /\ pc[Conn]["dial"] = "sendAuth" /\ key' = key /\ faults' = faults
      /\ pc' = [pc EXCEPT ![Conn]["dial"] = "recvResp"]
  BY DEF Handshake!makeAuthMsg, Handshake!Goto
<1>2. known[Conn]["dial"] = k0 /\ k0.remote = K.listen
  BY <1>1 DEF HandInv, HandOK, DialKnows
<1>3. PICK p \in Pads :
        LET remote == known[Conn]["dial"].remote
            nonce  == Handshake!Random(Conn, "dial")
            auth   == Handshake!sealEIP8("auth", remote,
                        [sig   |-> Handshake!Sign(Handshake!Random(Conn, "dial"),
                                        <<Handshake!staticSharedSecret(key[Conn].dial, remote), nonce>>),
                         pub   |-> key[Conn].dial,
                         nonce |-> nonce], p)
        IN  /\ Handshake!Put(Conn, "dial", auth)
            /\ known' = [known EXCEPT ![Conn]["dial"].nonces = <<nonce>>, ![Conn]["dial"].auth = <<auth>>]
  BY DEF Handshake!makeAuthMsg, Handshake!PadLens
<1>4. Handshake!sealEIP8("auth", K.listen,
            [sig   |-> Handshake!Sign(RD, <<Handshake!staticSharedSecret(K.dial, K.listen), RD>>),
             pub   |-> K.dial, nonce |-> RD], p) = AuthMsg(K, p, 1)
  BY DEF Handshake!sealEIP8, Handshake!Sign, Handshake!staticSharedSecret, Handshake!BodyLen,
         Handshake!eciesOverhead, AuthMsg
<1>5. /\ Handshake!Put(Conn, "dial", AuthMsg(K, p, 1))
      /\ known' = [known EXCEPT ![Conn]["dial"].nonces = <<RD>>, ![Conn]["dial"].auth = <<AuthMsg(K, p, 1)>>]
  BY <1>2, <1>3, <1>4 DEF Handshake!Random, RD
<1>6. [k0 EXCEPT !.nonces = <<RD>>, !.auth = <<AuthMsg(K, p, 1)>>] = Asked(K, p)
  <2>1. PICK k : k = [k0 EXCEPT !.nonces = <<RD>>, !.auth = <<AuthMsg(K, p, 1)>>]
    OBVIOUS
  <2>2. k = Asked(K, p)
    BY <2>1 DEF DialKnows, Asked
  <2> QED BY <2>1, <2>2
<1>7. /\ PerEnd(known') /\ known'[Conn]["dial"] = Asked(K, p)
      /\ known'[Conn]["listen"] = known[Conn]["listen"]
  BY <1>2, <1>5, <1>6, HandParts DEF PerEnd
<1>8. /\ PerEnd(hwire') /\ hwire'[Conn]["listen"] = Append(hwire[Conn]["listen"], AuthMsg(K, p, 1))
      /\ hwire'[Conn]["dial"] = hwire[Conn]["dial"]
  BY <1>5, HandParts DEF PerEnd, Handshake!Put, Handshake!Peer
<1>9. pc[Conn]["listen"] = "recvAuth" => hwire'[Conn]["listen"] = <<AuthMsg(K, p, 1)>>
  <2>1. pc[Conn]["listen"] = "recvAuth" => hwire[Conn]["listen"] = << >>
    BY <1>1 DEF HandInv, HandOK
  <2> QED BY <2>1, <1>8, OneMessage
<1>10. PerEnd(pc') /\ pc'[Conn]["dial"] = "recvResp" /\ pc'[Conn]["listen"] = pc[Conn]["listen"]
  BY <1>1, HandParts DEF PerEnd
<1>11. HandOK(K, "recvResp", pc[Conn]["listen"], hwire'[Conn]["listen"], hwire[Conn]["dial"],
              Asked(K, p), known[Conn]["listen"], faults)
  BY <1>1, <1>9, HandParts, AfterAuth
<1> QED BY <1>1, <1>7, <1>8, <1>10, <1>11 DEF HandInv

\* receiverEncHandshake: the listening end derives its secrets from an intact packet.
LEMMA RespStep == ASSUME HandInv, faults \in Nat, Handshake!receiverEncHandshake(Conn) PROVE HandInv'
<1> DEFINE K == key[Conn]
<1>1. /\ pc[Conn]["listen"] = "recvAuth" /\ hwire[Conn]["listen"] # << >>
      /\ key' = key /\ faults' = faults
  BY DEF Handshake!receiverEncHandshake
<1>2. PICK p \in Pads, v \in {0, 1} :
          /\ known[Conn]["dial"] = Asked(K, p) /\ hwire[Conn]["listen"] = <<AuthMsg(K, p, v)>>
          /\ (faults > 0 \/ v = 1) /\ K.listen = K.want
  BY <1>1 DEF HandInv, HandOK
<1>3. Handshake!Next1(Conn, "listen") = AuthMsg(K, p, v) /\ Tail(hwire[Conn]["listen"]) = << >>
  BY <1>2, OneMessage DEF Handshake!Next1
<1>4. CASE v = 1
  <2> DEFINE m == AuthMsg(K, p, 1)
  <2>1. PICK q \in Pads :
                LET rand   == Handshake!Random(Conn, "listen")
                    token  == Handshake!staticSharedSecret(key[Conn].listen, m.body.pub)
                    rrand  == Handshake!Recover(m.body.sig, <<token, m.body.nonce>>)
                    resp   == Handshake!sealEIP8("resp", m.body.pub, [rand |-> rand, nonce |-> rand], q)
                IN  /\ Handshake!TakeAndPut(Conn, "listen", resp)
                    /\ known' = [known EXCEPT
                            ![Conn]["listen"].remote = m.body.pub,
                            ![Conn]["listen"].sec =
                                Handshake!secrets(FALSE, rand, rrand, m.body.nonce, rand, m, resp)]
                    /\ Handshake!Goto(Conn, "listen", "done")
    <3>1. Handshake!Opens(AuthMsg(K, p, v), "auth", K.listen)
      BY <1>4, SealedOpens
    <3> QED BY <1>3, <1>4, <3>1 DEF Handshake!receiverEncHandshake, Handshake!PadLens
  <2>2. /\ m.body.pub = K.dial /\ m.body.nonce = RD
        /\ m.body.sig = [by |-> RD, of |-> <<{K.dial, K.listen}, RD>>]
    BY DEF AuthMsg
  <2>3. Handshake!Recover(m.body.sig, <<Handshake!staticSharedSecret(K.listen, K.dial), RD>>) = RD
    <3>1. {K.listen, K.dial} = {K.dial, K.listen}
      OBVIOUS
    <3> QED BY <2>2, <3>1 DEF Handshake!Recover, Handshake!staticSharedSecret
  <2>4. Handshake!sealEIP8("resp", K.dial, [rand |-> RL, nonce |-> RL], q) = RespMsg(K, q, 1)
    BY DEF Handshake!sealEIP8, Handshake!BodyLen, Handshake!eciesOverhead, RespMsg
  <2>5. Handshake!secrets(FALSE, RL, RD, RD, RL, m, RespMsg(K, q, 1)) = ListenSec(K, p, q)
    <3>1. {RL, RD} = {RD, RL}
      OBVIOUS
    <3> QED BY <3>1 DEF Handshake!secrets, ListenSec, Mac1, Mac2, Aes
  <2>6. /\ Handshake!TakeAndPut(Conn, "listen", RespMsg(K, q, 1))
        /\ known' = [known EXCEPT ![Conn]["listen"].remote = K.dial,
                                  ![Conn]["listen"].sec = ListenSec(K, p, q)]
        /\ Handshake!Goto(Conn, "listen", "done")
    <3> HIDE DEF m
    <3>1. Handshake!Random(Conn, "listen") = RL
      BY DEF Handshake!Random, RL
    <3> QED BY <2>1, <2>2, <2>3, <2>4, <2>5, <3>1
  <2>7. known[Conn]["listen"] = Nothing
    BY <1>1 DEF HandInv, HandOK
  <2>8. [Nothing EXCEPT !.remote = K.dial, !.sec = ListenSec(K, p, q)] = ListenKnows(K, ListenSec(K, p, q))
    <3>1. PICK k : k = [Nothing EXCEPT !.remote = K.dial, !.sec = ListenSec(K, p, q)]
      OBVIOUS
    <3>2. k = ListenKnows(K, ListenSec(K, p, q))
      BY <3>1 DEF Nothing, Handshake!Nothing, ListenKnows, Nobody
    <3> QED BY <3>1, <3>2
  <2>9. /\ PerEnd(known') /\ known'[Conn]["listen"] = ListenKnows(K, ListenSec(K, p, q))
        /\ known'[Conn]["dial"] = known[Conn]["dial"]
    BY <2>6, <2>7, <2>8, HandParts DEF PerEnd
  <2>10. /\ PerEnd(hwire') /\ hwire'[Conn]["listen"] = << >>
         /\ hwire'[Conn]["dial"] = Append(hwire[Conn]["dial"], RespMsg(K, q, 1))
    BY <1>3, <2>6, HandParts DEF PerEnd, Handshake!TakeAndPut, Handshake!Peer
  <2>11. pc[Conn]["dial"] = "recvResp" => hwire'[Conn]["dial"] = <<RespMsg(K, q, 1)>>
    <3>1. pc[Conn]["dial"] = "recvResp" => hwire[Conn]["dial"] = << >>
      BY <1>1 DEF HandInv, HandOK
    <3> QED BY <3>1, <2>10, OneMessage
  <2>12. PerEnd(pc') /\ pc'[Conn]["listen"] = "done" /\ pc'[Conn]["dial"] = pc[Conn]["dial"]
    BY <2>6, HandParts DEF PerEnd, Handshake!Goto
  <2>13. HandOK(K, pc[Conn]["dial"], "done", << >>, hwire'[Conn]["dial"], known[Conn]["dial"],
                ListenKnows(K, ListenSec(K, p, q)), faults)
    BY <1>1, <1>2, <2>11, HandParts, AfterResp
  <2> QED BY <1>1, <2>9, <2>10, <2>12, <2>13 DEF HandInv
<1>5. CASE v # 1
  <2>1. ~Handshake!Opens(AuthMsg(K, p, v), "auth", K.listen)
    BY <1>5, SealedOpens
  <2>2. Handshake!Fail(Conn, "listen")
    BY <1>3, <2>1 DEF Handshake!receiverEncHandshake
  <2> QED BY <1>1, <1>2, <1>5, <2>2, FailStep
<1> QED BY <1>4, <1>5

\* handleAuthResp: the dialling end derives the secrets of the listening end, mirrored.
LEMMA DoneStep == ASSUME HandInv, faults \in Nat, Handshake!handleAuthResp(Conn) PROVE HandInv'
<1> DEFINE K == key[Conn]
<1>1. /\ pc[Conn]["dial"] = "recvResp" /\ hwire[Conn]["dial"] # << >>
      /\ key' = key /\ faults' = faults
  BY DEF Handshake!handleAuthResp
<1>2. pc[Conn]["listen"] = "done"
  BY <1>1 DEF HandInv, HandOK
<1>3. PICK p \in Pads, q \in Pads :
          /\ known[Conn]["listen"] = ListenKnows(K, ListenSec(K, p, q)) /\ known[Conn]["dial"] = Asked(K, p)
          /\ \E v \in {0, 1} : hwire[Conn]["dial"] = <<RespMsg(K, q, v)>> /\ (faults > 0 \/ v = 1)
  BY <1>1, <1>2 DEF HandInv, HandOK
<1>4. PICK v \in {0, 1} : hwire[Conn]["dial"] = <<RespMsg(K, q, v)>> /\ (faults > 0 \/ v = 1)
  BY <1>3
<1>5. Handshake!Next1(Conn, "dial") = RespMsg(K, q, v) /\ Tail(hwire[Conn]["dial"]) = << >>
  BY <1>4, OneMessage DEF Handshake!Next1
<1>6. CASE v = 1
  <2> DEFINE m == RespMsg(K, q, 1)
  <2>1. /\ known' = [known EXCEPT ![Conn]["dial"].sec =
                        Handshake!secrets(TRUE, Handshake!Random(Conn, "dial"), m.body.rand,
                                Handshake!Random(Conn, "dial"), m.body.nonce, known[Conn]["dial"].auth[1], m)]
        /\ Handshake!Take(Conn, "dial")
        /\ Handshake!Goto(Conn, "dial", "done")
    <3>1. Handshake!Opens(RespMsg(K, q, v), "resp", K.dial)
      BY <1>6, SealedOpens
    <3> QED BY <1>5, <1>6, <3>1 DEF Handshake!handleAuthResp
  <2>2. m.body.rand = RL /\ m.body.nonce = RL /\ Handshake!Random(Conn, "dial") = RD
    BY DEF RespMsg, Handshake!Random, RD
  <2>3. known[Conn]["dial"].auth[1] = AuthMsg(K, p, 1)
    BY <1>3, OneMessage DEF Asked, DialKnows
  <2>4. Handshake!secrets(TRUE, RD, RL, RD, RL, AuthMsg(K, p, 1), m) = DialSec(K, p, q)
    BY DEF Handshake!secrets, DialSec, Mac1, Mac2, Aes
  <2>5. known' = [known EXCEPT ![Conn]["dial"].sec = DialSec(K, p, q)]
    <3> HIDE DEF m
    <3> QED BY <2>1, <2>2, <2>3, <2>4
  <2>6. [Asked(K, p) EXCEPT !.sec = DialSec(K, p, q)] = Agreed(K, p, q)
    BY DEF Asked, Agreed, DialKnows
  <2>7. /\ PerEnd(known') /\ known'[Conn]["dial"] = Agreed(K, p, q)
        /\ known'[Conn]["listen"] = known[Conn]["listen"]
    BY <1>3, <2>5, <2>6, HandParts DEF PerEnd
  <2>8. PerEnd(hwire') /\ hwire'[Conn]["dial"] = << >> /\ hwire'[Conn]["listen"] = hwire[Conn]["listen"]
    BY <1>5, <2>1, HandParts DEF PerEnd, Handshake!Take
  <2>9. PerEnd(pc') /\ pc'[Conn]["dial"] = "done" /\ pc'[Conn]["listen"] = pc[Conn]["listen"]
    BY <2>1, HandParts DEF PerEnd, Handshake!Goto
  <2>10. HandOK(K, "done", pc[Conn]["listen"], hwire[Conn]["listen"], << >>, Agreed(K, p, q),
                known[Conn]["listen"], faults)
    BY <1>1, <1>2, <1>3, HandParts, AfterDone
  <2> QED BY <1>1, <2>7, <2>8, <2>9, <2>10 DEF HandInv
<1>7. CASE v # 1
  <2>1. ~Handshake!Opens(RespMsg(K, q, v), "resp", K.dial)
    BY <1>7, SealedOpens
  <2>2. Handshake!Fail(Conn, "dial")
    BY <1>5, <2>1 DEF Handshake!handleAuthResp
  <2> QED BY <1>1, <1>4, <1>7, <2>2, FailStep
<1> QED BY <1>6, <1>7

\* The deadline of an end passes because the other end has ended: that one has failed.
LEMMA DeadlineStep ==
    ASSUME HandInv, faults \in Nat, NEW s \in {"dial", "listen"}, Handshake!Deadline(Conn, s)
    PROVE  HandInv'
<1>1. /\ pc[Conn][s] \in {"recvRequest", "recvAck", "recvAuth", "recvResp"} /\ hwire[Conn][s] = << >>
      /\ pc[Conn][Handshake!Peer(s)] \in {"done", "failed"}
      /\ Handshake!Fail(Conn, s) /\ key' = key /\ faults' = faults
  BY DEF Handshake!Deadline, Handshake!Waits, Handshake!Ended
<1>2. CASE s = "dial"
  <2>1. pc[Conn]["listen"] # "done"
    BY <1>1, <1>2, OneMessage, SMTT(40) DEF HandInv, HandOK
  <2>2. pc[Conn]["listen"] = "failed" /\ pc[Conn]["dial"] # "done"
    BY <1>1, <1>2, <2>1 DEF Handshake!Peer
  <2>3. faults > 0 \/ key[Conn].listen # key[Conn].want
    BY <2>2 DEF HandInv, HandOK
  <2> QED BY <1>1, <1>2, <2>2, <2>3, FailStep
<1>3. CASE s = "listen"
  <2>1. pc[Conn]["dial"] # "done"
    BY <1>1, <1>3 DEF HandInv, HandOK
  <2>2. pc[Conn]["dial"] = "failed" /\ pc[Conn]["listen"] # "done"
    BY <1>1, <1>3, <2>1 DEF Handshake!Peer
  <2>3. faults > 0 \/ key[Conn].listen # key[Conn].want
    BY <2>2 DEF HandInv, HandOK
  <2> QED BY <1>1, <1>3, <2>2, <2>3, FailStep
<1> QED BY <1>2, <1>3

\* The deadline of an end passes although the other end is at work.
LEMMA TimeoutStep ==
    ASSUME HandInv, faults \in Nat, NEW s \in {"dial", "listen"}, Handshake!Timeout(Conn, s)
    PROVE  HandInv'
<1>1. /\ pc[Conn][s] \in {"recvRequest", "recvAck", "recvAuth", "recvResp"}
      /\ Handshake!Fail(Conn, s) /\ key' = key /\ faults' = faults + 1
  BY DEF Handshake!Timeout, Handshake!Fault, Handshake!Waits
<1>2. pc[Conn][s] # "done"
  BY <1>1
<1>3. faults' \in Nat /\ faults' >= faults /\ faults' > 0
  BY <1>1
<1> QED BY <1>1, <1>2, <1>3, FailStep

\* The connection breaks: every end that has not ended fails.
LEMMA BreakStep == ASSUME HandInv, faults \in Nat, Handshake!Break(Conn) PROVE HandInv'
<1> DEFINE K == key[Conn]
<1> DEFINE Broken(label) == IF label \in {"done", "failed"} THEN label ELSE "failed"
<1>1. /\ pc' = [pc EXCEPT ![Conn] = [s \in {"dial", "listen"} |-> Broken(pc[Conn][s])]]
      /\ key' = key /\ known' = known /\ hwire' = hwire /\ faults' = faults + 1
  BY DEF Handshake!Break, Handshake!Fault, Handshake!Sides, Handshake!Ended
<1>2. /\ PerEnd(pc') /\ pc'[Conn]["dial"] = Broken(pc[Conn]["dial"])
      /\ pc'[Conn]["listen"] = Broken(pc[Conn]["listen"])
  BY <1>1, HandParts DEF PerEnd
<1>3. faults' \in Nat /\ faults' >= faults /\ faults' > 0
  BY <1>1
<1>4. HandOK(K, Broken(pc[Conn]["dial"]), pc[Conn]["listen"], hwire[Conn]["listen"], hwire[Conn]["dial"],
             known[Conn]["dial"], known[Conn]["listen"], faults')
  <2>1. CASE pc[Conn]["dial"] \in {"done", "failed"}
    <3>1. Broken(pc[Conn]["dial"]) = pc[Conn]["dial"]
      BY <2>1
    <3>2. HandOK(K, pc[Conn]["dial"], pc[Conn]["listen"], hwire[Conn]["listen"], hwire[Conn]["dial"],
                 known[Conn]["dial"], known[Conn]["listen"], faults')
      BY <1>3, HandParts, AfterFault
    <3> HIDE DEF Broken
    <3> QED BY <3>1, <3>2
  <2>2. CASE ~(pc[Conn]["dial"] \in {"done", "failed"})
    <3>1. Broken(pc[Conn]["dial"]) = "failed" /\ pc[Conn]["dial"] # "done"
      BY <2>2
    <3>2. HandOK(K, "failed", pc[Conn]["listen"], hwire[Conn]["listen"], hwire[Conn]["dial"],
                 known[Conn]["dial"], known[Conn]["listen"], faults')
      BY <1>3, <3>1, HandParts, AfterFailure
    <3> HIDE DEF Broken
    <3> QED BY <3>1, <3>2
  <2> QED BY <2>1, <2>2
<1>5. HandOK(K, Broken(pc[Conn]["dial"]), Broken(pc[Conn]["listen"]), hwire[Conn]["listen"],
             hwire[Conn]["dial"], known[Conn]["dial"], known[Conn]["listen"], faults')
  <2>1. CASE pc[Conn]["listen"] \in {"done", "failed"}
    <3>1. Broken(pc[Conn]["listen"]) = pc[Conn]["listen"]
      BY <2>1
    <3> HIDE DEF Broken
    <3> QED BY <3>1, <1>4
  <2>2. CASE ~(pc[Conn]["listen"] \in {"done", "failed"})
    <3>1. Broken(pc[Conn]["listen"]) = "failed" /\ pc[Conn]["listen"] # "done"
      BY <2>2
    <3> HIDE DEF Broken
    <3>2. faults' >= faults'
      BY <1>3
    <3>3. HandOK(K, Broken(pc[Conn]["dial"]), "failed", hwire[Conn]["listen"], hwire[Conn]["dial"],
                 known[Conn]["dial"], known[Conn]["listen"], faults')
      BY <1>3, <1>4, <3>1, <3>2, AfterFailure
    <3> QED BY <3>1, <3>3
  <2> QED BY <2>1, <2>2
<1> HIDE DEF Broken
<1> QED BY <1>1, <1>2, <1>5 DEF HandInv

\* The first message of a wire is replaced.
LEMMA FirstReplaced == ASSUME NEW m, NEW e, NEW q, q = [<<m>> EXCEPT ![1] = e] PROVE q = <<e>>
OBVIOUS

\* A message of the handshake is damaged on its way.
LEMMA DamageStep ==
    ASSUME HandInv, faults \in Nat, NEW s \in {"dial", "listen"}, Handshake!Damage(Conn, s)
    PROVE  HandInv'
<1> DEFINE K == key[Conn]
<1> DEFINE Hurt(m) == IF "random" \in DOMAIN m THEN [m EXCEPT !.random = Nobody] ELSE [m EXCEPT !.rev = 0]
<1>1. /\ hwire[Conn][s] # << >> /\ key' = key /\ pc' = pc /\ known' = known /\ faults' = faults + 1
      /\ hwire' = [hwire EXCEPT ![Conn][s][1] = Hurt(hwire[Conn][s][1])]
  BY DEF Handshake!Damage, Handshake!Fault, Nobody
<1>2. faults' \in Nat /\ faults' > 0
  BY <1>1
<1>3. /\ PerEnd(hwire') /\ hwire'[Conn][s] = [hwire[Conn][s] EXCEPT ![1] = Hurt(hwire[Conn][s][1])]
      /\ \A t \in {"dial", "listen"} : t # s => hwire'[Conn][t] = hwire[Conn][t]
  <2> HIDE DEF Hurt
  <2> QED BY <1>1, HandParts DEF PerEnd
<1>4. ASSUME NEW m, hwire[Conn][s] = <<m>> PROVE hwire'[Conn][s] = <<Hurt(m)>>
  <2> HIDE DEF Hurt
  <2>1. hwire'[Conn][s] = [<<m>> EXCEPT ![1] = Hurt(m)]
    BY <1>3, <1>4, OneMessage
  <2> QED BY <2>1, FirstReplaced
<1>5. \A x : Hurt(Request(x)) = Request(Nobody)
  BY DEF Request
<1>6. \A x, v : Hurt(AckMsg(K, x, v)) = AckMsg(K, x, 0)
  BY DEF AckMsg
<1>7. \A p, v : Hurt(AuthMsg(K, p, v)) = AuthMsg(K, p, 0)
  BY ZenonT(60) DEF AuthMsg
<1>8. \A q, v : Hurt(RespMsg(K, q, v)) = RespMsg(K, q, 0)
  BY DEF RespMsg
<1> HIDE DEF Hurt
<1>9. CASE s = "listen"
  <2>1. \A x : hwire[Conn]["listen"] = <<Request(x)>> => hwire'[Conn]["listen"] = <<Request(Nobody)>>
    BY <1>4, <1>5, <1>9
  <2>2. \A p, v : hwire[Conn]["listen"] = <<AuthMsg(K, p, v)>>
                        => hwire'[Conn]["listen"] = <<AuthMsg(K, p, 0)>>
    BY <1>4, <1>7, <1>9
  <2>3. HandOK(K, pc[Conn]["dial"], pc[Conn]["listen"], hwire'[Conn]["listen"], hwire[Conn]["dial"],
               known[Conn]["dial"], known[Conn]["listen"], faults')
    BY <1>1, <1>2, <1>9, <2>1, <2>2, HandParts, AfterDamageToListen
  <2> QED BY <1>1, <1>3, <1>9, <2>3 DEF HandInv
<1>10. CASE s = "dial"
  <2>1. \A x, v : hwire[Conn]["dial"] = <<AckMsg(K, x, v)>> => hwire'[Conn]["dial"] = <<AckMsg(K, x, 0)>>
    BY <1>4, <1>6, <1>10
  <2>2. \A q, v : hwire[Conn]["dial"] = <<RespMsg(K, q, v)>> => hwire'[Conn]["dial"] = <<RespMsg(K, q, 0)>>
    BY <1>4, <1>8, <1>10
  <2>3. HandOK(K, pc[Conn]["dial"], pc[Conn]["listen"], hwire[Conn]["listen"], hwire'[Conn]["dial"],
               known[Conn]["dial"], known[Conn]["listen"], faults')
    BY <1>1, <1>2, <1>10, <2>1, <2>2, HandParts, AfterDamageToDial
  <2> QED BY <1>1, <1>3, <1>10, <2>3 DEF HandInv
<1> QED BY <1>9, <1>10

\* A step of the handshake: its invariant, the faults, and an end that is done stays so.
LEMMA HandStep ==
    ASSUME HandInv, faults \in 0..MaxFaults, Handshake!Next
    PROVE  HandInv' /\ faults' \in 0..MaxFaults /\ faults' >= faults /\ (BuyerReady => BuyerReady')
<1>0. faults \in Nat /\ MaxFaults \in Nat
  BY Zero
<1>1. /\ \/ Handshake!Step(Conn) \/ Handshake!Break(Conn)
         \/ \E s \in {"dial", "listen"} : Handshake!Timeout(Conn, s) \/ Handshake!Damage(Conn, s)
  BY DEF Handshake!Next, Handshake!Sides
<1>2. ASSUME Handshake!Fault PROVE faults' \in 0..MaxFaults /\ faults' >= faults
  BY <1>0, <1>2 DEF Handshake!Fault
<1>3. ASSUME NEW s \in {"dial", "listen"}, Handshake!Fail(Conn, s), pc[Conn][s] # "done"
      PROVE  BuyerReady => BuyerReady'
  BY <1>3, HandParts DEF Handshake!Fail, Handshake!Goto, PerEnd, BuyerReady
<1>4. CASE Handshake!sendPreAuthRequest(Conn)
  BY <1>0, <1>4, RequestStep DEF Handshake!sendPreAuthRequest, BuyerReady
<1>5. CASE Handshake!receiverPreAuthHandshake(Conn)
  <2>1. faults' = faults /\ pc[Conn]["listen"] = "recvRequest"
    BY <1>5 DEF Handshake!receiverPreAuthHandshake
  <2>2. ~BuyerReady
    BY <2>1 DEF HandInv, HandOK, BuyerReady
  <2> QED BY <1>0, <1>5, <2>1, <2>2, AckStep
<1>6. CASE Handshake!recvPreAuthAck(Conn)
  BY <1>0, <1>6, CheckStep DEF Handshake!recvPreAuthAck, BuyerReady
<1>7. CASE Handshake!makeAuthMsg(Conn)
  <2>1. faults' = faults /\ pc[Conn]["dial"] = "sendAuth"
    BY <1>7 DEF Handshake!makeAuthMsg
  <2> QED BY <1>0, <1>7, <2>1, AuthStep DEF BuyerReady
<1>8. CASE Handshake!receiverEncHandshake(Conn)
  <2>1. faults' = faults /\ pc[Conn]["listen"] = "recvAuth"
    BY <1>8 DEF Handshake!receiverEncHandshake
  <2>2. ~BuyerReady
    BY <2>1 DEF HandInv, HandOK, BuyerReady
  <2> QED BY <1>0, <1>8, <2>1, <2>2, RespStep
<1>9. CASE Handshake!handleAuthResp(Conn)
  <2>1. faults' = faults /\ pc[Conn]["dial"] = "recvResp"
    BY <1>9 DEF Handshake!handleAuthResp
  <2> QED BY <1>0, <1>9, <2>1, DoneStep DEF BuyerReady
<1>10. ASSUME NEW s \in {"dial", "listen"}, Handshake!Deadline(Conn, s)
       PROVE  HandInv' /\ faults' \in 0..MaxFaults /\ faults' >= faults /\ (BuyerReady => BuyerReady')
  <2>1. faults' = faults /\ Handshake!Fail(Conn, s) /\ pc[Conn][s] # "done"
    BY <1>10 DEF Handshake!Deadline, Handshake!Waits
  <2> QED BY <1>0, <1>3, <1>10, <2>1, DeadlineStep
<1>11. ASSUME NEW s \in {"dial", "listen"}, Handshake!Timeout(Conn, s)
       PROVE  HandInv' /\ faults' \in 0..MaxFaults /\ faults' >= faults /\ (BuyerReady => BuyerReady')
  <2>1. Handshake!Fault /\ Handshake!Fail(Conn, s) /\ pc[Conn][s] # "done"
    BY <1>11 DEF Handshake!Timeout, Handshake!Waits
  <2> QED BY <1>0, <1>2, <1>3, <1>11, <2>1, TimeoutStep
<1>12. CASE Handshake!Break(Conn)
  <2>1. /\ Handshake!Fault
        /\ pc' = [pc EXCEPT ![Conn] = [s \in {"dial", "listen"} |->
                        IF pc[Conn][s] \in {"done", "failed"} THEN pc[Conn][s] ELSE "failed"]]
    BY <1>12 DEF Handshake!Break, Handshake!Sides, Handshake!Ended
  <2>2. BuyerReady => BuyerReady'
    BY <2>1, HandParts DEF PerEnd, BuyerReady
  <2> QED BY <1>0, <1>2, <1>12, <2>1, <2>2, BreakStep
<1>13. ASSUME NEW s \in {"dial", "listen"}, Handshake!Damage(Conn, s)
       PROVE  HandInv' /\ faults' \in 0..MaxFaults /\ faults' >= faults /\ (BuyerReady => BuyerReady')
  <2>1. Handshake!Fault /\ pc' = pc
    BY <1>13 DEF Handshake!Damage
  <2> QED BY <1>0, <1>2, <1>13, <2>1, DamageStep DEF BuyerReady
<1>14. CASE Handshake!Step(Conn)
  BY <1>4, <1>5, <1>6, <1>7, <1>8, <1>9, <1>10, <1>14 DEF Handshake!Step, Handshake!Sides
<1> QED BY <1>1, <1>11, <1>12, <1>13, <1>14

-----------------------------------------------------------------------------
(***************************************************************************)
(* The connection: both phases together.                                   *)
(***************************************************************************)
\* At the dial nothing is known and nothing is on its way.
LEMMA ConnInitInv == ConnInit => ConnInv
<1> SUFFICES ASSUME Init, Handshake!Init PROVE ConnInv
  BY DEF ConnInit
<1>1. Inv
  BY InitInv
<1>2. /\ key \in [{Conn} -> [dial : Keys, listen : Keys, want : Keys]] /\ faults = 0
      /\ pc = [c \in {Conn} |-> [s \in {"dial", "listen"} |-> IF s = "dial" THEN "sendRequest" ELSE "recvRequest"]]
      /\ known = [c \in {Conn} |-> [s \in {"dial", "listen"} |-> Nothing]]
      /\ hwire = [c \in {Conn} |-> [s \in {"dial", "listen"} |-> << >>]]
  BY DEF Handshake!Init, Handshake!Sides, Nothing
<1>3. /\ PerEnd(pc) /\ PerEnd(known) /\ PerEnd(hwire)
      /\ pc[Conn]["dial"] = "sendRequest" /\ pc[Conn]["listen"] = "recvRequest"
      /\ known[Conn]["dial"] = Nothing /\ known[Conn]["listen"] = Nothing
      /\ hwire[Conn]["dial"] = << >> /\ hwire[Conn]["listen"] = << >>
  BY <1>2 DEF PerEnd
<1>4. HandOK(key[Conn], "sendRequest", "recvRequest", << >>, << >>, Nothing, Nothing, 0)
  BY DEF HandOK
<1>5. HandInv
  BY <1>2, <1>3, <1>4 DEF HandInv
<1>6. HeardInv
  BY DEF HeardInv, Init
<1> QED BY <1>1, <1>5, <1>6 DEF ConnInv

\* More faults do no harm to the stream.
LEMMA MoreFaults ==
    ASSUME Inv, UNCHANGED stream, faults' \in 0..MaxFaults, faults' >= faults
    PROVE  Inv'
<1>1. sent' = sent /\ whole' = whole /\ w' = w /\ wire' = wire /\ r' = r /\ got' = got
  BY DEF stream
<1>2. TypeOK' /\ SentInv' /\ WriterInv' /\ ReaderInv'
  BY <1>1 DEF Inv, TypeOK, SentInv, WriterInv, ReaderInv
<1>3. FramesInv' /\ ChainInv'
  BY <1>1 DEF Inv, FramesInv, ChainInv
<1>4. faults > 0 => faults' > 0
  BY Basics, Zero
<1>5. FaultInv'
  BY <1>1, <1>4 DEF Inv, FaultInv
<1> QED BY <1>2, <1>3, <1>5 DEF Inv

\* A step of the stream leaves the handshake alone.
LEMMA HandKept ==
    ASSUME HandInv, UNCHANGED handshake, faults \in Nat, faults' \in Nat, faults' >= faults
    PROVE  HandInv' /\ (BuyerReady <=> BuyerReady')
<1>1. key' = key /\ pc' = pc /\ known' = known /\ hwire' = hwire
  BY DEF handshake
<1>2. HandOK(key[Conn], pc[Conn]["dial"], pc[Conn]["listen"], hwire[Conn]["listen"], hwire[Conn]["dial"],
             known[Conn]["dial"], known[Conn]["listen"], faults')
  BY HandParts, AfterFault
<1> QED BY <1>1, <1>2 DEF HandInv, BuyerReady

\* Faults are only counted.
LEMMA FaultsGrow ==
    ASSUME Next, faults \in Nat
    PROVE  faults' \in Nat /\ faults' >= faults
<1>1. faults' \in {faults, faults + 1}
  BY DEF Next, Writes, Reads, Read, sendMsg, writeSize, writeData, ShortSource, WriteTimeout, Break,
         readSize, readData, ReadTimeout, ReadDeadline, Damage, Fault
<1> QED BY <1>1

\* The reader takes up a payload when it has read a header.
LEMMA HeardStep ==
    ASSUME Inv, Inv', Reads \/ Damage \/ ReadFailed, sent' = sent, HeardInv, BuyerReady <=> BuyerReady'
    PROVE  HeardInv'
<1> SUFFICES ASSUME r'.part = "payload", sent = << >> PROVE BuyerReady
  BY DEF HeardInv
<1>1. /\ r \in ReaderType /\ r' \in ReaderType /\ Len(got') \in Nat /\ Len(sent) = 0
      /\ got' \in Seq(GotType)
  BY EmptySeq, LenProperties, Basics DEF Inv, TypeOK, GotType
<1>2. r'.pc = "failed"
  BY <1>1 DEF Inv, ReaderInv
<1>3. r'.part = r.part
  <2>1. CASE ReadFailed
    BY <1>1, <2>1 DEF ReadFailed, ReaderType
  <2>2. CASE r' = r
    BY <2>2
  <2>3. ASSUME NEW n, NEW id, NEW clean, ReadDone(n, id, clean) PROVE ReadFailed
    <3>1. CASE r.part = "header" /\ n = HeaderSize
      <4>1. PICK typ \in MsgTypes, len \in Lens :
                r' = [pc |-> "size", part |-> "payload", cur |-> 0, remaining |-> 0,
                      clean |-> clean, id |-> id, typ |-> typ, len |-> len]
        BY <2>3, <3>1 DEF ReadDone
      <4>2. r'.pc = "size"
        BY <4>1
      <4> QED BY <1>2, <4>2
    <3>2. CASE r.part # "header" /\ n = r.len
      <4>1. r' = [r EXCEPT !.pc = "size", !.part = "header", !.cur = 0, !.remaining = 0]
        BY <2>3, <3>2 DEF ReadDone
      <4>2. r'.pc = "size"
        BY <1>1, <4>1 DEF ReaderType
      <4> QED BY <1>2, <4>2
    <3> QED BY <2>3, <3>1, <3>2 DEF ReadDone
  <2>4. CASE readSize
    BY <1>1, <1>2, <2>1, <2>3, <2>4 DEF readSize, ReaderType
  <2>5. CASE readData
    <3>1. r.pc = "data"
      BY <2>5 DEF readData
    <3> DEFINE f == Head(wire)
    <3> DEFINE left == Left(r.remaining, f.size)
    <3> DEFINE clean == r.clean /\ f.ok /\ f.id = r.id /\ f.part = r.part /\ f.from = r.cur
    <3>2. \/ ReadFailed \/ r' = r \/ ReadDone(r.cur + f.size, r.id, clean)
          \/ r' = [r EXCEPT !.cur = r.cur + f.size, !.remaining = left, !.clean = clean]
      <4>1. CASE ~Intact(f) \/ f.code # "data"
        BY <2>5, <4>1 DEF readData
      <4>2. CASE Intact(f) /\ f.code = "data" /\ f.size = 0
        BY <2>5, <4>2 DEF readData, reader
      <4>3. CASE Intact(f) /\ f.code = "data" /\ f.size # 0
        BY <2>5, <4>3 DEF readData
      <4> QED BY <4>1, <4>2, <4>3
    <3> HIDE DEF f, left, clean
    <3>3. r' = [r EXCEPT !.cur = r.cur + f.size, !.remaining = left, !.clean = clean] => r'.pc = "data"
      BY <1>1, <3>1 DEF ReaderType
    <3> QED BY <1>2, <3>2, <3>3, <2>1, <2>2, <2>3
  <2>6. CASE Damage
    BY <2>2, <2>6 DEF Damage, reader
  <2>7. CASE ReadTimeout \/ ReadDeadline
    BY <2>1, <2>7 DEF ReadTimeout, ReadDeadline
  <2> QED BY <2>1, <2>4, <2>5, <2>6, <2>7 DEF Reads, Read
<1> QED BY <1>3 DEF HeardInv

\* A step of the connection: the invariant, and what it does to the messages.
LEMMA ConnStep ==
    ASSUME ConnInv, [ConnNext]_connVars
    PROVE  ConnInv' /\ [Channel!Next]_Channel!chan
<1>0. Inv /\ HandInv /\ HeardInv /\ faults \in 0..MaxFaults /\ faults \in Nat
  BY Basics DEF ConnInv
<1>1. CASE Handshake!Next /\ UNCHANGED stream
  <2>1. /\ HandInv' /\ faults' \in 0..MaxFaults /\ faults' >= faults
        /\ BuyerReady => BuyerReady'
    BY <1>0, <1>1, HandStep
  <2>2. Inv'
    BY <1>0, <1>1, <2>1, MoreFaults
  <2>3. sent' = sent /\ whole' = whole /\ got' = got /\ r' = r
    BY <1>1 DEF stream
  <2>4. HeardInv'
    BY <1>0, <2>1, <2>3 DEF HeardInv
  <2>5. [Channel!Next]_Channel!chan
    BY <1>0, <2>2, <2>3, ChannelStep
  <2> QED BY <2>1, <2>2, <2>4, <2>5 DEF ConnInv
<1>2. ASSUME Next, UNCHANGED handshake
      PROVE  Inv' /\ HandInv' /\ (BuyerReady <=> BuyerReady') /\ [Channel!Next]_Channel!chan
  <2>1. Inv'
    BY <1>0, <1>2, StepInv
  <2>2. faults' \in Nat /\ faults' >= faults
    BY <1>0, <1>2, FaultsGrow
  <2>3. HandInv' /\ (BuyerReady <=> BuyerReady')
    BY <1>0, <1>2, <2>2, HandKept
  <2>4. [Channel!Next]_Channel!chan
    BY <1>0, <1>2, <2>1, StepInv, ChannelStep
  <2> QED BY <2>1, <2>3, <2>4
<1>3. CASE BuyerReady /\ Writes /\ UNCHANGED handshake
  <2>1. Inv' /\ HandInv' /\ BuyerReady' /\ [Channel!Next]_Channel!chan
    BY <1>2, <1>3 DEF Next
  <2> QED BY <2>1 DEF ConnInv, HeardInv
<1>4. CASE SellerReady /\ Reads /\ UNCHANGED handshake
  <2>1. Inv' /\ HandInv' /\ (BuyerReady <=> BuyerReady') /\ [Channel!Next]_Channel!chan
    BY <1>2, <1>4 DEF Next
  <2>2. sent' = sent
    BY <1>4 DEF Reads, Read, readSize, readData, ReadTimeout, ReadDeadline, writer
  <2>3. HeardInv'
    BY <1>0, <1>4, <2>1, <2>2, HeardStep
  <2> QED BY <2>1, <2>3 DEF ConnInv
<1>5. CASE Damage /\ UNCHANGED handshake
  <2>1. Inv' /\ HandInv' /\ (BuyerReady <=> BuyerReady') /\ [Channel!Next]_Channel!chan
    BY <1>2, <1>5 DEF Next
  <2>2. sent' = sent
    BY <1>5 DEF Damage, writer
  <2>3. HeardInv'
    BY <1>0, <1>5, <2>1, <2>2, HeardStep
  <2> QED BY <2>1, <2>3 DEF ConnInv
<1>6. CASE Abandoned
  <2>1. /\ sent' = sent /\ whole' = whole /\ got' = got /\ wire' = wire /\ w' = w /\ faults' = faults
        /\ r' = [r EXCEPT !.pc = "failed"] /\ ReadFailed /\ UNCHANGED handshake
        /\ pc[Conn]["dial"] = "failed" /\ pc[Conn]["listen"] = "done"
    BY <1>6 DEF Abandoned, ReadFailed, SellerReady
  <2>2. faults' > 0 /\ faults' \in 0..MaxFaults /\ faults' >= faults /\ faults' \in Nat
    <3>1. key[Conn].listen = key[Conn].want /\ (faults > 0 \/ key[Conn].listen # key[Conn].want)
      BY <1>0, <2>1 DEF HandInv, HandOK
    <3> QED BY <1>0, <2>1, <3>1
  <2>3. /\ wire' \in Seq(FrameType) /\ Len(wire') \in Nat /\ Len(wire') = Len(wire)
        /\ \A i \in 1..Len(wire') : wire'[i] \in {wire[i], [wire[i] EXCEPT !.ok = FALSE]}
    BY <1>0, <2>1, Basics
  <2>4. Inv'
    BY <1>0, <2>1, <2>2, <2>3, FailInv
  <2>5. HandInv' /\ (BuyerReady <=> BuyerReady')
    BY <1>0, <2>1, <2>2, HandKept
  <2>6. HeardInv'
    BY <1>0, <2>1, <2>4, <2>5, HeardStep
  <2>7. [Channel!Next]_Channel!chan
    BY <1>0, <2>1, <2>4, ChannelStep
  <2> QED BY <2>4, <2>5, <2>6, <2>7 DEF ConnInv
<1>7. CASE UNCHANGED connVars
  <2>1. UNCHANGED vars /\ UNCHANGED handshake /\ UNCHANGED stream /\ faults' = faults
    BY <1>7 DEF connVars, vars, stream
  <2>2. faults' \in 0..MaxFaults /\ faults' >= faults /\ faults' \in Nat
    BY <1>0, <2>1
  <2>3. Inv' /\ HandInv' /\ (BuyerReady <=> BuyerReady')
    BY <1>0, <2>1, <2>2, MoreFaults, HandKept
  <2>4. sent' = sent /\ whole' = whole /\ got' = got /\ r' = r
    BY <2>1 DEF stream
  <2>5. HeardInv'
    BY <1>0, <2>3, <2>4 DEF HeardInv
  <2>6. [Channel!Next]_Channel!chan
    BY <1>0, <2>3, <2>4, ChannelStep
  <2> QED BY <2>3, <2>5, <2>6 DEF ConnInv
<1> QED BY <1>1, <1>3, <1>4, <1>5, <1>6, <1>7 DEF ConnNext

\* The handshake and the stream after it, in every reachable state: the two ends know
\* what their steps imply, whatever node answered and whatever went wrong.
THEOREM ConnInvariant == ConnSpec => []ConnInv
<1>1. ConnInv /\ [ConnNext]_connVars => ConnInv'
  BY ConnStep
<1> QED BY ConnInitInv, <1>1, PTL DEF ConnSpec

\* Connection.Handshake returns to the buyer only if the node at the other end has the
\* key the buyer was told, and to the seller with the key of its buyer.
THEOREM DialledIsReached == ConnSpec => []PeerIsDialled
<1>1. ConnInv => PeerIsDialled
  <2> SUFFICES ASSUME ConnInv
               PROVE  /\ pc[Conn]["dial"] = "done" =>
                            known[Conn]["dial"].remote = key[Conn].listen /\ key[Conn].listen = key[Conn].want
                      /\ pc[Conn]["listen"] = "done" => known[Conn]["listen"].remote = key[Conn].dial
    BY DEF PeerIsDialled, Handshake!PeerIsDialled
  <2>1. HandInv
    BY DEF ConnInv
  <2>2. ASSUME pc[Conn]["listen"] = "done"
        PROVE  /\ known[Conn]["listen"].remote = key[Conn].dial /\ key[Conn].listen = key[Conn].want
               /\ pc[Conn]["dial"] = "done" => known[Conn]["dial"].remote = key[Conn].listen
    <3>1. PICK p \in Pads, q \in Pads :
            /\ known[Conn]["listen"] = ListenKnows(key[Conn], ListenSec(key[Conn], p, q))
            /\ pc[Conn]["dial"] = "done" => known[Conn]["dial"] = Agreed(key[Conn], p, q)
      BY <2>1, <2>2 DEF HandInv, HandOK
    <3>2. key[Conn].listen = key[Conn].want
      BY <2>1, <2>2 DEF HandInv, HandOK
    <3> QED BY <3>1, <3>2 DEF ListenKnows, Agreed, DialKnows
  <2>3. pc[Conn]["dial"] = "done" => pc[Conn]["listen"] = "done"
    BY <2>1 DEF HandInv, HandOK
  <2> QED BY <2>2, <2>3
<1> QED BY ConnInvariant, <1>1, PTL

\* A frame is read only under secrets both ends derived alike, by the node that was
\* dialled: the header of a message comes after the buyer's handshake.
THEOREM HeardFromDialled == ConnSpec => []HeardIsDialled
<1>1. ConnInv => HeardIsDialled
  <2> SUFFICES ASSUME ConnInv, r.part = "payload" \/ got # << >> \/ r.pc = "data"
               PROVE  /\ known[Conn]["dial"].sec.aes = known[Conn]["listen"].sec.aes
                      /\ known[Conn]["dial"].sec.egress = known[Conn]["listen"].sec.ingress
                      /\ known[Conn]["dial"].sec.ingress = known[Conn]["listen"].sec.egress
                      /\ key[Conn].listen = key[Conn].want
    BY DEF HeardIsDialled
  <2>1. Inv /\ HandInv /\ HeardInv
    BY DEF ConnInv
  <2>2. sent # << >> \/ r.part = "payload"
    <3>1. /\ Len(got) \in Nat /\ Len(sent) \in Nat /\ whole \in Nat /\ got \in Seq(GotType)
          /\ Len(got) <= whole /\ whole <= Len(sent) /\ (r.pc = "data" => Len(got) + 1 <= Len(sent))
      BY <2>1, Basics DEF Inv, WriterInv, ReaderInv
    <3>2. got # << >> => Len(got) > 0
      BY <3>1, EmptySeq
    <3>3. sent = << >> => Len(sent) = 0
      BY EmptySeq
    <3> QED BY <3>1, <3>2, <3>3
  <2>3. pc[Conn]["dial"] = "done" /\ pc[Conn]["listen"] = "done"
    <3>1. pc[Conn]["dial"] = "done"
      BY <2>1, <2>2 DEF HeardInv, BuyerReady
    <3> QED BY <3>1, <2>1 DEF HandInv, HandOK
  <2>4. PICK p \in Pads, q \in Pads :
            /\ known[Conn]["listen"] = ListenKnows(key[Conn], ListenSec(key[Conn], p, q))
            /\ known[Conn]["dial"] = Agreed(key[Conn], p, q)
    BY <2>1, <2>3 DEF HandInv, HandOK
  <2>5. key[Conn].listen = key[Conn].want
    BY <2>1, <2>3 DEF HandInv, HandOK
  <2>6. /\ known[Conn]["listen"].sec = ListenSec(key[Conn], p, q)
        /\ known[Conn]["dial"].sec = DialSec(key[Conn], p, q)
    BY <2>4 DEF ListenKnows, Agreed, DialKnows
  <2> QED BY <2>5, <2>6 DEF ListenSec, DialSec
<1> QED BY ConnInvariant, <1>1, PTL

\* The handshake fails only if something went wrong on the way or another node answered,
\* for every padding sealEIP8 may draw.
THEOREM RefusalsAreReal == ConnSpec => []NoSpuriousRefusal
<1>1. ConnInv => NoSpuriousRefusal
  <2> SUFFICES ASSUME ConnInv, pc[Conn]["dial"] = "failed" \/ pc[Conn]["listen"] = "failed"
               PROVE  faults > 0 \/ key[Conn].listen # key[Conn].want
    BY DEF NoSpuriousRefusal, Handshake!NoSpuriousFailure, Handshake!Sides
  <2> QED BY DEF ConnInv, HandInv, HandOK
<1> QED BY ConnInvariant, <1>1, PTL

\* The count of readData does not wrap on a connection either, for all the constants.
THEOREM ConnCountNeverWraps == ConnSpec => []NoWrap
<1>1. ConnInv => NoWrap
  BY InvNoWrap DEF ConnInv
<1> QED BY ConnInvariant, <1>1, PTL

\* On a connection a Read or a Write fails only after a fault: a seller that is left
\* by its buyer is left because the last packet of the handshake was lost or damaged.
THEOREM ConnFailuresHaveFaults == ConnSpec => []NoSpuriousFailure
<1>1. ConnInv => NoSpuriousFailure
  BY DEF ConnInv, Inv, FaultInv, NoSpuriousFailure
<1> QED BY ConnInvariant, <1>1, PTL

\* A connection, from the dial to its last message, implements the channel of
\* net/node.go: no step of the handshake, and no failure of it, shows there.
THEOREM ConnIsChannel == ConnSpec => IsChannel
<1>1. ConnInit => Channel!Init
  BY ChannelInit DEF ConnInit
<1>2. ConnInv /\ [ConnNext]_connVars => [Channel!Next]_Channel!chan
  BY ConnStep
<1> QED BY <1>1, <1>2, ConnInvariant, PTL DEF ConnSpec, IsChannel, Channel!Spec
=============================================================================
