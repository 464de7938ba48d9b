----------------------------- MODULE DnsMessage -----------------------------
(***************************************************************************)
(* The mDNS probe's codec: build_query writes its own questions, and       *)
(* parse_message, with decode_name and decode_rdata, reads whatever a      *)
(* packet contains.  Offsets count from 0, as in the code.                 *)
(***************************************************************************)
EXTENDS Integers, SequencesExt

CONSTANTS
  Bytes,         \* the bytes of a packet
  MaxLen,        \* bound of an arbitrary packet's length
  MaxCount,      \* bound of the header's record counts
  HeaderLen,     \* 12; the counts are a variable of their own
  QuestionTail,  \* 4: type and class
  RecordHead,    \* 10: type first, length of the data last; both one byte here
  MaxHops,       \* 20
  Ptr, Srv,      \* the types whose data holds a name
  SrvHead,       \* 6: what comes before the name in the data of an Srv
  Queries        \* sequences of names to ask for; a name is a sequence of labels

ASSUME BytesAssumption == Bytes \subseteq 0 .. 255
ASSUME SizesAssumption ==
  /\ MaxLen \in Nat /\ MaxCount \in Nat /\ HeaderLen \in Nat /\ MaxHops \in Nat
  /\ SrvHead \in Nat /\ QuestionTail \in Nat \ {0, 1} /\ RecordHead \in Nat \ {0, 1}

VARIABLES
  buf,   \* the packet
  count, \* its header: how many questions, and records of the other sections
  off,   \* parse_message's offset
  at,    \* what it reads: "questions" or "answers"; "done"
  name,  \* decode_name's locals.  for: what it was called for
  read   \* the Records so far

dvars == <<buf, count, off, at, name, read>>

Byte(o) == buf[o + 1]
IsPointer(o) == Byte(o) >= 192
Slice(o, n) == SubSeq(buf, o + 1, IF o + n <= Len(buf) THEN o + n ELSE Len(buf))

-----------------------------------------------------------------------------
(* Queries. *)

\* What encode_name lets through (mdns_probe.py:91), the empty label too.
Fitting == {label \in Seq(0 .. 255) : Len(label) <= 63}
ASSUME QueriesAssumption == Ptr \in 0 .. 255 /\ Queries \subseteq Seq(Seq(Fitting))

\* Mutation: nothing terminates a name.
Unterminated(labels) ==
  FlattenSeq([i \in DOMAIN labels |-> <<Len(labels[i])>> \o labels[i]])

EncodeName(labels) ==
  FlattenSeq([i \in DOMAIN labels |-> <<Len(labels[i])>> \o labels[i]]) \o <<0>>

BuildQuery(names) ==
  [i \in 1 .. HeaderLen |-> 0] \o
  FlattenSeq([i \in DOMAIN names |->
                EncodeName(names[i]) \o [j \in 1 .. QuestionTail |-> Ptr]])

-----------------------------------------------------------------------------
(* decode_name. *)

Idle == [for |-> "nothing", start |-> 0, at |-> 0, end |-> 0, labels |-> <<>>,
         hops |-> 0, ended |-> TRUE]
DecodeName(for, o) == [for |-> for, start |-> o, at |-> o, end |-> o, labels |-> <<>>,
                       hops |-> 0, ended |-> FALSE]

Decoding == ~name.ended
Past == name.at >= Len(buf)
CutPointer == name.at + 1 >= Len(buf)

\* Mutation: the end moves with the offset, also after a jump.
EndMoves(o) == o

\* The name ends in its own place, before the first jump.
EndInPlace(o) == IF name.hops = 0 THEN o ELSE name.end

\* Out of the packet, in the middle of a pointer, or at the terminator.
NameEnds ==
  /\ Decoding
  /\ \/ Past /\ name' = [name EXCEPT !.ended = TRUE]
     \/ /\ ~Past /\ Byte(name.at) = 0
        /\ name' = [name EXCEPT !.ended = TRUE, !.end = EndInPlace(name.at + 1)]
     \/ /\ ~Past /\ IsPointer(name.at) /\ CutPointer
        /\ name' = [name EXCEPT !.ended = TRUE]
  /\ UNCHANGED <<buf, count, off, at, read>>

Target(o) == (Byte(o) % 64) * 256 + Byte(o + 1)

\* Mutation: every jump is allowed.
NeverTooMany(hops) == FALSE
TooMany(hops) == hops > MaxHops

\* Mutation: the jumps are not counted.
NotCounted(hops) == hops
Counted(hops) == hops + 1

FollowPointer ==
  /\ Decoding /\ ~Past /\ IsPointer(name.at) /\ ~CutPointer
  /\ name' = [name EXCEPT !.at = Target(name.at), !.end = EndInPlace(name.at + 2),
                          !.hops = Counted(@), !.ended = TooMany(Counted(name.hops))]
  /\ UNCHANGED <<buf, count, off, at, read>>

\* A label may be cut by the end of the packet.
TakeLabel ==
  /\ Decoding /\ ~Past /\ Byte(name.at) # 0 /\ ~IsPointer(name.at)
  /\ LET after == name.at + 1 + Byte(name.at) IN
     name' = [name EXCEPT !.at = after, !.end = EndInPlace(after),
                          !.labels = Append(@, Slice(name.at + 1, Byte(name.at)))]
  /\ UNCHANGED <<buf, count, off, at, read>>

-----------------------------------------------------------------------------
(* parse_message. *)

DInit ==
  /\ \/ /\ buf \in BoundedSeq(Bytes, MaxLen)
        /\ count \in [questions : 0 .. MaxCount, answers : 0 .. MaxCount]
     \/ \E q \in Queries : buf = BuildQuery(q) /\ count = [questions |-> Len(q), answers |-> 0]
  /\ off = HeaderLen
  /\ at = IF Len(buf) < HeaderLen THEN "done" ELSE "questions"
  /\ name = Idle /\ read = <<>>

Reads(section) == at = section /\ name.for = "nothing"

BeginQuestion ==
  /\ Reads("questions") /\ Len(read) < count.questions
  /\ name' = DecodeName("question", off)
  /\ UNCHANGED <<buf, count, off, at, read>>

BeginAnswer ==
  /\ Reads("answers") /\ Len(read) < count.questions + count.answers /\ off < Len(buf)
  /\ name' = DecodeName("answer", off)
  /\ UNCHANGED <<buf, count, off, at, read>>

SectionRead ==
  /\ \/ Reads("questions") /\ Len(read) = count.questions /\ at' = "answers"
     \/ /\ Reads("answers") /\ at' = "done"
        /\ Len(read) = count.questions + count.answers \/ off >= Len(buf)
  /\ UNCHANGED <<buf, count, off, name, read>>

Record(section, type) == [section |-> section, start |-> name.start, labels |-> name.labels,
                          type |-> type, data |-> <<>>]

\* Mutation: what follows the name may begin in the packet and end outside.
StartsIn(width) == name.end < Len(buf)

\* What follows the name is in the packet.
Fits(width) == name.end + width <= Len(buf)

EndQuestion ==
  /\ name.for = "question" /\ name.ended /\ name' = Idle
  /\ \/ /\ ~Fits(QuestionTail) /\ at' = "done"
        /\ UNCHANGED <<off, read>>
     \/ /\ Fits(QuestionTail)
        /\ read' = Append(read, Record("question", Byte(name.end)))
        /\ off' = name.end + QuestionTail
        /\ UNCHANGED at
  /\ UNCHANGED <<buf, count>>

\* decode_rdata: only Ptr and Srv go back to the packet.
DataName(type, o, len) ==
  IF type = Ptr THEN DecodeName("data", o)
  ELSE IF type = Srv /\ Len(Slice(o, len)) >= SrvHead THEN DecodeName("data", o + SrvHead)
  ELSE Idle

EndAnswer ==
  /\ name.for = "answer" /\ name.ended
  /\ \/ /\ ~Fits(RecordHead) /\ at' = "done" /\ name' = Idle
        /\ UNCHANGED <<off, read>>
     \/ /\ Fits(RecordHead)
        /\ LET type == Byte(name.end)
               data == name.end + RecordHead
               len  == Byte(data - 1) IN
           /\ name' = DataName(type, data, len)
           /\ read' = Append(read, Record("answer", type))
           /\ off' = data + len
        /\ UNCHANGED at
  /\ UNCHANGED <<buf, count>>

EndData ==
  /\ name.for = "data" /\ name.ended /\ name' = Idle
  /\ read' = [read EXCEPT ![Len(read)].data = name.labels]
  /\ UNCHANGED <<buf, count, off, at>>

DNext ==
  \/ NameEnds \/ FollowPointer \/ TakeLabel
  \/ BeginQuestion \/ BeginAnswer \/ SectionRead
  \/ EndQuestion \/ EndAnswer \/ EndData

DSpec == DInit /\ [][DNext]_dvars /\ WF_dvars(DNext)

-----------------------------------------------------------------------------
\* The names at each offset, following at most so many pointers, as RFC 1035
\* defines them by structure.
Expansion[place \in (0 .. MaxHops) \X Nat] ==
  LET hops == place[1]
      o    == place[2] IN
  IF o >= Len(buf) \/ Byte(o) = 0 THEN <<>>
  ELSE IF IsPointer(o)
       THEN IF hops = 0 \/ o + 1 >= Len(buf) THEN <<>>
            ELSE Expansion[<<hops - 1, Target(o)>>]
       ELSE <<Slice(o + 1, Byte(o))>> \o Expansion[<<hops, o + 1 + Byte(o)>>]

\* Where the name at an offset ends in its own bytes, which a pointer ends too; -1
\* if the packet cuts them.  (What a pointer leads to may be cut all the same.)
NameEnd[o \in Nat] ==
  IF o >= Len(buf) THEN -1
  ELSE IF Byte(o) = 0 THEN o + 1
  ELSE IF IsPointer(o) THEN IF o + 1 >= Len(buf) THEN -1 ELSE o + 2
  ELSE NameEnd[o + 1 + Byte(o)]

Labels == Seq(Seq(0 .. 255))
Names == [for : {"nothing", "question", "answer", "data"}, start : Nat, at : Nat, end : Nat,
          labels : Labels, hops : 0 .. MaxHops + 1, ended : BOOLEAN]
Records == [section : {"question", "answer"}, start : Nat, labels : Labels,
            type : 0 .. 255, data : Labels]

\* Types; and no more than one jump over the limit is made.
DTypeOK ==
  /\ buf \in Seq(0 .. 255) /\ off \in Nat /\ at \in {"questions", "answers", "done"}
  /\ count \in [questions : Nat, answers : Nat]
  /\ name \in Names /\ (name.for = "nothing" => name.ended)
  /\ read \in Seq(Records)

\* mdns_probe.py:97-129: whatever the pointers do, a name is its labels up to
\* where it is cut or one pointer too many, and ends after its own bytes.
NamesDecoded ==
  name.for # "nothing" /\ name.ended =>
    /\ name.labels = Expansion[<<MaxHops, name.start>>]
    /\ NameEnd[name.start] # -1 => name.end = NameEnd[name.start]

\* mdns_probe.py:162 and 173: a record's own name that the packet cuts before its
\* first pointer makes no record, although decode_name returns what it has read of it
\* and an offset.  (A name cut where a pointer leads to, and one cut in the data of a
\* PTR or SRV, are in the records as far as they were read.)
NameCutInPlaceYieldsNothing == \A i \in DOMAIN read : NameEnd[read[i].start] # -1

\* However many records the header claims, each one returned has had room for
\* a name and its fixed part in the packet, and none overlaps the one before.
EndOf(r) ==
  r.start + 1 + IF r.section = "question" THEN QuestionTail ELSE RecordHead
RecordsTakeRoom ==
  \A i \in DOMAIN read :
    /\ EndOf(read[i]) <= Len(buf)
    /\ i < Len(read) => EndOf(read[i]) <= read[i + 1].start

\* mdns_probe.py:87-139: what the probe asks, it would read back, if no label is
\* empty: decode_name takes an empty one for the end of the name.
NoEmptyLabel(q) == \A i \in DOMAIN q : \A j \in DOMAIN q[i] : q[i][j] # <<>>
QueriesParseBack ==
  \A q \in Queries :
    NoEmptyLabel(q) /\ at = "done" /\ buf = BuildQuery(q) /\ count.questions = Len(q) =>
      Len(read) = Len(q) /\ \A i \in DOMAIN q : read[i].labels = q[i]

\* mdns_probe.py:121: a packet with pointers in a circle is left behind too.
ParsingEnds == <>(at = "done")
=============================================================================
