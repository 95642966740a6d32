-------------------------- MODULE ScalarStreamProofs --------------------------
(***************************************************************************)
(* The inductive invariant of ScalarStream, and what follows from it for   *)
(* any number of channels, records, kept answers and failures.             *)
(***************************************************************************)
EXTENDS ScalarStream, SequenceTheorems, FiniteSetTheorems, TLAPS

\* A chunk tells the truth about the worker's file.
Faithful(chunk, c) ==
  /\ End(chunk) <= Len(source[c])
  /\ \A i \in 1..Len(chunk.raw) : chunk.raw[i] = source[c][chunk.offset + i]
  /\ chunk.complete => ended = TRUE /\ torn[c] = FALSE /\ End(chunk) = Len(source[c])

MirrorInv ==
  /\ \A c \in Channels :
       /\ Cursor(c) <= Len(data[c])
       /\ Cursor(c) <= Len(source[c])
       /\ \A i \in 1..Cursor(c) : data[c][i] = source[c][i]
       /\ cursors[c].complete => ended = TRUE /\ torn[c] = FALSE /\ Cursor(c) = Len(source[c])
  /\ opened = FALSE => \A c \in Channels : data[c] = <<>>

KeptInv == \A response \in kept : \A c \in Channels : Faithful(response[c], c)

\* While the driver waits for an answer its cursors do not move.  Of a
\* completed channel the answer says that it is complete.
ReaderInv ==
  reader # Idle =>
    /\ receiver = Idle
    /\ reader.left = {} <=> reader.at = "answer"
    /\ reader.at = "results" => reader.sized = {}
    /\ reader.terminal => ended = TRUE
    /\ \A c \in Channels :
         /\ reader.from[c] = Cursor(c)
         /\ reader.at # "results" /\ cursors[c].complete => reader.terminal
         /\ c \in reader.sized => /\ c \in reader.left
                                  /\ reader.size[c] <= Bytes(c)
                                  /\ reader.terminal => reader.size[c] = Bytes(c)
         /\ c \notin reader.left =>
              /\ Faithful(reader.chunk[c], c)
              /\ reader.chunk[c].offset = Cursor(c)
              /\ cursors[c].complete => /\ reader.chunk[c].size = 2 * Cursor(c)
                                        /\ reader.chunk[c].complete

\* What is appended and what is left make up the chunk.
ReceiverInv ==
  receiver # Idle =>
    /\ receiver.at = "append" => opened = TRUE
    /\ \A c \in Channels :
         /\ Faithful(receiver.response[c], c)
         /\ receiver.response[c].offset = Cursor(c) =>
              /\ cursors[c].complete => receiver.response[c].complete
              /\ Len(data[c]) + Len(receiver.rest[c]) = End(receiver.response[c])
              /\ \A i \in 1..Len(data[c]) : data[c][i] = source[c][i]
              /\ \A i \in 1..Len(receiver.rest[c]) :
                   receiver.rest[c][i] = source[c][Len(data[c]) + i]

RoomInv == \A c \in Channels : torn[c] => Len(source[c]) < MaxRecords

IInv == TypeOK /\ RoomInv /\ MirrorInv /\ KeptInv /\ ReaderInv /\ ReceiverInv
-----------------------------------------------------------------------------
(* Sequences.                                                              *)

LEMMA Cut ==
  ASSUME NEW S, NEW s \in Seq(S), NEW n \in 0..Len(s)
  PROVE  /\ SubSeq(s, 1, n) \in Seq(S)
         /\ Len(SubSeq(s, 1, n)) = n
         /\ \A i \in 1..n : SubSeq(s, 1, n)[i] = s[i]
<1>1. \A i \in 1..n : s[i] \in S
  BY ElementOfSeq
<1> QED
  BY <1>1, SubSeqProperties

(* Two sequences that agree up to n have the same beginning.               *)
LEMMA SameCut ==
  ASSUME NEW S, NEW s \in Seq(S), NEW t \in Seq(S), NEW n \in Nat,
         n <= Len(s), n <= Len(t), \A i \in 1..n : s[i] = t[i]
  PROVE  SubSeq(s, 1, n) = SubSeq(t, 1, n)
<1>1. n \in 0..Len(s) /\ n \in 0..Len(t)
  BY LenProperties
<1>2. /\ SubSeq(s, 1, n) \in Seq(S) /\ Len(SubSeq(s, 1, n)) = n
      /\ \A i \in 1..n : SubSeq(s, 1, n)[i] = s[i]
  BY <1>1, Cut
<1>3. /\ SubSeq(t, 1, n) \in Seq(S) /\ Len(SubSeq(t, 1, n)) = n
      /\ \A i \in 1..n : SubSeq(t, 1, n)[i] = t[i]
  BY <1>1, Cut
<1>4. \A i \in 1..Len(SubSeq(s, 1, n)) : SubSeq(s, 1, n)[i] = SubSeq(t, 1, n)[i]
  BY <1>2, <1>3
<1> QED
  BY <1>2, <1>3, <1>4, SeqEqual

(* The mirror after a truncation.                                          *)
LEMMA Truncation ==
  ASSUME TypeOK, MirrorInv, NEW c \in Channels
  PROVE  /\ Truncated(c) \in Seq(Records)
         /\ Len(Truncated(c)) = Cursor(c)
         /\ \A i \in 1..Cursor(c) : Truncated(c)[i] = data[c][i]
<1>1. data[c] \in Seq(Records) /\ Cursor(c) \in 0..Len(data[c])
  BY StreamAssumption, LenProperties DEF TypeOK, MirrorInv, Offset, Cursor
<1> QED
  BY <1>1, Cut DEF Truncated

(* What read_chunk returns, from the cursor on.                            *)
LEMMA RawChunk ==
  ASSUME TypeOK, ReaderInv, MirrorInv, NEW c \in Channels, reader.at = "read"
  PROVE  /\ Raw(c) \in Seq(Records)
         /\ reader.from[c] + Len(Raw(c)) <= Len(source[c])
         /\ \A i \in 1..Len(Raw(c)) : Raw(c)[i] = source[c][reader.from[c] + i]
<1> DEFINE f == reader.from[c]
           n == Smaller(Len(source[c]), f + ChunkRecords)
<1>1. reader # Idle /\ reader \in Reading
  BY DEF TypeOK, Idle
<1>2. source[c] \in Seq(Records) /\ Len(source[c]) \in Nat /\ f \in Nat /\ f <= Len(source[c])
  BY <1>1, LenProperties, StreamAssumption
     DEF TypeOK, Reading, Offset, ReaderInv, MirrorInv, Cursor
<1>3. n \in Nat /\ f <= n /\ n <= Len(source[c])
  BY <1>2, StreamAssumption DEF Smaller
<1>4. CASE reader.size[c] = 0
  BY <1>2, <1>4, EmptySeq DEF Raw
<1>5. CASE reader.size[c] # 0
  <2>1. Raw(c) = SubSeq(source[c], f + 1, n)
    BY <1>5 DEF Raw
  <2>2. \A i \in f + 1..n : source[c][i] \in Records
    BY <1>2, <1>3, ElementOfSeq
  <2>3. f + 1 \in Int /\ n \in Int
    BY <1>2, <1>3
  <2> HIDE DEF n, f
  <2>4. /\ SubSeq(source[c], f + 1, n) \in Seq(Records)
        /\ Len(SubSeq(source[c], f + 1, n)) = IF f + 1 <= n THEN n - (f + 1) + 1 ELSE 0
        /\ \A i \in 1..n - (f + 1) + 1 : SubSeq(source[c], f + 1, n)[i] = source[c][f + 1 + i - 1]
    BY <2>2, <2>3, SubSeqProperties
  <2>5. Len(Raw(c)) = n - f
    BY <2>1, <2>4, <1>2, <1>3
  <2>6. \A i \in 1..n - f : Raw(c)[i] = source[c][f + i]
    BY <2>1, <2>4, <1>2, <1>3
  <2>7. f + Len(Raw(c)) <= Len(source[c])
    BY <2>5, <1>2, <1>3
  <2> QED
    BY <2>1, <2>4, <2>5, <2>6, <2>7 DEF f
<1> QED
  BY <1>4, <1>5

-----------------------------------------------------------------------------
(* The worker's files only grow, and not at all once the Run has ended.    *)
Growth ==
  \A c \in Channels :
    /\ Len(source[c]) <= Len(source'[c])
    /\ \A i \in 1..Len(source[c]) : source'[c][i] = source[c][i]
    /\ torn[c] => torn'[c] \/ Len(source[c]) < Len(source'[c])
    /\ ended = TRUE => ended' = TRUE /\ source'[c] = source[c] /\ torn'[c] = torn[c]

LEMMA WorkerGrows ==
  ASSUME TypeOK, TypeOK',
         \/ \E c \in Channels : BeginRecord(c)
         \/ \E c \in Channels, r \in Records : FinishRecord(c, r)
         \/ PublishResult
         \/ UNCHANGED worker
  PROVE  Growth
<1>1. \A c \in Channels : source[c] \in Seq(Records) /\ Len(source[c]) \in Nat
  BY LenProperties DEF TypeOK
<1>2. ASSUME NEW c \in Channels, BeginRecord(c) PROVE Growth
  <2>1. source' = source /\ ended' = ended /\ ended = FALSE /\ torn[c] = FALSE
        /\ torn' = [torn EXCEPT ![c] = TRUE]
    BY <1>2 DEF BeginRecord, TypeOK
  <2>2. \A d \in Channels : torn[d] => torn'[d]
    BY <2>1 DEF TypeOK
  <2>3. \A d \in Channels : Len(source[d]) <= Len(source'[d])
    BY <1>1, <2>1
  <2> QED
    BY <2>1, <2>2, <2>3 DEF Growth
<1>3. ASSUME NEW c \in Channels, NEW r \in Records, FinishRecord(c, r) PROVE Growth
  <2>1. /\ Len(Append(source[c], r)) = Len(source[c]) + 1
        /\ \A i \in 1..Len(source[c]) : Append(source[c], r)[i] = source[c][i]
    BY <1>1, AppendProperties
  <2>2. source' = [source EXCEPT ![c] = Append(source[c], r)] /\ torn[c] /\ ended = FALSE
        /\ torn' = [torn EXCEPT ![c] = FALSE]
    BY <1>3 DEF FinishRecord, TypeOK
  <2>3. \A d \in Channels : IF d = c THEN source'[d] = Append(source[d], r) ELSE source'[d] = source[d]
    BY <2>2 DEF TypeOK
  <2>4. \A d \in Channels : IF d = c THEN torn'[d] = FALSE ELSE torn'[d] = torn[d]
    BY <2>2 DEF TypeOK
  <2>5. \A d \in Channels : Len(source[d]) <= Len(source'[d])
    BY <2>1, <2>3, <1>1
  <2>6. \A d \in Channels : \A i \in 1..Len(source[d]) : source'[d][i] = source[d][i]
    BY <2>1, <2>3
  <2>7. \A d \in Channels : torn[d] => torn'[d] \/ Len(source[d]) < Len(source'[d])
    BY <2>1, <2>3, <2>4, <1>1
  <2> QED
    BY <2>2, <2>5, <2>6, <2>7 DEF Growth
<1>4. ASSUME PublishResult PROVE Growth
  <2>1. source' = source /\ torn' = torn /\ ended' = TRUE /\ ended = FALSE
    BY <1>4 DEF PublishResult, TypeOK
  <2> QED
    BY <1>1, <2>1 DEF Growth
<1>5. ASSUME UNCHANGED worker PROVE Growth
  <2>1. source' = source /\ torn' = torn /\ ended' = ended
    BY <1>5 DEF worker
  <2> QED
    BY <1>1, <2>1 DEF Growth
<1> QED
  BY <1>2, <1>3, <1>4, <1>5

(* What was true of a chunk stays true.                                    *)
LEMMA FaithfulStays ==
  ASSUME TypeOK, TypeOK', Growth, NEW c \in Channels, NEW chunk \in Chunk, Faithful(chunk, c)
  PROVE  Faithful(chunk, c)'
<1>1. chunk.raw \in Seq(Records) /\ Len(chunk.raw) \in Nat /\ chunk.offset \in Nat
  BY LenProperties, StreamAssumption DEF Chunk, Offset
<1>2. Len(source[c]) \in Nat /\ Len(source[c]) <= Len(source'[c])
  BY LenProperties DEF TypeOK, Growth
<1>3. chunk.complete => ended' = TRUE /\ source'[c] = source[c] /\ torn'[c] = torn[c]
  BY DEF Faithful, Growth
<1>4. \A i \in 1..Len(chunk.raw) : chunk.offset + i \in 1..Len(source[c])
  BY <1>1, <1>2 DEF Faithful, End
<1>5. \A i \in 1..Len(chunk.raw) : chunk.raw[i] = source'[c][chunk.offset + i]
  BY <1>4 DEF Faithful, Growth
<1>6. End(chunk) <= Len(source'[c])
  <2>1. End(chunk) <= Len(source[c]) /\ End(chunk) \in Nat
    BY <1>1 DEF Faithful, End
  <2>2. Len(source'[c]) \in Nat
    BY LenProperties DEF TypeOK
  <2> QED
    BY <2>1, <2>2, <1>2
<1> QED
  BY <1>3, <1>5, <1>6 DEF Faithful

-----------------------------------------------------------------------------
(* Types.                                                                  *)

LEMMA EndIsOffset ==
  ASSUME TypeOK, NEW c \in Channels, NEW chunk \in Chunk, Faithful(chunk, c)
  PROVE  End(chunk) \in Offset
<1>1. Len(chunk.raw) \in Nat /\ chunk.offset \in Nat /\ Len(source[c]) \in Nat
  BY LenProperties, StreamAssumption DEF TypeOK, Chunk, Offset
<1> QED
  BY <1>1, StreamAssumption DEF TypeOK, Faithful, End, Offset

LEMMA TruncatedType ==
  ASSUME TypeOK, MirrorInv
  PROVE  [c \in Channels |-> Truncated(c)] \in [Channels -> Seq(Records)]
<1>1. \A c \in Channels : Truncated(c) \in Seq(Records)
  BY Truncation
<1> QED
  BY <1>1

LEMMA KeepType ==
  ASSUME TypeOK, NEW response \in Response, Keep(response)
  PROVE  kept' \subseteq Response /\ IsFiniteSet(kept')
<1>1. kept' = kept \/ kept' = kept \union {response}
  BY DEF Keep
<1>2. kept \subseteq Response /\ IsFiniteSet(kept)
  BY DEF TypeOK
<1>3. IsFiniteSet(kept \union {response})
  BY <1>2, FS_AddElement
<1> QED
  BY <1>1, <1>2, <1>3

LEMMA AcceptType ==
  ASSUME TypeOK, MirrorInv, NEW response \in Response, Ingest(response)
  PROVE  /\ data' \in [Channels -> Seq(Records)]
         /\ receiver' \in Ingesting \union {Idle}
         /\ UNCHANGED <<worker, cursors, opened, stable>>
<1>1. CASE Accept(response)
  <2>1. data' \in [Channels -> Seq(Records)]
    BY <1>1, TruncatedType DEF Accept
  <2>2. \A c \in Channels : Rest(response[c], c) \in Seq(Records)
    BY EmptySeq DEF Rest, Response, Chunk
  <2>3. receiver' \in Ingesting
    BY <1>1, <2>2 DEF Accept, Ingesting
  <2> QED
    BY <1>1, <2>1, <2>3 DEF Accept
<1>2. CASE Refuse(response)
  <2>1. \A c \in Channels : Truncated(c) \in Seq(Records)
    BY Truncation
  <2>2. data' \in [Channels -> Seq(Records)]
    BY <1>2, <2>1 DEF Refuse, TypeOK
  <2> QED
    BY <1>2, <2>2 DEF Refuse, TypeOK
<1> QED
  BY <1>1, <1>2 DEF Ingest

LEMMA TypeStep == IInv /\ [Next]_vars => TypeOK'
<1> SUFFICES ASSUME IInv, [Next]_vars PROVE TypeOK'
  OBVIOUS
<1> USE DEF worker, mirror
<1>0. TypeOK
  BY DEF IInv
<1>1. ASSUME NEW c \in Channels, BeginRecord(c) PROVE TypeOK'
  BY <1>0, <1>1 DEF BeginRecord, TypeOK
<1>2. ASSUME NEW c \in Channels, NEW r \in Records, FinishRecord(c, r) PROVE TypeOK'
  <2>1. /\ Append(source[c], r) \in Seq(Records)
        /\ Len(Append(source[c], r)) = Len(source[c]) + 1
    BY <1>0, AppendProperties DEF TypeOK
  <2>2. Len(source[c]) + 1 <= MaxRecords
    BY <1>0, <1>2, LenProperties, StreamAssumption DEF IInv, RoomInv, FinishRecord, TypeOK
  <2>3. source' \in [Channels -> Seq(Records)]
    BY <1>0, <1>2, <2>1 DEF FinishRecord, TypeOK
  <2>4. \A d \in Channels : Len(source'[d]) <= MaxRecords
    BY <1>0, <1>2, <2>1, <2>2 DEF FinishRecord, TypeOK
  <2> QED
    BY <1>0, <1>2, <2>3, <2>4 DEF FinishRecord, TypeOK
<1>3. ASSUME PublishResult PROVE TypeOK'
  BY <1>0, <1>3 DEF PublishResult, TypeOK
<1>4. ASSUME Request PROVE TypeOK'
  <2>1. data' \in [Channels -> Seq(Records)]
    BY <1>0, <1>4, TruncatedType DEF Request, IInv
  <2>2. NoChunk \in Chunk
    BY StreamAssumption, EmptySeq DEF NoChunk, Chunk, Offset
  <2>3. reader' \in Reading
    BY <1>0, <1>4, <2>2 DEF Request, Reading, Response, Cursor, TypeOK
  <2> QED
    BY <1>0, <1>4, <2>1, <2>3 DEF Request, TypeOK
<1>5. ASSUME ReadResults PROVE TypeOK'
  <2>1. reader \in Reading
    BY <1>0, <1>5 DEF ReadResults, TypeOK, Idle
  <2>2. reader' \in Reading
    BY <1>0, <1>5, <2>1 DEF ReadResults, TypeOK, Reading
  <2> QED
    BY <1>0, <1>5, <2>2 DEF ReadResults, TypeOK
<1>6. ASSUME NEW c \in Channels, ReadSize(c) PROVE TypeOK'
  <2>1. reader \in Reading
    BY <1>0, <1>6 DEF ReadSize, TypeOK, Idle
  <2>2. Bytes(c) \in Nat
    BY <1>0, LenProperties DEF Bytes, TypeOK
  <2>3. reader' \in Reading
    BY <1>6, <2>1, <2>2 DEF ReadSize, Reading
  <2> QED
    BY <1>0, <1>6, <2>3 DEF ReadSize, TypeOK
<1>7. ASSUME NEW c \in Channels, ReadRaw(c) PROVE TypeOK'
  <2>1. reader \in Reading /\ reader.at = "read"
    BY <1>0, <1>7 DEF ReadRaw, TypeOK, Idle
  <2>2. Raw(c) \in Seq(Records)
    BY <1>0, <2>1, RawChunk DEF IInv
  <2>3. Whole(c) \in BOOLEAN
    BY <2>1 DEF Whole, Terminated, Reading
  <2>4. [offset |-> reader.from[c], raw |-> Raw(c), size |-> reader.size[c],
         complete |-> Whole(c)] \in Chunk
    BY <2>1, <2>2, <2>3 DEF Reading, Chunk
  <2>5. reader' \in Reading
    BY <1>7, <2>1, <2>4 DEF ReadRaw, Reading, Response
  <2> QED
    BY <1>0, <1>7, <2>5 DEF ReadRaw, TypeOK
<1>8. ASSUME NEW c \in Channels, ReadFails(c) PROVE TypeOK'
  BY <1>0, <1>8 DEF ReadFails, TypeOK
<1>9. ASSUME Lose PROVE TypeOK'
  <2>1. kept' \subseteq Response /\ IsFiniteSet(kept')
    <3>1. reader \in Reading
      BY <1>0, <1>9 DEF Lose, TypeOK
    <3>2. reader.chunk \in Response
      BY <3>1 DEF Reading
    <3>3. CASE reader.at = "answer"
      BY <1>0, <1>9, <3>2, <3>3, KeepType DEF Lose
    <3>4. CASE reader.at # "answer"
      BY <1>0, <1>9, <3>4 DEF Lose, TypeOK
    <3> QED
      BY <3>3, <3>4
  <2> QED
    BY <1>0, <1>9, <2>1 DEF Lose, TypeOK
<1>10. ASSUME IngestAnswer PROVE TypeOK'
  <2>1. reader.chunk \in Response
    BY <1>0, <1>10 DEF IngestAnswer, TypeOK, Idle, Reading
  <2>2. kept' \subseteq Response /\ IsFiniteSet(kept')
    BY <1>0, <1>10, <2>1, KeepType DEF IngestAnswer
  <2>3. /\ data' \in [Channels -> Seq(Records)]
        /\ receiver' \in Ingesting \union {Idle}
        /\ UNCHANGED <<worker, cursors, opened, stable>>
    BY <1>10, <2>1, AcceptType DEF IngestAnswer, IInv
  <2> QED
    BY <1>0, <1>10, <2>2, <2>3 DEF IngestAnswer, TypeOK
<1>11. ASSUME IngestKept PROVE TypeOK'
  <2>1. PICK response \in kept : Ingest(response)
    BY <1>11 DEF IngestKept
  <2>2. response \in Response
    BY <1>0 DEF TypeOK
  <2>3. /\ data' \in [Channels -> Seq(Records)]
        /\ receiver' \in Ingesting \union {Idle}
        /\ UNCHANGED <<worker, cursors, opened, stable>>
    BY <2>1, <2>2, AcceptType DEF IInv
  <2> QED
    BY <1>0, <1>11, <2>3 DEF IngestKept, TypeOK
<1>12. ASSUME Open PROVE TypeOK'
  <2>1. receiver \in Ingesting
    BY <1>0, <1>12 DEF Open, TypeOK, Idle
  <2>2. receiver' \in Ingesting
    BY <1>12, <2>1 DEF Open, Ingesting
  <2> QED
    BY <1>0, <1>12, <2>2 DEF Open, TypeOK
<1>13. ASSUME NEW c \in Channels, AppendRecord(c) PROVE TypeOK'
  <2>1. receiver \in Ingesting
    BY <1>0, <1>13 DEF AppendRecord, TypeOK, Idle
  <2>2. receiver.rest[c] \in Seq(Records) /\ receiver.rest[c] # <<>>
    BY <1>13, <2>1 DEF AppendRecord, Ingesting
  <2>3. Head(receiver.rest[c]) \in Records /\ Tail(receiver.rest[c]) \in Seq(Records)
    BY <2>2, HeadTailProperties
  <2>4. Append(data[c], Head(receiver.rest[c])) \in Seq(Records)
    BY <1>0, <2>3, AppendProperties DEF TypeOK
  <2>5. data' \in [Channels -> Seq(Records)]
    BY <1>0, <1>13, <2>4 DEF AppendRecord, TypeOK
  <2>6. receiver' \in Ingesting
    BY <1>13, <2>1, <2>3 DEF AppendRecord, Ingesting
  <2> QED
    BY <1>0, <1>13, <2>5, <2>6 DEF AppendRecord, TypeOK
<1>14. ASSUME Commit PROVE TypeOK'
  <2>1. receiver \in Ingesting
    BY <1>0, <1>14 DEF Commit, TypeOK, Idle
  <2>2. ASSUME NEW c \in Channels PROVE Moved(receiver.response[c], c) \in [offset : Offset, complete : BOOLEAN]
    <3>1. receiver.response[c] \in Chunk
      BY <2>1 DEF Ingesting, Response
    <3>2. receiver # Idle
      BY <1>14 DEF Commit, Idle
    <3>3. Faithful(receiver.response[c], c)
      BY <3>2 DEF IInv, ReceiverInv
    <3>4. End(receiver.response[c]) \in Offset
      BY <1>0, <3>1, <3>3, EndIsOffset
    <3> QED
      BY <1>0, <3>1, <3>4 DEF Moved, Chunk, TypeOK
  <2>3. cursors' \in [Channels -> [offset : Offset, complete : BOOLEAN]]
    BY <1>14, <2>2 DEF Commit
  <2> QED
    BY <1>0, <1>14, <2>3 DEF Commit, TypeOK
<1>15. ASSUME Crash PROVE TypeOK'
  BY <1>0, <1>15 DEF Crash, TypeOK
<1>16. ASSUME Settle PROVE TypeOK'
  BY <1>0, <1>16 DEF Settle, TypeOK
<1>17. CASE UNCHANGED vars
  BY <1>0, <1>17 DEF vars, TypeOK
<1> QED
  BY <1>1, <1>2, <1>3, <1>4, <1>5, <1>6, <1>7, <1>8, <1>9, <1>10, <1>11,
     <1>12, <1>13, <1>14, <1>15, <1>16, <1>17 DEF Next

-----------------------------------------------------------------------------
(* What every step does to the two sides.                                  *)

LEMMA StepGrows == IInv /\ [Next]_vars => Growth
<1> SUFFICES ASSUME IInv, [Next]_vars PROVE Growth
  OBVIOUS
<1>1. TypeOK /\ TypeOK'
  BY TypeStep DEF IInv
<1>2. \/ \E c \in Channels : BeginRecord(c)
      \/ \E c \in Channels, r \in Records : FinishRecord(c, r)
      \/ PublishResult
      \/ UNCHANGED worker
  BY DEF Next, vars, Request, ReadResults, ReadSize, ReadRaw, ReadFails, Lose,
     IngestAnswer, IngestKept, Ingest, Accept, Refuse, Open, AppendRecord, Commit, Crash, Settle
<1> QED
  BY <1>1, <1>2, WorkerGrows

(* The driver's files change behind the cursors only, and the cursors only *)
(* at a commit.                                                            *)
MirrorHeld ==
  /\ cursors' = cursors
  /\ \A c \in Channels :
       /\ Cursor(c) <= Len(data'[c])
       /\ \A i \in 1..Cursor(c) : data'[c][i] = data[c][i]
  /\ opened = TRUE => opened' = TRUE
  /\ opened' = FALSE => \A c \in Channels : data'[c] = data[c] \/ data'[c] = <<>>

LEMMA TruncationHolds ==
  ASSUME TypeOK, MirrorInv, cursors' = cursors, opened' = opened,
         data' \in [Channels -> Seq(Records)],
         \A c \in Channels : data'[c] = data[c] \/ data'[c] = Truncated(c)
  PROVE  MirrorHeld
<1>1. ASSUME NEW c \in Channels
      PROVE  /\ Cursor(c) <= Len(data'[c])
             /\ \A i \in 1..Cursor(c) : data'[c][i] = data[c][i]
             /\ opened' = FALSE => data'[c] = data[c] \/ data'[c] = <<>>
  <2>1. /\ Truncated(c) \in Seq(Records)
        /\ Len(Truncated(c)) = Cursor(c)
        /\ \A i \in 1..Cursor(c) : Truncated(c)[i] = data[c][i]
    BY Truncation
  <2>2. Cursor(c) <= Len(data[c]) /\ Cursor(c) \in Nat
    BY StreamAssumption DEF MirrorInv, TypeOK, Offset, Cursor
  <2>3. opened' = FALSE => data'[c] = data[c] \/ data'[c] = <<>>
    <3> SUFFICES ASSUME opened' = FALSE, data'[c] = Truncated(c) PROVE data'[c] = <<>>
      OBVIOUS
    <3>1. data[c] = <<>> /\ Len(data[c]) = 0
      BY EmptySeq DEF MirrorInv
    <3>2. Len(Truncated(c)) = 0
      BY <2>1, <2>2, <3>1
    <3> QED
      BY <2>1, <3>2, EmptySeq
  <2> QED
    BY <2>1, <2>2, <2>3
<1> QED
  BY <1>1 DEF MirrorHeld

LEMMA StepHolds ==
  ASSUME IInv, [Next]_vars
  PROVE  MirrorHeld \/ Commit
<1> USE DEF worker, mirror
<1>0. TypeOK /\ MirrorInv /\ TypeOK'
  BY TypeStep DEF IInv
<1>1. data' \in [Channels -> Seq(Records)] /\ data \in [Channels -> Seq(Records)]
  BY <1>0 DEF TypeOK
<1>2. ASSUME data' = [c \in Channels |-> Truncated(c)], UNCHANGED <<cursors, opened>>
      PROVE  MirrorHeld
  BY <1>0, <1>1, <1>2, TruncationHolds
<1>3. ASSUME UNCHANGED <<data, cursors, opened>> PROVE MirrorHeld
  BY <1>0, <1>1, <1>3, TruncationHolds
<1>4. ASSUME NEW response, Ingest(response) PROVE MirrorHeld
  <2>1. CASE Accept(response)
    BY <1>2, <2>1 DEF Accept
  <2>2. CASE Refuse(response)
    <3>1. \A c \in Channels : data'[c] = data[c] \/ data'[c] = Truncated(c)
      BY <2>2 DEF Refuse
    <3> QED
      BY <1>0, <1>1, <3>1, <2>2, TruncationHolds DEF Refuse
  <2> QED
    BY <1>4, <2>1, <2>2 DEF Ingest
<1>5. ASSUME Open PROVE MirrorHeld
  <2>1. data' = data /\ cursors' = cursors /\ opened' = TRUE
    BY <1>5 DEF Open
  <2> QED
    BY <1>0, <2>1 DEF MirrorHeld, MirrorInv
<1>6. ASSUME NEW c \in Channels, AppendRecord(c) PROVE MirrorHeld
  <2>1. receiver \in Ingesting /\ receiver # Idle /\ receiver.at = "append"
    BY <1>0, <1>6 DEF AppendRecord, TypeOK, Idle
  <2>2. opened = TRUE /\ opened' = opened /\ cursors' = cursors
    BY <1>6, <2>1 DEF IInv, ReceiverInv, AppendRecord
  <2>3. receiver.rest[c] \in Seq(Records) /\ receiver.rest[c] # <<>>
    BY <1>6, <2>1 DEF AppendRecord, Ingesting
  <2>4. Head(receiver.rest[c]) \in Records
    BY <2>3, HeadTailProperties
  <2>5. /\ Len(Append(data[c], Head(receiver.rest[c]))) = Len(data[c]) + 1
        /\ \A i \in 1..Len(data[c]) : Append(data[c], Head(receiver.rest[c]))[i] = data[c][i]
    BY <1>1, <2>4, AppendProperties
  <2>6. data' = [data EXCEPT ![c] = Append(data[c], Head(receiver.rest[c]))]
    BY <1>6 DEF AppendRecord
  <2>7. \A d \in Channels : Cursor(d) \in Nat /\ Cursor(d) <= Len(data[d]) /\ Len(data[d]) \in Nat
    BY <1>0, <1>1, LenProperties, StreamAssumption DEF MirrorInv, TypeOK, Offset, Cursor
  <2>8. \A d \in Channels : Cursor(d) <= Len(data'[d])
    BY <1>1, <2>5, <2>6, <2>7
  <2>9. \A d \in Channels : \A i \in 1..Cursor(d) : data'[d][i] = data[d][i]
    BY <1>1, <2>5, <2>6, <2>7
  <2> QED
    BY <2>2, <2>8, <2>9 DEF MirrorHeld
<1> QED
  BY <1>2, <1>3, <1>4, <1>5, <1>6
     DEF Next, vars, BeginRecord, FinishRecord, PublishResult, Request, ReadResults, ReadSize,
     ReadRaw, ReadFails, Lose, IngestAnswer, IngestKept, Crash, Settle

-----------------------------------------------------------------------------
LEMMA RoomStep == IInv /\ [Next]_vars => RoomInv'
<1> SUFFICES ASSUME IInv, [Next]_vars PROVE RoomInv'
  OBVIOUS
<1> USE DEF RoomInv
<1>1. TypeOK /\ RoomInv
  BY DEF IInv
<1>2. ASSUME NEW c \in Channels, BeginRecord(c) PROVE RoomInv'
  BY <1>1, <1>2 DEF BeginRecord, TypeOK
<1>3. ASSUME NEW c \in Channels, NEW r \in Records, FinishRecord(c, r) PROVE RoomInv'
  BY <1>1, <1>3 DEF FinishRecord, TypeOK
<1>4. ASSUME UNCHANGED <<source, torn>> PROVE RoomInv'
  BY <1>1, <1>4
<1> QED
  BY <1>2, <1>3, <1>4
     DEF Next, vars, worker, mirror, PublishResult, Request, ReadResults, ReadSize, ReadRaw,
     ReadFails, Lose, IngestAnswer, IngestKept, Ingest, Accept, Refuse, Open, AppendRecord,
     Commit, Crash, Settle

(* What a commit moves the cursors over.                                   *)
LEMMA CommitFacts ==
  ASSUME IInv, Commit, NEW c \in Channels
  PROVE  /\ cursors'[c].offset \in Nat
         /\ cursors'[c].offset <= Len(data[c])
         /\ cursors'[c].offset <= Len(source[c])
         /\ \A i \in 1..cursors'[c].offset : data[c][i] = source[c][i]
         /\ cursors'[c].complete =>
              ended = TRUE /\ torn[c] = FALSE /\ cursors'[c].offset = Len(source[c])
         /\ Cursor(c) <= cursors'[c].offset
         /\ cursors[c].complete => cursors'[c].complete
<1>1. TypeOK /\ MirrorInv /\ receiver # Idle /\ receiver \in Ingesting
  BY DEF IInv, Commit, Idle, TypeOK
<1> DEFINE chunk == receiver.response[c]
<1>2. chunk \in Chunk /\ Faithful(chunk, c) /\ receiver.rest[c] = <<>>
  BY <1>1 DEF IInv, ReceiverInv, Ingesting, Response, Commit
<1>3. /\ cursors'[c] = Moved(chunk, c)
      /\ cursors[c] \in [offset : Offset, complete : BOOLEAN]
      /\ Cursor(c) \in Nat
  BY <1>1, StreamAssumption DEF Commit, TypeOK, Cursor, Offset
<1>4. CASE chunk.offset # Cursor(c)
  BY <1>1, <1>3, <1>4 DEF Moved, MirrorInv, Cursor
<1>5. CASE chunk.offset = Cursor(c)
  <2>1. /\ cursors[c].complete => chunk.complete
        /\ Len(data[c]) + Len(receiver.rest[c]) = End(chunk)
        /\ \A i \in 1..Len(data[c]) : data[c][i] = source[c][i]
    BY <1>1, <1>5 DEF IInv, ReceiverInv
  <2>2. Len(receiver.rest[c]) = 0 /\ Len(data[c]) \in Nat
    BY <1>1, <1>2, EmptySeq, LenProperties DEF TypeOK
  <2>3. Len(data[c]) = End(chunk)
    BY <2>1, <2>2
  <2>4. cursors'[c].offset = End(chunk) /\ cursors'[c].complete = chunk.complete
    BY <1>3, <1>5 DEF Moved
  <2> QED
    BY <1>1, <1>2, <2>1, <2>2, <2>3, <2>4 DEF Faithful, MirrorInv
<1> QED
  BY <1>4, <1>5

LEMMA MirrorStep == IInv /\ [Next]_vars => MirrorInv'
<1> SUFFICES ASSUME IInv, [Next]_vars PROVE MirrorInv'
  OBVIOUS
<1>1. TypeOK /\ TypeOK' /\ MirrorInv /\ Growth
  BY TypeStep, StepGrows DEF IInv
<1>2. CASE MirrorHeld
  <2>1. ASSUME NEW c \in Channels
        PROVE  /\ cursors'[c].offset <= Len(data'[c])
               /\ cursors'[c].offset <= Len(source'[c])
               /\ \A i \in 1..cursors'[c].offset : data'[c][i] = source'[c][i]
               /\ cursors'[c].complete =>
                    ended' = TRUE /\ torn'[c] = FALSE /\ cursors'[c].offset = Len(source'[c])
    <3>1. /\ Cursor(c) \in Nat /\ Len(source[c]) \in Nat /\ Len(source'[c]) \in Nat
          /\ cursors'[c].offset = Cursor(c) /\ cursors'[c].complete = cursors[c].complete
      BY <1>1, <1>2, LenProperties, StreamAssumption DEF TypeOK, Offset, Cursor, MirrorHeld
    <3>2. Cursor(c) <= Len(data'[c]) /\ Cursor(c) <= Len(source'[c])
      BY <1>1, <1>2, <3>1 DEF MirrorHeld, MirrorInv, Growth
    <3>3. \A i \in 1..Cursor(c) : data'[c][i] = source'[c][i]
      <4>1. \A i \in 1..Cursor(c) : i \in 1..Len(source[c])
        BY <1>1, <3>1 DEF MirrorInv
      <4> QED
        BY <1>1, <1>2, <4>1 DEF MirrorHeld, MirrorInv, Growth
    <3>4. cursors[c].complete => ended' = TRUE /\ torn'[c] = FALSE /\ Cursor(c) = Len(source'[c])
      BY <1>1 DEF MirrorInv, Growth
    <3> QED
      BY <3>1, <3>2, <3>3, <3>4
  <2>2. opened' = FALSE => \A c \in Channels : data'[c] = <<>>
    BY <1>1, <1>2 DEF MirrorHeld, MirrorInv, TypeOK
  <2> QED
    BY <2>1, <2>2 DEF MirrorInv, Cursor
<1>3. CASE Commit
  <2>1. UNCHANGED <<source, torn, ended, data, opened>>
    BY <1>3 DEF Commit, worker
  <2>2. \A c \in Channels :
          /\ cursors'[c].offset <= Len(data[c])
          /\ cursors'[c].offset <= Len(source[c])
          /\ \A i \in 1..cursors'[c].offset : data[c][i] = source[c][i]
          /\ cursors'[c].complete =>
               ended = TRUE /\ torn[c] = FALSE /\ cursors'[c].offset = Len(source[c])
    BY <1>3, CommitFacts
  <2> QED
    BY <1>1, <2>1, <2>2 DEF MirrorInv, Cursor
<1> QED
  BY <1>2, <1>3, StepHolds

(* A complete answer tells the truth.                                      *)
LEMMA AnswerFaithful ==
  ASSUME TypeOK, ReaderInv, reader.at = "answer", NEW c \in Channels
  PROVE  Faithful(reader.chunk[c], c)
<1>1. reader # Idle
  BY DEF Idle
<1> QED
  BY <1>1 DEF ReaderInv

LEMMA KeptStep == IInv /\ [Next]_vars => KeptInv'
<1> SUFFICES ASSUME IInv, [Next]_vars, NEW response \in kept', NEW c \in Channels
             PROVE  Faithful(response[c], c)'
  BY DEF KeptInv
<1>1. TypeOK /\ TypeOK' /\ Growth
  BY TypeStep, StepGrows DEF IInv
<1>2. response \in kept \/ (reader.at = "answer" /\ response = reader.chunk)
  BY DEF Next, vars, worker, mirror, BeginRecord, FinishRecord, PublishResult, Request,
     ReadResults, ReadSize, ReadRaw, ReadFails, Lose, Keep, IngestAnswer, IngestKept, Open,
     AppendRecord, Commit, Crash, Settle
<1>3. Faithful(response[c], c)
  BY <1>1, <1>2, AnswerFaithful DEF IInv, KeptInv
<1>4. response[c] \in Chunk
  BY <1>1 DEF TypeOK, Response
<1> QED
  BY <1>1, <1>3, <1>4, FaithfulStays

-----------------------------------------------------------------------------
(* The reader.                                                             *)

\* What ReaderInv says of one channel.
Reads(c) ==
  /\ reader.from[c] = Cursor(c)
  /\ reader.at # "results" /\ cursors[c].complete => reader.terminal
  /\ c \in reader.sized => /\ c \in reader.left
                           /\ reader.size[c] <= Bytes(c)
                           /\ reader.terminal => reader.size[c] = Bytes(c)
  /\ c \notin reader.left =>
       /\ Faithful(reader.chunk[c], c)
       /\ reader.chunk[c].offset = Cursor(c)
       /\ cursors[c].complete => /\ reader.chunk[c].size = 2 * Cursor(c)
                                 /\ reader.chunk[c].complete

LEMMA BytesGrow ==
  ASSUME TypeOK, TypeOK', Growth, NEW c \in Channels
  PROVE  /\ Bytes(c) \in Nat /\ Bytes(c)' \in Nat
         /\ Bytes(c) <= Bytes(c)'
         /\ ended = TRUE => Bytes(c)' = Bytes(c)
<1>1. /\ Len(source[c]) \in Nat /\ Len(source'[c]) \in Nat
      /\ torn[c] \in BOOLEAN /\ torn'[c] \in BOOLEAN
  BY LenProperties DEF TypeOK
<1>2. Len(source[c]) <= Len(source'[c])
  BY DEF Growth
<1>3. torn[c] => torn'[c] \/ Len(source[c]) < Len(source'[c])
  BY DEF Growth
<1>4. ended = TRUE => source'[c] = source[c] /\ torn'[c] = torn[c]
  BY DEF Growth
<1>5. /\ torn[c] = TRUE => Bytes(c) = 2 * Len(source[c]) + 1
      /\ torn[c] = FALSE => Bytes(c) = 2 * Len(source[c])
  BY <1>1 DEF Bytes
<1>6. /\ torn'[c] = TRUE => Bytes(c)' = 2 * Len(source'[c]) + 1
      /\ torn'[c] = FALSE => Bytes(c)' = 2 * Len(source'[c])
  BY <1>1 DEF Bytes
<1>7. Bytes(c) \in Nat /\ Bytes(c)' \in Nat
  BY <1>1, <1>5, <1>6
<1>8. Bytes(c) <= Bytes(c)'
  <2>1. CASE torn[c] = FALSE
    BY <1>1, <1>2, <1>5, <1>6, <2>1
  <2>2. CASE torn[c] = TRUE
    BY <1>1, <1>2, <1>3, <1>5, <1>6, <2>2
  <2> QED
    BY <1>1, <2>1, <2>2
<1>9. ended = TRUE => Bytes(c)' = Bytes(c)
  BY <1>4, <1>5, <1>6
<1> QED
  BY <1>7, <1>8, <1>9

(* The worker goes on under a read.                                        *)
LEMMA ReaderWaits ==
  ASSUME IInv, TypeOK', Growth, reader # Idle, UNCHANGED <<reader, receiver, cursors>>
  PROVE  ReaderInv'
<1>1. TypeOK /\ ReaderInv /\ reader \in Reading
  BY DEF IInv, TypeOK
<1>2. \A c \in Channels : cursors'[c] = cursors[c] /\ Cursor(c)' = Cursor(c)
  BY DEF Cursor
<1>3. reader.terminal => ended = TRUE /\ ended' = TRUE
  <2>1. PICK c \in Channels : TRUE
    BY StreamAssumption
  <2> QED
    BY <1>1, <2>1 DEF ReaderInv, Growth
<1>4. ASSUME NEW c \in Channels PROVE Reads(c)'
  <2>1. Reads(c)
    BY <1>1 DEF ReaderInv, Reads
  <2>2. reader.size[c] \in Nat /\ reader.chunk[c] \in Chunk
    BY <1>1 DEF Reading, Response
  <2>3. /\ Bytes(c) \in Nat /\ Bytes(c)' \in Nat /\ Bytes(c) <= Bytes(c)'
        /\ ended = TRUE => Bytes(c)' = Bytes(c)
    BY <1>1, BytesGrow
  <2>4. c \in reader.sized => /\ c \in reader.left
                              /\ reader.size[c] <= Bytes(c)'
                              /\ reader.terminal => reader.size[c] = Bytes(c)'
    BY <1>3, <2>1, <2>2, <2>3 DEF Reads
  <2>5. c \notin reader.left => Faithful(reader.chunk[c], c)'
    BY <1>1, <2>1, <2>2, FaithfulStays DEF Reads
  <2> QED
    BY <1>2, <2>1, <2>4, <2>5 DEF Reads
<1> QED
  BY <1>1, <1>3, <1>4 DEF ReaderInv, Reads

LEMMA RequestReads == ASSUME IInv, Request PROVE ReaderInv'
<1>1. /\ reader'.at = "results" /\ reader'.left = Channels /\ reader'.sized = {}
      /\ reader'.terminal = FALSE /\ reader'.from = [c \in Channels |-> Cursor(c)]
      /\ cursors' = cursors /\ receiver' = Idle
  BY DEF Request
<1> QED
  BY <1>1, StreamAssumption DEF ReaderInv, Cursor

LEMMA ResultsRead == ASSUME IInv, ReadResults PROVE ReaderInv'
<1>1. TypeOK /\ MirrorInv /\ ReaderInv /\ reader \in Reading /\ reader # Idle
  BY DEF IInv, ReadResults, TypeOK, Idle
<1>2. /\ reader' = [reader EXCEPT !.at = "read", !.terminal = ended] /\ reader.at = "results"
      /\ UNCHANGED <<source, torn, ended, cursors, receiver>>
  BY DEF ReadResults, worker, mirror
<1>3. /\ reader'.at = "read" /\ reader'.terminal = ended /\ reader'.left = reader.left
      /\ reader'.sized = reader.sized /\ reader'.from = reader.from
      /\ reader'.size = reader.size /\ reader'.chunk = reader.chunk
  BY <1>1, <1>2 DEF Reading
<1>4. ASSUME NEW c \in Channels PROVE Reads(c)'
  <2>1. Reads(c) /\ reader.left # {} /\ reader.sized = {}
    BY <1>1, <1>2 DEF ReaderInv, Reads
  <2>2. cursors[c].complete => ended
    BY <1>1 DEF MirrorInv
  <2>3. c \in reader.sized => reader.size[c] <= Bytes(c)
    BY <2>1 DEF Reads
  <2> QED
    BY <1>2, <1>3, <2>1, <2>2, <2>3 DEF Reads, Faithful, Cursor, Bytes, End
<1> QED
  BY <1>1, <1>2, <1>3, <1>4 DEF ReaderInv, Reads, TypeOK

LEMMA SizeReads == ASSUME IInv, NEW c \in Channels, ReadSize(c) PROVE ReaderInv'
<1>1. TypeOK /\ ReaderInv /\ reader \in Reading /\ reader # Idle
  BY DEF IInv, ReadSize, TypeOK, Idle
<1>2. /\ reader' = [reader EXCEPT !.sized = {c}, !.size[c] = Bytes(c)]
      /\ reader.at = "read" /\ c \in reader.left
      /\ UNCHANGED <<source, torn, ended, cursors, receiver>>
  BY DEF ReadSize, worker, mirror
<1>3. /\ reader'.at = "read" /\ reader'.terminal = reader.terminal /\ reader'.left = reader.left
      /\ reader'.sized = {c} /\ reader'.from = reader.from
      /\ reader'.size[c] = Bytes(c) /\ reader'.chunk = reader.chunk
  BY <1>1, <1>2 DEF Reading
<1>4. Bytes(c)' = Bytes(c) /\ Bytes(c) \in Nat
  BY <1>1, <1>2, LenProperties DEF Bytes, TypeOK
<1>5. ASSUME NEW d \in Channels PROVE Reads(d)'
  <2>1. Reads(d)
    BY <1>1 DEF ReaderInv, Reads
  <2>2. d \in reader'.sized => /\ d \in reader'.left
                               /\ reader'.size[d] <= Bytes(d)'
                               /\ reader'.terminal => reader'.size[d] = Bytes(d)'
    BY <1>2, <1>3, <1>4
  <2>3. d \notin reader'.left =>
          /\ Faithful(reader'.chunk[d], d)
          /\ reader'.chunk[d].offset = Cursor(d)
          /\ cursors[d].complete => /\ reader'.chunk[d].size = 2 * Cursor(d)
                                    /\ reader'.chunk[d].complete
    BY <1>3, <2>1 DEF Reads
  <2>4. reader'.from[d] = Cursor(d)' /\ (cursors'[d].complete => reader'.terminal)
    BY <1>2, <1>3, <2>1 DEF Reads, Cursor
  <2>5. \A x : Faithful(x, d)' <=> Faithful(x, d)
    BY <1>2 DEF Faithful, End
  <2> QED
    BY <1>2, <1>3, <2>2, <2>3, <2>4, <2>5 DEF Reads, Cursor, Faithful, End
<1> QED
  BY <1>1, <1>2, <1>3, <1>5 DEF ReaderInv, Reads

LEMMA RawReads == ASSUME IInv, NEW c \in Channels, ReadRaw(c) PROVE ReaderInv'
<1> DEFINE chunk == [offset |-> reader.from[c], raw |-> Raw(c), size |-> reader.size[c],
                     complete |-> Whole(c)]
<1>1. TypeOK /\ MirrorInv /\ ReaderInv /\ reader \in Reading /\ reader # Idle
  BY DEF IInv, ReadRaw, TypeOK, Idle
<1>2. /\ reader' = [reader EXCEPT !.at = IF reader.left = {c} THEN "answer" ELSE "read",
                                  !.left = reader.left \ {c}, !.sized = {}, !.chunk[c] = chunk]
      /\ reader.at = "read" /\ c \in reader.sized
      /\ UNCHANGED <<source, torn, ended, cursors, receiver>>
  BY DEF ReadRaw, worker, mirror
<1>3. /\ reader'.at = (IF reader.left = {c} THEN "answer" ELSE "read")
      /\ reader'.terminal = reader.terminal /\ reader'.left = reader.left \ {c}
      /\ reader'.sized = {} /\ reader'.from = reader.from /\ reader'.size = reader.size
      /\ reader'.chunk = [reader.chunk EXCEPT ![c] = chunk]
  BY <1>1, <1>2 DEF Reading
<1>4. reader'.chunk[c] = chunk /\ \A d \in Channels : d # c => reader'.chunk[d] = reader.chunk[d]
  BY <1>1, <1>3 DEF Reading, Response
<1>5. Reads(c)
  BY <1>1 DEF ReaderInv, Reads
<1>6. /\ reader.from[c] = Cursor(c) /\ Cursor(c) \in Nat /\ Cursor(c) <= Len(source[c])
      /\ Len(source[c]) \in Nat /\ reader.size[c] \in Nat /\ torn[c] \in BOOLEAN
      /\ reader.terminal \in BOOLEAN
  BY <1>1, <1>5, LenProperties, StreamAssumption DEF TypeOK, Reads, MirrorInv, Reading, Offset
<1>7. /\ Raw(c) \in Seq(Records) /\ Len(Raw(c)) \in Nat
      /\ reader.from[c] + Len(Raw(c)) <= Len(source[c])
      /\ \A i \in 1..Len(Raw(c)) : Raw(c)[i] = source[c][reader.from[c] + i]
  BY <1>1, <1>2, RawChunk, LenProperties
<1>8. chunk.complete => ended = TRUE /\ torn[c] = FALSE /\ End(chunk) = Len(source[c])
  <2> SUFFICES ASSUME Whole(c)
               PROVE  ended = TRUE /\ torn[c] = FALSE /\ Cursor(c) + Len(Raw(c)) = Len(source[c])
    BY <1>6 DEF End
  <2>1. reader.terminal /\ 2 * (Cursor(c) + Len(Raw(c))) = reader.size[c]
    BY <1>6 DEF Whole, Terminated
  <2>2. ended = TRUE /\ reader.size[c] = Bytes(c)
    BY <1>1, <1>2, <1>5, <2>1 DEF ReaderInv, Reads
  <2>3. 2 * (Cursor(c) + Len(Raw(c))) =
          (IF torn[c] THEN 2 * Len(source[c]) + 1 ELSE 2 * Len(source[c]))
    BY <2>1, <2>2 DEF Bytes
  <2>4. torn[c] = FALSE
    BY <1>6, <1>7, <2>3
  <2> QED
    BY <1>6, <1>7, <2>2, <2>3, <2>4
<1>9. Faithful(chunk, c)
  BY <1>6, <1>7, <1>8 DEF Faithful, End
<1>10. cursors[c].complete => chunk.size = 2 * Cursor(c) /\ chunk.complete
  <2> SUFFICES ASSUME cursors[c].complete
               PROVE  reader.size[c] = 2 * Cursor(c) /\ Whole(c)
    OBVIOUS
  <2>1. torn[c] = FALSE /\ Cursor(c) = Len(source[c])
    BY <1>1 DEF MirrorInv
  <2>2. reader.terminal /\ reader.size[c] = Bytes(c)
    BY <1>2, <1>5 DEF Reads
  <2>3. reader.size[c] = 2 * Cursor(c)
    BY <2>1, <2>2 DEF Bytes
  <2>4. Len(Raw(c)) = 0
    BY <1>6, <1>7, <2>1
  <2> QED
    BY <1>6, <2>2, <2>3, <2>4 DEF Whole, Terminated
<1>11. ASSUME NEW d \in Channels PROVE Reads(d)'
  <2>1. Reads(d)
    BY <1>1 DEF ReaderInv, Reads
  <2>2. reader'.from[d] = Cursor(d)' /\ (cursors'[d].complete => reader'.terminal)
    BY <1>2, <1>3, <2>1 DEF Reads, Cursor
  <2>3. d \notin reader'.left =>
          /\ Faithful(reader'.chunk[d], d)
          /\ reader'.chunk[d].offset = Cursor(d)
          /\ cursors[d].complete => /\ reader'.chunk[d].size = 2 * Cursor(d)
                                    /\ reader'.chunk[d].complete
    <3>1. CASE d = c
      BY <1>4, <1>6, <1>9, <1>10, <3>1
    <3>2. CASE d # c
      BY <1>3, <1>4, <2>1, <3>2 DEF Reads
    <3> QED
      BY <3>1, <3>2
  <2>4. \A x : Faithful(x, d)' <=> Faithful(x, d)
    BY <1>2 DEF Faithful, End
  <2> HIDE DEF chunk
  <2> QED
    BY <1>2, <1>3, <2>2, <2>3, <2>4 DEF Reads, Cursor, Faithful, End
<1>12. reader'.left = {} <=> reader'.at = "answer"
  BY <1>1, <1>2, <1>3, <1>5 DEF ReaderInv, Reads
<1>13. reader' # Idle
  BY <1>3 DEF Idle
<1> QED
  BY <1>1, <1>2, <1>3, <1>11, <1>12, <1>13 DEF ReaderInv, Reads

LEMMA ReaderStep == IInv /\ [Next]_vars => ReaderInv'
<1> SUFFICES ASSUME IInv, [Next]_vars PROVE ReaderInv'
  OBVIOUS
<1>1. TypeOK' /\ Growth
  BY TypeStep, StepGrows
<1>2. CASE reader' = Idle
  BY <1>2 DEF ReaderInv
<1>3. ASSUME UNCHANGED <<reader, receiver, cursors>>, reader # Idle PROVE ReaderInv'
  BY <1>1, <1>3, ReaderWaits
<1>4. ASSUME receiver # Idle PROVE reader = Idle
  BY <1>4 DEF IInv, ReaderInv
<1>5. ASSUME NEW c \in Channels, BeginRecord(c), reader # Idle PROVE ReaderInv'
  BY <1>3, <1>5 DEF BeginRecord, mirror
<1>6. ASSUME NEW c \in Channels, NEW r \in Records, FinishRecord(c, r), reader # Idle PROVE ReaderInv'
  BY <1>3, <1>6 DEF FinishRecord, mirror
<1>7. ASSUME PublishResult \/ Settle \/ UNCHANGED vars, reader # Idle PROVE ReaderInv'
  BY <1>3, <1>7 DEF PublishResult, Settle, vars, mirror
<1>8. ASSUME NEW c \in Channels, ReadFails(c) PROVE ReaderInv'
  BY <1>2, <1>8 DEF ReadFails
<1>9. ASSUME Lose \/ IngestAnswer PROVE ReaderInv'
  BY <1>2, <1>9 DEF Lose, IngestAnswer
<1>10. ASSUME IngestKept PROVE ReaderInv'
  BY <1>2, <1>10 DEF IngestKept
<1>11. ASSUME NEW c \in Channels, Open \/ AppendRecord(c) \/ Commit \/ Crash PROVE ReaderInv'
  <2>1. receiver # Idle
    BY <1>11 DEF Open, AppendRecord, Commit, Crash, Idle
  <2> QED
    BY <1>2, <1>4, <1>11, <2>1 DEF Open, AppendRecord, Commit, Crash
<1>12. CASE reader = Idle /\ ~Request
  BY <1>2, <1>12 DEF Next, vars, BeginRecord, FinishRecord, PublishResult, ReadResults, ReadSize,
     ReadRaw, ReadFails, Lose, IngestAnswer, IngestKept, Open, AppendRecord, Commit, Crash, Settle, Idle
<1>13. PICK c \in Channels : TRUE
  BY StreamAssumption
<1> QED
  BY <1>5, <1>6, <1>7, <1>8, <1>9, <1>10, <1>11, <1>12, <1>13, RequestReads, ResultsRead,
     SizeReads, RawReads DEF Next

-----------------------------------------------------------------------------
(* The receiver.                                                           *)

\* What ReceiverInv says of one channel.
Appends(c) ==
  /\ Faithful(receiver.response[c], c)
  /\ receiver.response[c].offset = Cursor(c) =>
       /\ cursors[c].complete => receiver.response[c].complete
       /\ Len(data[c]) + Len(receiver.rest[c]) = End(receiver.response[c])
       /\ \A i \in 1..Len(data[c]) : data[c][i] = source[c][i]
       /\ \A i \in 1..Len(receiver.rest[c]) :
            receiver.rest[c][i] = source[c][Len(data[c]) + i]

(* Positions before and after a cut.                                       *)
LEMMA Positions ==
  ASSUME NEW a \in Nat, NEW b \in Nat, NEW n \in Nat, a + b <= n
  PROVE  (\A i \in 1..a : i \in 1..n) /\ (\A i \in 1..b : a + i \in 1..n)
OBVIOUS

(* The worker goes on under an ingest.                                     *)
LEMMA ReceiverWaits ==
  ASSUME IInv, TypeOK', Growth, receiver # Idle, UNCHANGED <<receiver, cursors, data, opened>>
  PROVE  ReceiverInv'
<1>1. TypeOK /\ MirrorInv /\ ReceiverInv /\ receiver \in Ingesting
  BY DEF IInv, TypeOK
<1>2. ASSUME NEW c \in Channels PROVE Appends(c)'
  <2>1. Appends(c)
    BY <1>1 DEF ReceiverInv, Appends
  <2>2. receiver.response[c] \in Chunk /\ receiver.rest[c] \in Seq(Records)
    BY <1>1 DEF Ingesting, Response
  <2>3. Faithful(receiver.response[c], c)'
    BY <1>1, <2>1, <2>2, FaithfulStays DEF Appends
  <2>4. Len(source[c]) \in Nat /\ Len(data[c]) \in Nat /\ Len(receiver.rest[c]) \in Nat
    BY <1>1, <2>2, LenProperties DEF TypeOK
  <2>7. End(receiver.response[c]) <= Len(source[c])
    BY <2>1 DEF Appends, Faithful
  <2>5. \A i \in 1..Len(source[c]) : source'[c][i] = source[c][i]
    BY DEF Growth
  <2>6. ASSUME receiver.response[c].offset = Cursor(c)
        PROVE  /\ \A i \in 1..Len(data[c]) : data[c][i] = source'[c][i]
               /\ \A i \in 1..Len(receiver.rest[c]) :
                    receiver.rest[c][i] = source'[c][Len(data[c]) + i]
    <3>1. /\ Len(data[c]) + Len(receiver.rest[c]) = End(receiver.response[c])
          /\ \A i \in 1..Len(data[c]) : data[c][i] = source[c][i]
          /\ \A i \in 1..Len(receiver.rest[c]) :
               receiver.rest[c][i] = source[c][Len(data[c]) + i]
      BY <2>1, <2>6 DEF Appends
    <3>4. Len(data[c]) + Len(receiver.rest[c]) <= Len(source[c])
      BY <2>4, <2>7, <3>1
    <3>2. /\ \A i \in 1..Len(data[c]) : i \in 1..Len(source[c])
          /\ \A i \in 1..Len(receiver.rest[c]) : Len(data[c]) + i \in 1..Len(source[c])
      BY <2>4, <3>4, Positions
    <3> QED
      BY <2>5, <3>1, <3>2
  <2> QED
    BY <2>1, <2>3, <2>6 DEF Appends, Cursor, End
<1> QED
  BY <1>1, <1>2 DEF ReceiverInv, Appends

(* A validated chunk continues the mirror, or lies behind it.              *)
LEMMA AcceptAppends ==
  ASSUME IInv, NEW response \in Response, \A c \in Channels : Faithful(response[c], c),
         Accept(response)
  PROVE  ReceiverInv'
<1>1. TypeOK /\ MirrorInv /\ Valid(response)
  BY DEF IInv, Accept
<1>2. /\ UNCHANGED <<source, torn, ended, cursors, opened>>
      /\ data' = [c \in Channels |-> Truncated(c)]
      /\ receiver' = [at |-> "open", response |-> response,
                      rest |-> [c \in Channels |-> Rest(response[c], c)]]
  BY DEF Accept, worker
<1>3. receiver'.at = "open" /\ receiver'.response = response
      /\ \A c \in Channels : receiver'.rest[c] = Rest(response[c], c)
  BY <1>2
<1>4. ASSUME NEW c \in Channels PROVE Appends(c)'
  <2>1. /\ data'[c] = Truncated(c) /\ Len(Truncated(c)) = Cursor(c)
        /\ \A i \in 1..Cursor(c) : Truncated(c)[i] = data[c][i]
    BY <1>1, <1>2, Truncation
  <2>2. Faithful(response[c], c) /\ response[c] \in Chunk /\ Agrees(response[c], c)
    BY <1>1 DEF Valid, Response
  <2>3. Faithful(response[c], c)'
    BY <1>2, <2>2 DEF Faithful, End
  <2>4. ASSUME response[c].offset = Cursor(c)
        PROVE  /\ cursors[c].complete => response[c].complete
               /\ Len(data'[c]) + Len(Rest(response[c], c)) = End(response[c])
               /\ \A i \in 1..Len(data'[c]) : data'[c][i] = source[c][i]
               /\ \A i \in 1..Len(Rest(response[c], c)) :
                    Rest(response[c], c)[i] = source[c][Len(data'[c]) + i]
    <3>1. Rest(response[c], c) = response[c].raw
      BY <2>4 DEF Rest
    <3>2. cursors[c].complete => response[c].complete
      BY <2>2, <2>4 DEF Agrees
    <3>3. Len(data'[c]) = Cursor(c)
      BY <2>1
    <3>4. Len(data'[c]) + Len(Rest(response[c], c)) = End(response[c])
      BY <2>4, <3>1, <3>3 DEF End
    <3>5. \A i \in 1..Cursor(c) : data'[c][i] = source[c][i]
      BY <1>1, <2>1 DEF MirrorInv
    <3>6. \A i \in 1..Len(Rest(response[c], c)) :
            Rest(response[c], c)[i] = source[c][Len(data'[c]) + i]
      BY <2>2, <2>4, <3>1, <3>3 DEF Faithful
    <3> QED
      BY <3>2, <3>3, <3>4, <3>5, <3>6
  <2>5. /\ receiver'.response[c] = response[c] /\ receiver'.rest[c] = Rest(response[c], c)
        /\ cursors'[c] = cursors[c] /\ source'[c] = source[c]
    BY <1>2, <1>3
  <2>6. response[c].offset = (Cursor(c))' <=> response[c].offset = Cursor(c)
    BY <2>5 DEF Cursor
  <2>7. Faithful(receiver.response[c], c)'
    BY <2>3, <2>5
  <2>8. ASSUME receiver'.response[c].offset = (Cursor(c))'
        PROVE  /\ cursors'[c].complete => receiver'.response[c].complete
               /\ Len(data'[c]) + Len(receiver'.rest[c]) = End(receiver'.response[c])
               /\ \A i \in 1..Len(data'[c]) : data'[c][i] = source'[c][i]
               /\ \A i \in 1..Len(receiver'.rest[c]) :
                    receiver'.rest[c][i] = source'[c][Len(data'[c]) + i]
    BY <2>4, <2>5, <2>6, <2>8
  <2> QED
    BY <2>7, <2>8 DEF Appends
<1> QED
  BY <1>3, <1>4 DEF ReceiverInv, Appends

LEMMA AppendAppends == ASSUME IInv, NEW c \in Channels, AppendRecord(c) PROVE ReceiverInv'
<1>1. TypeOK /\ MirrorInv /\ ReceiverInv /\ receiver \in Ingesting /\ receiver # Idle
  BY DEF IInv, AppendRecord, TypeOK, Idle
<1> DEFINE rest == receiver.rest[c]
<1>2. rest \in Seq(Records) /\ rest # <<>> /\ data[c] \in Seq(Records)
  BY <1>1 DEF Ingesting, AppendRecord, TypeOK
<1>3. /\ Head(rest) \in Records /\ Head(rest) = rest[1]
      /\ Tail(rest) \in Seq(Records) /\ Len(Tail(rest)) = Len(rest) - 1
      /\ \A i \in 1..Len(Tail(rest)) : Tail(rest)[i] = rest[i + 1]
  BY <1>2, HeadTailProperties
<1>4. /\ Len(Append(data[c], Head(rest))) = Len(data[c]) + 1
      /\ \A i \in 1..Len(data[c]) : Append(data[c], Head(rest))[i] = data[c][i]
      /\ Append(data[c], Head(rest))[Len(data[c]) + 1] = Head(rest)
  BY <1>2, <1>3, AppendProperties
<1>5. /\ data' = [data EXCEPT ![c] = Append(data[c], Head(rest))]
      /\ receiver' = [receiver EXCEPT !.rest[c] = Tail(rest)]
      /\ receiver.at = "append" /\ UNCHANGED <<source, torn, ended, cursors, opened>>
  BY DEF AppendRecord, worker
<1>6. /\ receiver'.at = receiver.at /\ receiver'.response = receiver.response
      /\ receiver'.rest[c] = Tail(rest) /\ data'[c] = Append(data[c], Head(rest))
      /\ \A d \in Channels \ {c} : receiver'.rest[d] = receiver.rest[d] /\ data'[d] = data[d]
  BY <1>1, <1>5 DEF Ingesting, TypeOK
<1>7. Len(data[c]) \in Nat /\ Len(rest) \in Nat /\ Len(rest) > 0 /\ Len(Tail(rest)) \in Nat
  BY <1>2, <1>3, LenProperties, EmptySeq
<1> HIDE DEF rest
<1>8. ASSUME NEW d \in Channels PROVE Appends(d)'
  <2>1. Appends(d)
    BY <1>1 DEF ReceiverInv, Appends
  <2>2. Faithful(receiver.response[d], d)'
    BY <1>5, <1>6, <2>1 DEF Appends, Faithful, End
  <2>3. CASE d # c
    <3>1. /\ receiver'.response[d] = receiver.response[d] /\ receiver'.rest[d] = receiver.rest[d]
          /\ data'[d] = data[d] /\ source'[d] = source[d] /\ cursors'[d] = cursors[d]
      BY <1>5, <1>6, <2>3
    <3>2. receiver'.response[d].offset = (Cursor(d))' <=> receiver.response[d].offset = Cursor(d)
      BY <3>1 DEF Cursor
    <3>3. End(receiver'.response[d]) = End(receiver.response[d])
      BY <3>1
    <3>4. ASSUME receiver.response[d].offset = Cursor(d)
          PROVE  /\ cursors'[d].complete => receiver'.response[d].complete
                 /\ Len(data'[d]) + Len(receiver'.rest[d]) = End(receiver'.response[d])
                 /\ \A i \in 1..Len(data'[d]) : data'[d][i] = source'[d][i]
                 /\ \A i \in 1..Len(receiver'.rest[d]) :
                      receiver'.rest[d][i] = source'[d][Len(data'[d]) + i]
      BY <2>1, <3>1, <3>3, <3>4 DEF Appends
    <3> QED
      BY <2>2, <3>2, <3>4 DEF Appends
  <2>4. CASE d = c
    <3>1. ASSUME receiver.response[c].offset = Cursor(c)
          PROVE  /\ Len(data'[c]) + Len(Tail(rest)) = End(receiver.response[c])
                 /\ \A i \in 1..Len(data'[c]) : data'[c][i] = source[c][i]
                 /\ \A i \in 1..Len(Tail(rest)) : Tail(rest)[i] = source[c][Len(data'[c]) + i]
      <4>1. /\ Len(data[c]) + Len(rest) = End(receiver.response[c])
            /\ \A i \in 1..Len(data[c]) : data[c][i] = source[c][i]
            /\ \A i \in 1..Len(rest) : rest[i] = source[c][Len(data[c]) + i]
        BY <2>1, <2>4, <3>1 DEF Appends, rest
      <4>2. Len(data'[c]) = Len(data[c]) + 1
        BY <1>4, <1>6
      <4>3. Len(data'[c]) + Len(Tail(rest)) = End(receiver.response[c])
        BY <1>3, <1>7, <4>1, <4>2
      <4>4. \A i \in 1..Len(data'[c]) : data'[c][i] = source[c][i]
        <5>1. rest[1] = source[c][Len(data[c]) + 1]
          BY <1>7, <4>1
        <5> QED
          BY <1>3, <1>4, <1>6, <1>7, <4>1, <4>2, <5>1
      <4>5. ASSUME NEW i \in 1..Len(Tail(rest))
            PROVE  Tail(rest)[i] = source[c][Len(data'[c]) + i]
        <5>1. Tail(rest)[i] = rest[i + 1] /\ i + 1 \in 1..Len(rest)
          BY <1>3, <1>7
        <5> DEFINE n == Len(data[c])
        <5>2. i \in Int /\ n \in Int /\ Len(data'[c]) = n + 1
          BY <1>7, <4>2
        <5> HIDE DEF n
        <5>3. n + (i + 1) = Len(data'[c]) + i
          BY <5>2
        <5> QED
          BY <4>1, <5>1, <5>3 DEF n
      <4> QED
        BY <4>3, <4>4, <4>5
    <3>2. /\ receiver'.response[c] = receiver.response[c] /\ receiver'.rest[c] = Tail(rest)
          /\ source'[c] = source[c] /\ cursors'[c] = cursors[c]
      BY <1>5, <1>6
    <3>3. cursors[c].complete /\ receiver.response[c].offset = Cursor(c) =>
            receiver.response[c].complete
      BY <2>1, <2>4 DEF Appends
    <3> QED
      <4>1. receiver'.response[c].offset = (Cursor(c))' <=> receiver.response[c].offset = Cursor(c)
        BY <3>2 DEF Cursor
      <4>2. End(receiver'.response[c]) = End(receiver.response[c])
        BY <3>2
      <4>3. ASSUME receiver.response[c].offset = Cursor(c)
            PROVE  /\ cursors'[c].complete => receiver'.response[c].complete
                   /\ Len(data'[c]) + Len(receiver'.rest[c]) = End(receiver'.response[c])
                   /\ \A i \in 1..Len(data'[c]) : data'[c][i] = source'[c][i]
                   /\ \A i \in 1..Len(receiver'.rest[c]) :
                        receiver'.rest[c][i] = source'[c][Len(data'[c]) + i]
        BY <3>1, <3>2, <3>3, <4>2, <4>3
      <4> QED
        BY <2>2, <2>4, <4>1, <4>3 DEF Appends
  <2> QED
    BY <2>3, <2>4
<1> QED
  BY <1>1, <1>5, <1>6, <1>8 DEF ReceiverInv, Appends

LEMMA OpenAppends == ASSUME IInv, Open PROVE ReceiverInv'
<1>1. ReceiverInv /\ receiver \in Ingesting /\ receiver # Idle
  BY DEF IInv, Open, TypeOK, Idle
<1>2. /\ opened' = TRUE /\ receiver' = [receiver EXCEPT !.at = "append"]
      /\ UNCHANGED <<source, torn, ended, cursors, data>>
  BY DEF Open, worker
<1>3. receiver'.response = receiver.response /\ receiver'.rest = receiver.rest
  BY <1>1, <1>2 DEF Ingesting
<1>4. ASSUME NEW c \in Channels PROVE Appends(c)'
  <2>1. Appends(c)
    BY <1>1 DEF ReceiverInv, Appends
  <2>2. Faithful(receiver.response[c], c)'
    BY <1>2, <1>3, <2>1 DEF Appends, Faithful, End
  <2> QED
    BY <1>2, <1>3, <2>1, <2>2 DEF Appends, Cursor, End
<1> QED
  BY <1>2, <1>4 DEF ReceiverInv, Appends

LEMMA ReceiverStep == IInv /\ [Next]_vars => ReceiverInv'
<1> SUFFICES ASSUME IInv, [Next]_vars PROVE ReceiverInv'
  OBVIOUS
<1>1. TypeOK /\ TypeOK' /\ Growth
  BY TypeStep, StepGrows DEF IInv
<1>2. CASE receiver' = Idle
  BY <1>2 DEF ReceiverInv
<1>3. ASSUME UNCHANGED <<receiver, cursors, data, opened>> PROVE ReceiverInv'
  BY <1>1, <1>2, <1>3, ReceiverWaits
<1>4. ASSUME NEW response \in Response, \A c \in Channels : Faithful(response[c], c),
             Ingest(response)
      PROVE  ReceiverInv'
  BY <1>2, <1>4, AcceptAppends DEF Ingest, Refuse
<1>5. ASSUME IngestAnswer PROVE ReceiverInv'
  <2>1. reader.chunk \in Response /\ reader.at = "answer" /\ Ingest(reader.chunk)
    BY <1>1, <1>5 DEF IngestAnswer, TypeOK, Idle, Reading
  <2>2. \A c \in Channels : Faithful(reader.chunk[c], c)
    BY <1>1, <2>1, AnswerFaithful DEF IInv
  <2> QED
    BY <1>4, <2>1, <2>2
<1>6. ASSUME IngestKept PROVE ReceiverInv'
  <2>1. PICK response \in kept : Ingest(response)
    BY <1>6 DEF IngestKept
  <2>2. response \in Response /\ \A c \in Channels : Faithful(response[c], c)
    BY <1>1 DEF TypeOK, IInv, KeptInv
  <2> QED
    BY <1>4, <2>1, <2>2
<1>7. ASSUME Request PROVE ReceiverInv'
  BY <1>2, <1>7 DEF Request
<1>8. ASSUME NEW c \in Channels, BeginRecord(c) PROVE ReceiverInv'
  BY <1>3, <1>8 DEF BeginRecord, mirror
<1>9. ASSUME NEW c \in Channels, NEW r \in Records, FinishRecord(c, r) PROVE ReceiverInv'
  BY <1>3, <1>9 DEF FinishRecord, mirror
<1>10. ASSUME PublishResult \/ ReadResults \/ Lose \/ Settle \/ UNCHANGED vars PROVE ReceiverInv'
  BY <1>3, <1>10 DEF PublishResult, ReadResults, Lose, Settle, vars, mirror
<1>11. ASSUME NEW c \in Channels, ReadSize(c) \/ ReadRaw(c) \/ ReadFails(c) PROVE ReceiverInv'
  BY <1>3, <1>11 DEF ReadSize, ReadRaw, ReadFails, mirror
<1>12. ASSUME Commit \/ Crash PROVE ReceiverInv'
  BY <1>2, <1>12 DEF Commit, Crash
<1> QED
  BY <1>5, <1>6, <1>7, <1>8, <1>9, <1>10, <1>11, <1>12, OpenAppends, AppendAppends DEF Next

-----------------------------------------------------------------------------
THEOREM Initially == Init => IInv
<1> SUFFICES ASSUME Init PROVE IInv
  OBVIOUS
<1>1. TypeOK
  <2>1. \A c \in Channels : source[c] = <<>> /\ Len(source[c]) <= MaxRecords
    BY EmptySeq, StreamAssumption DEF Init
  <2>2. source \in [Channels -> Seq(Records)] /\ data \in [Channels -> Seq(Records)]
    BY EmptySeq DEF Init
  <2>3. cursors \in [Channels -> [offset : Offset, complete : BOOLEAN]]
    BY StreamAssumption DEF Init, Offset
  <2>4. kept \subseteq Response /\ IsFiniteSet(kept)
    BY FS_EmptySet DEF Init
  <2> QED
    BY <2>1, <2>2, <2>3, <2>4 DEF Init, TypeOK
<1>2. \A c \in Channels : data[c] = <<>> /\ source[c] = <<>> /\ Cursor(c) = 0 /\ ~cursors[c].complete
  BY DEF Init, Cursor
<1>3. MirrorInv
  BY <1>2, EmptySeq DEF MirrorInv
<1> QED
  BY <1>1, <1>3 DEF Init, IInv, RoomInv, KeptInv, ReaderInv, ReceiverInv

(* The invariant that ties the cursors, the files, the answers under way   *)
(* and the interrupted appends to what the worker wrote.                   *)
THEOREM Invariance == Spec => []IInv
<1>1. IInv /\ [Next]_vars => IInv'
  BY TypeStep, RoomStep, MirrorStep, KeptStep, ReaderStep, ReceiverStep DEF IInv
<1> QED
  BY Initially, <1>1, PTL DEF Spec

(* Every file, answer and cursor is of the kind its readers expect.        *)
THEOREM TypeCorrect == Spec => []TypeOK
<1>1. IInv => TypeOK
  BY DEF IInv
<1> QED
  BY Invariance, <1>1, PTL

LEMMA MirrorFacts ==
  ASSUME IInv, NEW c \in Channels
  PROVE  /\ Mirror(c) \in Seq(Records)
         /\ Len(Mirror(c)) = Cursor(c)
         /\ Mirror(c) = SubSeq(source[c], 1, Cursor(c))
<1>1. TypeOK /\ MirrorInv
  BY DEF IInv
<1>2. /\ data[c] \in Seq(Records) /\ source[c] \in Seq(Records) /\ Cursor(c) \in Nat
      /\ Cursor(c) <= Len(data[c]) /\ Cursor(c) <= Len(source[c])
      /\ \A i \in 1..Cursor(c) : data[c][i] = source[c][i]
  BY <1>1, StreamAssumption DEF TypeOK, MirrorInv, Cursor, Offset
<1>3. Cursor(c) \in 0..Len(data[c])
  BY <1>2, LenProperties
<1>4. Mirror(c) \in Seq(Records) /\ Len(Mirror(c)) = Cursor(c)
  BY <1>2, <1>3, Cut DEF Mirror
<1>5. SubSeq(data[c], 1, Cursor(c)) = SubSeq(source[c], 1, Cursor(c))
  BY <1>2, SameCut
<1> QED
  BY <1>4, <1>5 DEF Mirror

MirrorIsCut ==
  \A c \in Channels : /\ Mirror(c) \in Seq(Records)
                      /\ Len(Mirror(c)) = Cursor(c)
                      /\ Mirror(c) = SubSeq(source[c], 1, Cursor(c))

LEMMA MirrorCuts == IInv => MirrorIsCut
  BY MirrorFacts DEF MirrorIsCut

(* What the driver acknowledged is what the worker wrote first.            *)
THEOREM MirrorsPrefix == Spec => []MirrorIsPrefix
<1>1. IInv => MirrorIsPrefix
  <2> SUFFICES ASSUME IInv, NEW c \in Channels PROVE Prefix(Mirror(c), source[c])
    BY DEF MirrorIsPrefix
  <2>1. Cursor(c) <= Len(source[c])
    BY DEF IInv, MirrorInv
  <2> QED
    BY <2>1, MirrorFacts DEF Prefix
<1> QED
  BY Invariance, <1>1, PTL

(* A complete channel misses nothing of a Run that has a result.           *)
LEMMA CompleteFacts == IInv => CompleteIsWhole
<1> SUFFICES ASSUME IInv, NEW c \in Channels, cursors[c].complete
             PROVE  ended /\ ~torn[c] /\ Mirror(c) = source[c]
  BY DEF CompleteIsWhole
<1>1. ended = TRUE /\ torn[c] = FALSE /\ Cursor(c) = Len(source[c])
  BY DEF IInv, MirrorInv
<1>2. source[c] \in Seq(Records)
  BY DEF IInv, TypeOK
<1>3. SubSeq(source[c], 1, Len(source[c])) = source[c]
  BY <1>2, SubSeqFull
<1> QED
  BY <1>1, <1>3, MirrorFacts

(* The planner gets a result only with every record of its Run.            *)
THEOREM CompletesWhole == Spec => []CompleteIsWhole
  BY Invariance, CompleteFacts, PTL

(* No interruption leaves the driver's files unusable.                     *)
THEOREM StaysUsable == Spec => []NeverWedged
<1>1. IInv => NeverWedged
  BY DEF IInv, MirrorInv, TypeOK, NeverWedged, Usable
<1> QED
  BY Invariance, <1>1, PTL

(* The answer the driver waits for fits what it holds.                     *)
THEOREM FreshFits == Spec => []FreshAnswerFits
<1>1. IInv => FreshAnswerFits
  <2> SUFFICES ASSUME IInv, reader.at = "answer", NEW c \in Channels
               PROVE  Agrees(reader.chunk[c], c)
    BY DEF FreshAnswerFits
  <2>1. reader # Idle
    BY DEF Idle
  <2>2. /\ reader.chunk[c].offset = Cursor(c)
        /\ cursors[c].complete => /\ reader.chunk[c].size = 2 * Cursor(c)
                                  /\ reader.chunk[c].complete
    BY <2>1 DEF IInv, ReaderInv
  <2>3. Cursor(c) \in Nat
    BY StreamAssumption DEF IInv, TypeOK, Offset, Cursor
  <2> QED
    BY <2>2, <2>3 DEF Agrees
<1> QED
  BY Invariance, <1>1, PTL

LEMMA CursorsKept ==
  ASSUME IInv, [Next]_vars, NEW c \in Channels
  PROVE  /\ Cursor(c) <= cursors'[c].offset
         /\ cursors[c].complete => cursors'[c].complete
<1>1. Cursor(c) \in Nat
  BY StreamAssumption DEF IInv, TypeOK, Offset, Cursor
<1>2. CASE MirrorHeld
  BY <1>1, <1>2 DEF MirrorHeld, Cursor
<1>3. CASE Commit
  BY <1>3, CommitFacts
<1> QED
  BY <1>2, <1>3, StepHolds

(* No answer, however late, moves a cursor back or reopens a channel.      *)
THEOREM CursorsOnlyAdvance == Spec => CursorsAdvance
<1>1. IInv /\ [Next]_vars =>
        [\A c \in Channels : /\ Cursor(c) <= cursors'[c].offset
                             /\ cursors[c].complete => cursors'[c].complete]_vars
  BY CursorsKept
<1> QED
  BY Invariance, <1>1, PTL DEF Spec, CursorsAdvance

-----------------------------------------------------------------------------
(* Refinement.                                                             *)

LEMMA AbstractInit == Init => Abstract!Init
<1> SUFFICES ASSUME Init PROVE Abstract!Init
  OBVIOUS
<1>1. IInv
  BY Initially
<1>2. ASSUME NEW c \in Channels PROVE Mirror(c) = <<>> /\ cursors[c].complete = FALSE
  <2>1. Cursor(c) = 0 /\ cursors[c].complete = FALSE
    BY DEF Init, Cursor
  <2>2. Mirror(c) \in Seq(Records) /\ Len(Mirror(c)) = 0
    BY <1>1, <2>1, MirrorFacts
  <2> QED
    BY <2>1, <2>2, EmptySeq
<1> QED
  BY <1>2 DEF Init, Abstract!Init

(* Truncation and appends happen behind the cursors.                       *)
LEMMA MirrorStays ==
  ASSUME IInv, IInv', MirrorHeld, NEW c \in Channels
  PROVE  Mirror(c)' = Mirror(c)
<1>1. /\ data[c] \in Seq(Records) /\ data'[c] \in Seq(Records)
      /\ Cursor(c) \in Nat /\ Cursor(c)' = Cursor(c)
      /\ Cursor(c) <= Len(data[c]) /\ Cursor(c) <= Len(data'[c])
      /\ \A i \in 1..Cursor(c) : data'[c][i] = data[c][i]
  BY StreamAssumption DEF IInv, TypeOK, MirrorInv, MirrorHeld, Cursor, Offset
<1>2. SubSeq(data'[c], 1, Cursor(c)) = SubSeq(data[c], 1, Cursor(c))
  BY <1>1, SameCut
<1> QED
  BY <1>1, <1>2 DEF Mirror

LEMMA MirrorGrows ==
  ASSUME IInv, IInv', Commit, NEW c \in Channels
  PROVE  /\ Mirror(c)' \in Seq(Records)
         /\ Abstract!Prefix(Mirror(c), Mirror(c)')
         /\ Abstract!Prefix(Mirror(c)', source[c])
<1> DEFINE n == cursors'[c].offset
<1>1. /\ n \in Nat /\ Cursor(c) \in Nat /\ Cursor(c) <= n /\ n <= Len(source[c])
      /\ source[c] \in Seq(Records) /\ source' = source
  <2>1. n \in Nat /\ Cursor(c) <= n /\ n <= Len(source[c])
    BY CommitFacts
  <2>2. Cursor(c) \in Nat /\ source[c] \in Seq(Records)
    BY StreamAssumption DEF IInv, TypeOK, Cursor, Offset
  <2>3. source' = source
    BY DEF Commit, worker
  <2> QED
    BY <2>1, <2>2, <2>3
<1>2. /\ Mirror(c)' \in Seq(Records) /\ Len(Mirror(c)') = n
      /\ Mirror(c)' = SubSeq(source[c], 1, n)
  <2>1. MirrorIsCut'
    BY MirrorCuts, PTL
  <2> QED
    BY <1>1, <2>1 DEF MirrorIsCut, Cursor
<1>3. Len(Mirror(c)) = Cursor(c) /\ Mirror(c) = SubSeq(source[c], 1, Cursor(c))
  BY MirrorFacts
<1> HIDE DEF n
<1>4. /\ n \in 0..Len(source[c]) /\ SubSeq(source[c], 1, n) \in Seq(Records)
      /\ Len(SubSeq(source[c], 1, n)) = n
      /\ \A i \in 1..n : SubSeq(source[c], 1, n)[i] = source[c][i]
  <2>1. n \in 0..Len(source[c])
    BY <1>1, LenProperties
  <2> QED
    BY <1>1, <2>1, Cut
<1>5. SubSeq(SubSeq(source[c], 1, n), 1, Cursor(c)) = SubSeq(source[c], 1, Cursor(c))
  <2>1. \A i \in 1..Cursor(c) : SubSeq(source[c], 1, n)[i] = source[c][i]
    BY <1>1, <1>4
  <2>2. Cursor(c) <= Len(SubSeq(source[c], 1, n)) /\ Cursor(c) <= Len(source[c])
    BY <1>1, <1>4, LenProperties
  <2> QED
    BY <1>1, <1>4, <2>1, <2>2, SameCut
<1> QED
  BY <1>1, <1>2, <1>3, <1>5 DEF Abstract!Prefix

LEMMA AbstractStep == IInv /\ IInv' /\ [Next]_vars => [Abstract!Next]_(Abstract!vars)
<1> SUFFICES ASSUME IInv, IInv', [Next]_vars PROVE [Abstract!Next]_(Abstract!vars)
  OBVIOUS
<1> DEFINE held == [c \in Channels |-> Mirror(c)]
           whole == [c \in Channels |-> cursors[c].complete]
<1>0. ASSUME UNCHANGED <<data, cursors, opened>> PROVE MirrorHeld
  <2>1. TypeOK /\ MirrorInv /\ data' \in [Channels -> Seq(Records)]
    BY DEF IInv, TypeOK
  <2> QED
    BY <1>0, <2>1, TruncationHolds
<1>1. ASSUME MirrorHeld PROVE held' = held /\ whole' = whole
  BY <1>1, MirrorStays DEF MirrorHeld
<1>2. ASSUME NEW c \in Channels, NEW r \in Records, FinishRecord(c, r)
      PROVE  [Abstract!Next]_(Abstract!vars)
  <2>1. MirrorHeld
    BY <1>0, <1>2 DEF FinishRecord, mirror
  <2>2. ended = FALSE /\ ended' = ended /\ source' = [source EXCEPT ![c] = Append(source[c], r)]
    BY <1>2 DEF FinishRecord, IInv, TypeOK
  <2>3. Abstract!Write(c, r)
    BY <1>1, <2>1, <2>2 DEF Abstract!Write
  <2> QED
    BY <2>3 DEF Abstract!Next
<1>3. ASSUME PublishResult PROVE [Abstract!Next]_(Abstract!vars)
  <2>1. MirrorHeld
    BY <1>0, <1>3 DEF PublishResult, mirror
  <2>2. Abstract!End
    BY <1>1, <1>3, <2>1 DEF Abstract!End, PublishResult
  <2> QED
    BY <2>2 DEF Abstract!Next
<1>4. ASSUME Commit PROVE [Abstract!Next]_(Abstract!vars)
  <2>1. source' = source /\ ended' = ended
    BY <1>4 DEF Commit, worker
  <2>2. held' \in [Channels -> Seq(Records)]
    BY <1>4, MirrorGrows
  <2>3. whole' \in [Channels -> BOOLEAN]
    BY DEF IInv, TypeOK
  <2>4. ASSUME NEW c \in Channels
        PROVE  /\ Abstract!Prefix(held[c], held'[c]) /\ Abstract!Prefix(held'[c], source[c])
               /\ whole[c] => whole'[c]
               /\ whole'[c] => ended /\ held'[c] = source[c]
    <3>1. Abstract!Prefix(Mirror(c), Mirror(c)') /\ Abstract!Prefix(Mirror(c)', source[c])
      BY <1>4, MirrorGrows
    <3>2. cursors[c].complete => cursors'[c].complete
      BY <1>4, CommitFacts
    <3>3. cursors'[c].complete => ended' /\ Mirror(c)' = source'[c]
      <4>1. CompleteIsWhole'
        BY CompleteFacts, PTL
      <4> QED
        BY <4>1 DEF CompleteIsWhole
    <3> QED
      BY <2>1, <3>1, <3>2, <3>3
  <2>5. Abstract!Advance
    BY <2>1, <2>2, <2>3, <2>4 DEF Abstract!Advance
  <2> QED
    BY <2>5 DEF Abstract!Next
<1>5. ASSUME MirrorHeld, UNCHANGED <<source, ended>> PROVE [Abstract!Next]_(Abstract!vars)
  BY <1>1, <1>5 DEF Abstract!vars
<1>6. \/ \E c \in Channels, r \in Records : FinishRecord(c, r)
      \/ PublishResult
      \/ UNCHANGED <<source, ended>>
  BY DEF Next, vars, worker, mirror, BeginRecord, Request, ReadResults, ReadSize, ReadRaw,
     ReadFails, Lose, IngestAnswer, IngestKept, Ingest, Accept, Refuse, Open, AppendRecord,
     Commit, Crash, Settle
<1> QED
  BY <1>2, <1>3, <1>4, <1>5, <1>6, StepHolds

(* The acknowledged part of the files keeps the promise of PrefixMirror.   *)
THEOREM StreamKeepsPromise == Spec => ImplementsPrefixMirror
<1>1. IInv /\ IInv' /\ [Next]_vars => [Abstract!Next]_(Abstract!vars)
  BY AbstractStep
<1> QED
  BY Invariance, AbstractInit, <1>1, PTL DEF Spec, ImplementsPrefixMirror, Abstract!Spec
===============================================================================
