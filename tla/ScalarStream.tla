----------------------------- MODULE ScalarStream -----------------------------
(***************************************************************************)
(* The scalar stream of one leased Run, work/fleet_stream.py: the worker   *)
(* appends records to two files, a member process reads a chunk of each on *)
(* request (read_chunk, called by member.scientific_stream), and the       *)
(* coordinator's driver appends verified chunks to its own mirror files    *)
(* (class ScalarStream).  The cursor file stream.json is the commit point: *)
(* what lies behind it in a mirror file was never acknowledged.            *)
(*                                                                         *)
(* A file is a sequence of records, and perhaps an unfinished one.  Every  *)
(* record has two bytes, so that an unfinished one has a size of its own.  *)
(* Identity, compression and digests are checked by the code and abstract  *)
(* here: a chunk arrives as it was sent, but late, again, or never.        *)
(***************************************************************************)
EXTENDS Integers, Sequences, FiniteSets

CONSTANTS
  Channels,      \* metrics and training-metrics
  Records,       \* contents of a record
  ChunkRecords,  \* records that fit CHUNK_BYTES
  Killable,      \* may the worker die in the middle of a record?
  MaxRecords,    \* bound: records per channel
  MaxKept        \* bound: earlier responses that may be delivered again

ASSUME StreamAssumption ==
  /\ ChunkRecords \in Nat \ {0} /\ MaxRecords \in Nat /\ MaxKept \in Nat
  /\ Killable \in BOOLEAN
  /\ IsFiniteSet(Channels) /\ Channels # {}

VARIABLES
  source,    \* complete records of the worker's files
  torn,      \* does an unfinished record follow them?
  ended,     \* does worker.json hold the Run's result?
  reader,    \* the member process that answers the driver's request
  kept,      \* earlier responses that may still arrive
  data,      \* records in the driver's mirror files
  cursors,   \* stream.json: offset and completeness of each channel
  opened,    \* does stream.json exist?
  receiver,  \* the response being ingested, and what is left to append
  stable     \* have calls and the driver stopped failing for good?

worker == <<source, torn, ended>>
mirror == <<data, cursors, opened>>
vars == <<worker, reader, kept, mirror, receiver, stable>>

Offset == 0..MaxRecords
Chunk == [offset : Offset, raw : Seq(Records), size : Nat, complete : BOOLEAN]
Response == [Channels -> Chunk]
End(chunk) == chunk.offset + Len(chunk.raw)
Cursor(c) == cursors[c].offset

Idle == [at |-> "idle"]
Reading == [at : {"results", "read", "answer"}, from : [Channels -> Offset], terminal : BOOLEAN,
            left : SUBSET Channels,      \* channels without a chunk
            sized : SUBSET Channels,     \* the one whose size was read last
            size : [Channels -> Nat], chunk : Response]
Ingesting == [at : {"open", "append"}, response : Response, rest : [Channels -> Seq(Records)]]

NoChunk == [offset |-> 0, raw |-> <<>>, size |-> 0, complete |-> FALSE]

Init ==
  /\ source = [c \in Channels |-> <<>>]
  /\ torn = [c \in Channels |-> FALSE]
  /\ ended = FALSE
  /\ reader = Idle
  /\ kept = {}
  /\ data = [c \in Channels |-> <<>>]
  /\ cursors = [c \in Channels |-> [offset |-> 0, complete |-> FALSE]]
  /\ opened = FALSE
  /\ receiver = Idle
  /\ stable = FALSE

-----------------------------------------------------------------------------
(* The worker.                                                             *)

BeginRecord(c) ==
  /\ ~ended /\ ~torn[c] /\ Len(source[c]) < MaxRecords
  /\ torn' = [torn EXCEPT ![c] = TRUE]
  /\ UNCHANGED <<source, ended, reader, kept, mirror, receiver, stable>>

FinishRecord(c, r) ==
  /\ ~ended /\ torn[c]
  /\ torn' = [torn EXCEPT ![c] = FALSE]
  /\ source' = [source EXCEPT ![c] = Append(@, r)]
  /\ UNCHANGED <<ended, reader, kept, mirror, receiver, stable>>

\* The result is published after the process of the Run has gone.
PublishResult ==
  /\ ~ended
  /\ Killable \/ \A c \in Channels : ~torn[c]
  /\ ended' = TRUE
  /\ UNCHANGED <<source, torn, reader, kept, mirror, receiver, stable>>

-----------------------------------------------------------------------------
(* A read: the cursors of the mirror, then the results, the size and the   *)
(* bytes of each file, each at a time of its own.                          *)

\* _state refuses mirror files without cursors, _cursor a file behind its.
Usable ==
  /\ opened \/ \A c \in Channels : data[c] = <<>>
  /\ \A c \in Channels : Cursor(c) <= Len(data[c])

\* _cursor drops what lies behind the commit point.
Truncated(c) == SubSeq(data[c], 1, Cursor(c))

Request ==
  /\ reader = Idle /\ receiver = Idle /\ Usable
  /\ data' = [c \in Channels |-> Truncated(c)]
  /\ reader' = [at |-> "results", from |-> [c \in Channels |-> Cursor(c)], terminal |-> FALSE,
                left |-> Channels, sized |-> {}, size |-> [c \in Channels |-> 0],
                chunk |-> [c \in Channels |-> NoChunk]]
  /\ UNCHANGED <<worker, kept, cursors, opened, receiver, stable>>

ReadResults ==
  /\ reader.at = "results"
  /\ reader' = [reader EXCEPT !.at = "read", !.terminal = ended]
  /\ UNCHANGED <<worker, kept, mirror, receiver, stable>>

Bytes(c) == IF torn[c] THEN 2 * Len(source[c]) + 1 ELSE 2 * Len(source[c])

ReadSize(c) ==
  /\ reader.at = "read" /\ reader.sized = {} /\ c \in reader.left
  /\ reader' = [reader EXCEPT !.sized = {c}, !.size[c] = Bytes(c)]
  /\ UNCHANGED <<worker, kept, mirror, receiver, stable>>

Smaller(a, b) == IF a <= b THEN a ELSE b

\* Whole records only.  A file that was empty is not opened.
Raw(c) ==
  IF reader.size[c] = 0 THEN <<>>
  ELSE SubSeq(source[c], reader.from[c] + 1,
              Smaller(Len(source[c]), reader.from[c] + ChunkRecords))

\* What if the results were read after the bytes?
TerminatedNow(c) == ended
Terminated(c) == reader.terminal
\* What if an empty read could not complete the stream?
WholeIfRead(c) ==
  Terminated(c) /\ Raw(c) # <<>> /\ 2 * (reader.from[c] + Len(Raw(c))) = reader.size[c]
Whole(c) == Terminated(c) /\ 2 * (reader.from[c] + Len(Raw(c))) = reader.size[c]

\* An unfinished record that nobody will finish.
Broken(c) == Raw(c) = <<>> /\ torn[c] /\ reader.size[c] > 0 /\ reader.terminal

ReadRaw(c) ==
  /\ reader.at = "read" /\ c \in reader.sized /\ ~Broken(c)
  /\ reader' = [reader EXCEPT
       !.at = IF reader.left = {c} THEN "answer" ELSE "read",
       !.left = @ \ {c}, !.sized = {},
       !.chunk[c] = [offset |-> reader.from[c], raw |-> Raw(c), size |-> reader.size[c],
                     complete |-> Whole(c)]]
  /\ UNCHANGED <<worker, kept, mirror, receiver, stable>>

\* The call fails or times out.  Its answer may still turn up.
Keep(response) == kept' \in {kept} \union
  (IF Cardinality(kept) < MaxKept THEN {kept \union {response}} ELSE {})

Lose ==
  /\ ~stable
  /\ reader # Idle
  /\ reader' = Idle
  /\ IF reader.at = "answer" THEN Keep(reader.chunk) ELSE kept' = kept
  /\ UNCHANGED <<worker, mirror, receiver, stable>>

ReadFails(c) ==
  /\ reader.at = "read" /\ c \in reader.sized /\ Broken(c)
  /\ reader' = Idle
  /\ UNCHANGED <<worker, kept, mirror, receiver, stable>>

-----------------------------------------------------------------------------
(* ingest.                                                                 *)

Accounted(chunk) ==
  /\ 2 * End(chunk) <= chunk.size
  /\ chunk.complete => 2 * End(chunk) = chunk.size

Agrees(chunk, c) ==
  /\ chunk.offset <= Cursor(c)
  /\ (chunk.offset = Cursor(c) /\ cursors[c].complete) =>
       /\ chunk.size = 2 * Cursor(c)
       /\ chunk.complete
  /\ chunk.offset < Cursor(c) =>
       /\ End(chunk) <= Cursor(c)
       /\ SubSeq(data[c], chunk.offset + 1, End(chunk)) = chunk.raw

Valid(response) == \A c \in Channels : Accounted(response[c]) /\ Agrees(response[c], c)

\* A chunk behind the cursor was appended before.
Rest(chunk, c) == IF chunk.offset = Cursor(c) THEN chunk.raw ELSE <<>>

Accept(response) ==
  /\ receiver = Idle /\ Usable /\ Valid(response)
  /\ data' = [c \in Channels |-> Truncated(c)]
  /\ receiver' = [at |-> "open", response |-> response,
                  rest |-> [c \in Channels |-> Rest(response[c], c)]]
  /\ UNCHANGED <<worker, cursors, opened, stable>>

\* The error leaves the channels before the contradictory one truncated.
Refuse(response) ==
  /\ receiver = Idle /\ Usable /\ ~Valid(response)
  /\ \E seen \in SUBSET Channels :
       data' = [c \in Channels |-> IF c \in seen THEN Truncated(c) ELSE data[c]]
  /\ UNCHANGED <<worker, cursors, opened, receiver, stable>>

Ingest(response) == Accept(response) \/ Refuse(response)

IngestAnswer ==
  /\ reader.at = "answer"
  /\ Ingest(reader.chunk) /\ Keep(reader.chunk)
  /\ reader' = Idle

IngestKept ==
  /\ reader = Idle
  /\ \E response \in kept : Ingest(response)
  /\ UNCHANGED <<reader, kept, stable>>

\* stream.json exists before the first append.
\* What if only the commit wrote the cursors?
OpenLater ==
  /\ receiver.at = "open"
  /\ receiver' = [receiver EXCEPT !.at = "append"]
  /\ UNCHANGED <<worker, reader, kept, data, cursors, opened, stable>>
Open ==
  /\ receiver.at = "open"
  /\ opened' = TRUE
  /\ receiver' = [receiver EXCEPT !.at = "append"]
  /\ UNCHANGED <<worker, reader, kept, data, cursors, stable>>

AppendRecord(c) ==
  /\ receiver.at = "append" /\ receiver.rest[c] # <<>>
  /\ data' = [data EXCEPT ![c] = Append(@, Head(receiver.rest[c]))]
  /\ receiver' = [receiver EXCEPT !.rest[c] = Tail(@)]
  /\ UNCHANGED <<worker, reader, kept, cursors, opened, stable>>

\* What if a replayed chunk moved the cursor, or a new one moved it twice?
MovedAlways(chunk, c) == [offset |-> End(chunk), complete |-> chunk.complete]
Moved(chunk, c) ==
  IF chunk.offset = Cursor(c) THEN [offset |-> End(chunk), complete |-> chunk.complete]
  ELSE cursors[c]

Commit ==
  /\ receiver.at = "append" /\ \A c \in Channels : receiver.rest[c] = <<>>
  /\ cursors' = [c \in Channels |-> Moved(receiver.response[c], c)]
  /\ receiver' = Idle
  /\ UNCHANGED <<worker, reader, kept, data, opened, stable>>

\* The driver stops; whoever resumes the Study finds the files as they are.
Crash ==
  /\ ~stable
  /\ receiver # Idle
  /\ receiver' = Idle
  /\ UNCHANGED <<worker, reader, kept, mirror, stable>>

\* From some time on there are no more failures.
Settle ==
  /\ ~stable
  /\ stable' = TRUE
  /\ UNCHANGED <<worker, reader, kept, mirror, receiver>>

-----------------------------------------------------------------------------
Next ==
  \/ \E c \in Channels : BeginRecord(c)
  \/ \E c \in Channels, r \in Records : FinishRecord(c, r)
  \/ PublishResult
  \/ Request \/ ReadResults
  \/ \E c \in Channels : ReadSize(c) \/ ReadRaw(c) \/ ReadFails(c)
  \/ Lose
  \/ IngestAnswer \/ IngestKept
  \/ Open \/ (\E c \in Channels : AppendRecord(c)) \/ Commit
  \/ Crash \/ Settle

Spec == Init /\ [][Next]_vars

(* The driver polls until the stream is complete, a member process that is *)
(* not killed goes on, and some time neither calls nor the driver fail any *)
(* more.  Old answers may turn up for ever, but not in place of new ones.  *)
Fairness ==
  /\ WF_vars(Settle)
  /\ SF_vars(Request)
  /\ WF_vars(ReadResults)
  /\ \A c \in Channels : WF_vars(ReadSize(c)) /\ WF_vars(ReadRaw(c)) /\ WF_vars(ReadFails(c))
  /\ WF_vars(IngestAnswer)
  /\ WF_vars(Open) /\ WF_vars(Commit)
  /\ \A c \in Channels : WF_vars(AppendRecord(c))

FairSpec == Spec /\ Fairness

-----------------------------------------------------------------------------
(* Properties.                                                             *)

TypeOK ==
  /\ source \in [Channels -> Seq(Records)]
  /\ \A c \in Channels : Len(source[c]) <= MaxRecords
  /\ torn \in [Channels -> BOOLEAN] /\ ended \in BOOLEAN
  /\ reader \in Reading \union {Idle}
  /\ kept \subseteq Response /\ IsFiniteSet(kept)
  /\ data \in [Channels -> Seq(Records)]
  /\ cursors \in [Channels -> [offset : Offset, complete : BOOLEAN]]
  /\ opened \in BOOLEAN /\ stable \in BOOLEAN
  /\ receiver \in Ingesting \union {Idle}

\* What the driver acknowledged: its mirror up to the cursor.
Mirror(c) == SubSeq(data[c], 1, Cursor(c))
Prefix(p, s) == Len(p) <= Len(s) /\ p = SubSeq(s, 1, Len(p))

(* The acknowledged part of a mirror file is what the worker wrote first,  *)
(* through lost, late and repeated answers and interrupted appends.        *)
MirrorIsPrefix == \A c \in Channels : Prefix(Mirror(c), source[c])

(* A channel is complete only when the Run has a result and every record   *)
(* of it, the last one too, is in the mirror: the planner is given the     *)
(* result on this evidence.                                                *)
CompleteIsWhole ==
  \A c \in Channels : cursors[c].complete => ended /\ ~torn[c] /\ Mirror(c) = source[c]

(* An interrupted ingest never leaves files that _state or _cursor refuse: *)
(* the stream could not be resumed.                                        *)
NeverWedged == Usable

(* The answer to the request the driver is waiting for never skips,        *)
(* overlaps or contradicts what it has acknowledged meanwhile.             *)
FreshAnswerFits ==
  reader.at = "answer" => \A c \in Channels : Agrees(reader.chunk[c], c)

(* A cursor never goes back and completeness is not taken back, whichever  *)
(* old answer turns up.                                                    *)
CursorsAdvance ==
  [][\A c \in Channels : /\ Cursor(c) <= cursors'[c].offset
                         /\ cursors[c].complete => cursors'[c].complete]_vars

(* The acknowledged part of the files implements PrefixMirror.             *)
Abstract == INSTANCE PrefixMirror WITH
  mirror <- [c \in Channels |-> Mirror(c)],
  complete <- [c \in Channels |-> cursors[c].complete]
ImplementsPrefixMirror == Abstract!Spec

(* If the worker's files end with a whole record, both channels are at     *)
(* last complete, and the dispatch loop can deliver the result.            *)
Arrives == (ended /\ \A c \in Channels : ~torn[c]) ~> \A c \in Channels : cursors[c].complete

(* ingest raises "Scalar chunk has invalid accounting." for chunks that    *)
(* reach beyond the size they report; read_chunk never makes one.          *)
ChunksAreAccounted ==
  reader.at = "answer" => \A c \in Channels : Accounted(reader.chunk[c])
===============================================================================
