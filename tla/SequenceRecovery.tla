--------------------------- MODULE SequenceRecovery ---------------------------
(***************************************************************************)
(* EventLedger._load_sequence_counter (src/sample/event_ledger.py) as a    *)
(* pure algorithm over the text of the ledger file, run by __init__ once,  *)
(* and the disk paths of the forward and reverse stream readers over the   *)
(* same text.                                                              *)
(*                                                                         *)
(* Text is a sequence of tokens, fine enough for the string operations the *)
(* scan uses (find, slicing, strip, isdigit, int, split):                  *)
(*   Key        the text `"event_id": ` (json.dumps's ': ' separator);     *)
(*   0..9       one decimal digit;                                         *)
(*   Comma      ", " (the scan searches for the comma);                    *)
(*   Close      "}", the scan's second choice;                             *)
(*   Open, Txt  "{" and any other run of characters, never matched;        *)
(*   NL         the newline ending each line.                              *)
(* A JSON string value is escaped, so it never contains Key; the ISO       *)
(* timestamp and the event type contain neither "," nor "}".               *)
(*                                                                         *)
(* The file is the lines write_event produced, oldest first, and, after a  *)
(* crash in the middle of an OS write, a cut head of one more line.  Files *)
(* here are below 4096 bytes, so the tail window is the whole file.        *)
(***************************************************************************)
EXTENDS Naturals, Sequences, SequencesExt

CONSTANTS
  Ids,          \* event ids the file's lines may carry
  MaxLines,     \* bound on the complete lines in the file
  DataKinds,    \* payload shapes: "none", "other", "idFirst", "idLast", "idStr"
  PayloadIds,   \* values of an "event_id" key inside a payload
  TornPossible, \* whether the file may end in a cut line
  ChunkSizes    \* sizes of the reverse reader's backward reads, in tokens

ASSUME /\ Ids \subseteq Nat \ {0} /\ MaxLines \in Nat /\ TornPossible \in BOOLEAN
       /\ ChunkSizes \subseteq Nat \ {0}
       /\ DataKinds \subseteq {"none", "other", "idFirst", "idLast", "idStr"}

VARIABLES
  lines,     \* the records of the complete lines, oldest first
  torn,      \* the cut head of one more line's text, or <<>>
  tornId,    \* the id of that cut line (0 when there is none)
  counter,   \* _sequence_counter
  loaded     \* __init__ has run _load_sequence_counter

vars == <<lines, torn, tornId, counter, loaded>>

Digit == 0..9
Key == 10
Comma == 11
Close == 12
Open == 13
Txt == 14
NL == 15

-----------------------------------------------------------------------------
(* What write_event puts in the file.                                      *)

RECURSIVE Digits(_)
\* json.dumps of a non-negative int: its decimal digits.
Digits(n) == IF n < 10 THEN <<n>> ELSE Digits(n \div 10) \o <<n % 10>>

Payload == [kind : DataKinds, v : PayloadIds]

\* The serialized payload dict (serializable_data), one shape per kind: no
\* keys, one other key, or an "event_id" key first, last, or with a string.
RenderData(d) ==
  CASE d.kind = "none"    -> <<Open, Close>>
    [] d.kind = "other"   -> <<Open, Txt, Close>>
    [] d.kind = "idFirst" -> <<Open, Key>> \o Digits(d.v) \o <<Comma, Txt, Close>>
    [] d.kind = "idLast"  -> <<Open, Txt, Comma, Key>> \o Digits(d.v) \o <<Close>>
    [] d.kind = "idStr"   -> <<Open, Key, Txt, Close>>

\* json.dumps(event_dict): event_type, timestamp, data, event_id, in the
\* dict's insertion order.
Render(r) ==
  <<Open, Txt, Comma, Txt, Comma, Txt>> \o RenderData(r.data) \o <<Comma, Key>>
    \o Digits(r.id) \o <<Close>>

FileText == FlattenSeq([i \in DOMAIN lines |-> Render(lines[i]) \o <<NL>>]) \o torn

-----------------------------------------------------------------------------
(* The string operations of the scan.                                      *)

\* str.find(tok, from) with 1-based positions: 0 when absent.
Find(s, tok, from) == SelectInSubSeq(s, from, Len(s), LAMBDA c : c = tok)

RECURSIVE SplitBy(_, _)
\* str.split(sep): the pieces between separators, an empty text giving <<<<>>>>.
SplitBy(s, sep) ==
  LET i == Find(s, sep, 1)
  IN IF i = 0 THEN <<s>>
     ELSE <<SubSeq(s, 1, i - 1)>> \o SplitBy(SubSeq(s, i + 1, Len(s)), sep)

RECURSIVE StripEnd(_)
\* str.strip() on text whose only whitespace is the newline.
StripEnd(s) == IF s # <<>> /\ Last(s) = NL THEN StripEnd(Front(s)) ELSE s

\* Iterating a text file: each line keeps its newline, the last may lack it.
FileLines(s) ==
  LET p == SplitBy(s, NL)
      keep == IF Last(p) = <<>> THEN Front(p) ELSE p
  IN [i \in DOMAIN keep |-> IF i < Len(p) THEN keep[i] \o <<NL>> ELSE keep[i]]

NoId == -1

\* `id_idx = line.find('"event_id": ')`, the value up to the next Comma or,
\* failing that, Close (or line[start:-1] when neither follows), stripped;
\* its int() when isdigit(), NoId otherwise.
IdInLine(line) ==
  LET k == Find(line, Key, 1)
      start == k + 1
      e == IF Find(line, Comma, start) # 0 THEN Find(line, Comma, start)
           ELSE Find(line, Close, start)
      val == StripEnd(SubSeq(line, start, IF e = 0 THEN Len(line) - 1 ELSE e - 1))
  IN IF k # 0 /\ val # <<>> /\ \A i \in DOMAIN val : val[i] \in Digit
       THEN FoldLeft(LAMBDA acc, d : acc * 10 + d, 0, val)
       ELSE NoId

\* Fast path: the lines of `tail_data.strip().split("\n")`, newest first,
\* skipping blank ones; the first that yields an id wins.
TailScan(s) ==
  LET ls == SplitBy(StripEnd(s), NL)
      hit == SelectLastInSeq(ls, LAMBDA l : l # <<>> /\ IdInLine(l) # NoId)
  IN IF hit = 0 THEN NoId ELSE IdInLine(ls[hit])

\* Fallback: `max_id` over every line of the file read in text mode.
FullScan(s) ==
  LET ls == FileLines(s)
  IN FoldLeft(LAMBDA m, l : IF IdInLine(l) > m THEN IdInLine(l) ELSE m, 0, ls)

\* Mutant: no sequential fallback; the counter is left at the sentinel.
LoadSequenceCounterNoFallback(s) ==
  IF s = <<>> THEN 0 ELSE TailScan(s)

\* _load_sequence_counter: 0 for a missing or empty file, else the tail
\* scan's id, else the sequential scan's maximum.
LoadSequenceCounter(s) ==
  IF s = <<>> THEN 0
  ELSE IF TailScan(s) # NoId THEN TailScan(s) ELSE FullScan(s)

-----------------------------------------------------------------------------
(* The disk paths of read_events_stream and read_events_stream_reverse     *)
(* (mirror disabled).  A line decodes when json.loads and BaseEvent(**)    *)
(* accept it: when it is the rendering of a record.  The 64 KB chunk is    *)
(* ChunkSize tokens; the reverse reader splits only on the newline, a      *)
(* token of its own, so cutting a chunk inside another token changes       *)
(* nothing the reader does.                                                *)

LineRecords == [id : Ids, data : Payload]

\* `json.loads(...)`, the timestamp conversion and `BaseEvent(**raw_data)`
\* succeed.
Decodes(l) == \E r \in LineRecords : Render(r) = l

Decode(l) == CHOOSE r \in LineRecords : Render(r) = l

\* The events of lines in the given order: blank and undecodable lines
\* are skipped (`except (json.JSONDecodeError, ...): continue`).
Decoded(ls) ==
  LET ok == SelectSeq(ls, LAMBDA l : l # <<>> /\ Decodes(l))
  IN [i \in DOMAIN ok |-> Decode(ok[i])]

\* read_events_stream: `for line in f: json.loads(line.strip())`.
ForwardRead(s) == Decoded([i \in DOMAIN FileLines(s) |-> StripEnd(FileLines(s)[i])])

RECURSIVE RevChunks(_, _, _, _)

\* Mutant: the loop's leftover head is never decoded.
RevChunksDropLeftover(s, c, pointer, buffer) ==
  IF pointer = 0 THEN <<>>
  ELSE LET p == pointer - (IF c < pointer THEN c ELSE pointer)
           ls == SplitBy(SubSeq(s, p + 1, pointer) \o buffer, NL)
       IN Decoded([i \in 1..Len(ls) - 1 |-> ls[Len(ls) + 1 - i]]) \o RevChunks(s, c, p, ls[1])

\* The `while pointer > 0` loop from `pointer`: read `min(c, pointer)`
\* bytes before it, prepend them to `buffer`, split on newlines, keep
\* `lines[0]` as the new buffer and decode `lines[len-1] .. lines[1]`;
\* after the loop, decode what is left in the buffer.
RevChunks(s, c, pointer, buffer) ==
  IF pointer = 0 THEN Decoded(<<buffer>>)
  ELSE LET p == pointer - (IF c < pointer THEN c ELSE pointer)
           ls == SplitBy(SubSeq(s, p + 1, pointer) \o buffer, NL)
       IN Decoded([i \in 1..Len(ls) - 1 |-> ls[Len(ls) + 1 - i]]) \o RevChunks(s, c, p, ls[1])

\* read_events_stream_reverse: seek to the end, `buffer = b""`.
ReverseRead(s, c) == RevChunks(s, c, Len(s), <<>>)

-----------------------------------------------------------------------------
\* Files write_event can leave: complete lines with increasing ids and, if
\* a crash cut an OS write, a head of the next line.
CompleteFiles ==
  UNION {[1..n -> [id : Ids, data : Payload]] : n \in 0..MaxLines}

IdsIncrease(ls) == \A i, j \in DOMAIN ls : i < j => ls[i].id < ls[j].id

LastId(ls) == IF ls = <<>> THEN 0 ELSE ls[Len(ls)].id

Init ==
  /\ lines \in {ls \in CompleteFiles : IdsIncrease(ls)}
  /\ \/ torn = <<>> /\ tornId = 0
     \/ /\ TornPossible
        /\ \E id \in {i \in Ids : i > LastId(lines)}, d \in Payload :
             /\ tornId = id
             /\ \E n \in 1..Len(Render([id |-> id, data |-> d])) :
                  torn = SubSeq(Render([id |-> id, data |-> d]), 1, n)
  /\ counter = 0 /\ loaded = FALSE

\* EventLedger.__init__ calling _load_sequence_counter.
Recover ==
  /\ ~loaded
  /\ counter' = LoadSequenceCounter(FileText)
  /\ loaded' = TRUE
  /\ UNCHANGED <<lines, torn, tornId>>

\* The ledger is constructed: only stuttering remains.
Done == loaded /\ UNCHANGED vars

Next == Recover \/ Done

Spec == Init /\ [][Next]_vars

-----------------------------------------------------------------------------
TypeOK ==
  /\ counter \in Nat /\ loaded \in BOOLEAN
  /\ tornId \in Ids \cup {0} /\ torn \in Seq({Key, Comma, Close, Open, Txt} \cup Digit)

\* Reference: the id of the newest complete line (0 for none).
NewestCompleteId == LastId(lines)

\* The recovered counter is the id of the newest complete line, or that of
\* the cut line after it (spec section 3: ids are never reused across
\* restarts; a counter below an id on disk hands that id out again).
RecoveredIsNewestId ==
  loaded => \/ counter = NewestCompleteId
            \/ tornId # 0 /\ counter = tornId

\* Reverse streaming (spec section 8: records [e1, e2, e3] stream back as
\* [e3, e2, e1]): whatever the chunk size, and wherever a chunk boundary
\* cuts a line, read_events_stream_reverse yields exactly the events
\* read_events_stream yields, newest first, cut last line included.
ReverseMatchesForward ==
  \A c \in ChunkSizes : ReverseRead(FileText, c) = Reverse(ForwardRead(FileText))
=============================================================================
