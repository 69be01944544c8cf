----------------------------- MODULE EventLedger -----------------------------
(***************************************************************************)
(* One EventLedger (src/sample/event_ledger.py) as seen by a caller that   *)
(* invokes its public methods one at a time: write_event with its three    *)
(* flush regimes, force_flush, the flush-before-read of the read methods,  *)
(* the re-entrant bulk_write_mode scope, start/stop, the memory mirror     *)
(* (enable/disable, hydrate, cleanup_memory) and a process crash followed  *)
(* by the sequence-counter recovery of __init__, including the line a     *)
(* crash cuts and the line the restarted process appends to it.           *)
(*                                                                         *)
(* The record file is split in two: `durable` is what has reached the OS   *)
(* (file.flush() was called, or Python's buffer spilled), `buffered` is    *)
(* what sits in the Python-level write buffer of the open handle and is    *)
(* lost by a process crash.  Thread interleavings of these methods are     *)
(* the subject of LedgerWriteRace.                                         *)
(***************************************************************************)
EXTENDS Naturals, Sequences, FiniteSets, SequencesExt

CONSTANTS
  MaxWrites,          \* bound on write_event calls (payloads 1..MaxWrites)
  MaxCrashes,         \* bound on process crashes
  MaxBulkDepth,       \* bound on nested bulk_write_mode scopes
  Timestamps,         \* event timestamps and cutoffs, a small set of Nat
  FlushIntervalWrites,\* ledger.flush_interval_writes
  AutoFlush,          \* the auto_flush constructor argument (the manager passes TRUE)
  FlushBeforeRead,    \* ledger.flush_before_read
  WriteFaults         \* exceptions write_event may meet, subset of Faults

\* Where write_event can raise after the id is taken: parsing a payload
\* timestamp (before the mirror append) or json.dumps / file write (after).
Faults == {"none", "timestamp", "encode"}

ASSUME /\ MaxWrites \in Nat \ {0} /\ MaxCrashes \in Nat /\ MaxBulkDepth \in Nat
       /\ Timestamps \subseteq Nat /\ Timestamps # {}
       /\ FlushIntervalWrites \in Nat \ {0}
       /\ AutoFlush \in BOOLEAN /\ FlushBeforeRead \in BOOLEAN
       /\ "none" \in WriteFaults /\ WriteFaults \subseteq Faults
       \* one-digit ids: where a cut falls in a longer id is SequenceRecovery's
       /\ MaxWrites < 10

VARIABLES
  counter,     \* _sequence_counter
  durable,     \* records the OS holds for ledger_file
  buffered,    \* records written to _file_handle but not yet flushed
  fileExists,  \* ledger_file.exists()
  handleOpen,  \* _file_handle is not None
  started,     \* _started
  keepRunning, \* _keep_running
  dirty,       \* _dirty
  sinceFlush,  \* _write_count_since_flush
  bulk,        \* _bulk_mode
  autoFlush,   \* auto_flush, public and set by LedgerManager.set_auto_flush
  bulkSaved,   \* old_bulk_mode saved by each open bulk_write_mode scope
  memEnabled,  \* _is_memory_enabled
  mirror,      \* _memory_cache
  torn,        \* the file ends in a line a crash cut: "none" or Cuts
  tornId,      \* the id of that cut line
  hidden,      \* positions in `durable` of lines whose id the scan cannot parse
  \* history variables, not program state
  calls,       \* number of write_event calls made; the payload of a call
  acked,       \* records whose write_event returned their id
  ackedAuto,   \* those of them returned while auto_flush was set
  crashes

vars == <<counter, durable, buffered, torn, tornId, hidden, fileExists, handleOpen, started,
          keepRunning, dirty, sinceFlush, bulk, autoFlush, bulkSaved, memEnabled,
          mirror, torn, tornId, hidden, calls, acked, ackedAuto, crashes>>

Record == [id : Nat, ts : Timestamps, data : 1..MaxWrites]

\* All records of the file in append order, as a reader of the handle sees them.
FileRecords == durable \o buffered

RecordSet(s) == {s[i] : i \in DOMAIN s}

-----------------------------------------------------------------------------
(* A crash can cut the line Python's buffer was spilling.  With one-digit *)
(* ids the cut head is, for the scan of _load_sequence_counter:           *)
(*   "head"   cut before `"event_id": ` is complete: no id;               *)
(*   "key"    cut after it, before the closing "}": the value runs to the *)
(*            end of the line, `line[start:-1]` drops its digit: no id;   *)
(*   "whole"  everything but the newline: its id parses.                  *)
(* start() reopens with "a", so the next line lands on the cut head; when *)
(* the head holds the key, the merged line's value runs from the head's   *)
(* digit into the next record (`3}{"event_type"...`) and no id parses.    *)
Cuts == {"head", "key", "whole"}

\* The file after appending whole lines `ls` to a file ending in cut `t`.
Hides(t, ls) == IF ls # <<>> /\ t \in {"key", "whole"} THEN {Len(durable) + 1} ELSE {}
AfterLines(t, ls) == IF ls # <<>> THEN "none" ELSE t

AppendDurable(ls) ==
  /\ durable' = durable \o ls
  /\ hidden' = hidden \cup Hides(torn, ls)
  /\ torn' = AfterLines(torn, ls)
  /\ tornId' = IF ls # <<>> THEN 0 ELSE tornId

\* _load_sequence_counter: 0 for an empty file; the tail scan returns the id
\* of the newest line whose id parses, a cut "whole" line included; when no
\* line parses, the sequential scan's maximum over parsing lines is 0 too.
\* Mutant: the -1 failure sentinel of write_event reused for "no id found".
LoadSequenceCounterSentinel(file, t, tid, hid) ==
  LET ok == DOMAIN file \ hid IN
  IF t = "whole" THEN tid ELSE IF ok = {} THEN 0 - 1 ELSE file[Max(ok)].id

LoadSequenceCounter(file, t, tid, hid) ==
  LET ok == DOMAIN file \ hid IN
  IF t = "whole" THEN tid ELSE IF ok = {} THEN 0 ELSE file[Max(ok)].id

Init ==
  /\ counter = 0
  /\ durable = <<>> /\ buffered = <<>>
  /\ fileExists = FALSE
  /\ handleOpen = FALSE /\ started = FALSE /\ keepRunning = TRUE
  /\ dirty = FALSE /\ sinceFlush = 0
  /\ bulk = FALSE /\ bulkSaved = <<>> /\ autoFlush = AutoFlush
  /\ memEnabled = FALSE /\ mirror = <<>>
  /\ torn = "none" /\ tornId = 0 /\ hidden = {}
  /\ calls = 0 /\ acked = {} /\ ackedAuto = {} /\ crashes = 0

\* The file.flush() of the open handle together with the resets that follow it.
FlushHandle ==
  /\ AppendDurable(buffered)
  /\ buffered' = <<>>
  /\ sinceFlush' = 0
  /\ dirty' = FALSE

\* force_flush(): only with an open handle and pending writes.
ForceFlushEffect ==
  IF handleOpen /\ dirty
    THEN FlushHandle
    ELSE UNCHANGED <<durable, buffered, torn, tornId, hidden, sinceFlush, dirty>>

\* _ensure_flushed(), run first by every read method.
EnsureFlushedEffect ==
  IF dirty /\ FlushBeforeRead
    THEN ForceFlushEffect
    ELSE UNCHANGED <<durable, buffered, torn, tornId, hidden, sinceFlush, dirty>>

-----------------------------------------------------------------------------
\* Which flush regime write_event applies: auto_flush is tested before
\* _bulk_mode, so bulk mode does not suspend auto-flush.
\* Mutant: the bulk flag tested before auto_flush.
RegimeBulkFirst == IF bulk THEN "bulk" ELSE IF autoFlush THEN "auto" ELSE "periodic"
Regime == IF autoFlush THEN "auto" ELSE IF ~bulk THEN "periodic" ELSE "bulk"

\* The periodic trigger: writes since the last flush reach the threshold, or
\* the wall-clock interval has elapsed (any outcome of the clock is possible).
\* Mutant: '>' for '>=' in the write-count trigger.
FlushDueStrict(since, elapsed) == since > FlushIntervalWrites \/ elapsed
FlushDue(since, elapsed) == since >= FlushIntervalWrites \/ elapsed

\* The line written to the handle stays in Python's buffer: _dirty is set and
\* _write_count_since_flush counts it.
Buffer(rec, since) ==
  /\ buffered' = Append(buffered, rec)
  /\ dirty' = TRUE
  /\ sinceFlush' = since
  /\ UNCHANGED <<durable, torn, tornId, hidden>>

\* _file_handle.write(line) followed by the regime's flush decision.
AppendToHandle(rec) ==
  LET since == sinceFlush + 1 IN
  \E elapsed \in BOOLEAN :
    IF Regime = "auto" \/ (Regime = "periodic" /\ FlushDue(since, elapsed))
      THEN /\ AppendDurable(Append(buffered, rec))
           /\ buffered' = <<>> /\ dirty' = FALSE /\ sinceFlush' = 0
      ELSE Buffer(rec, since)

-----------------------------------------------------------------------------
(* write_event(data, timestamp).  A stopped ledger returns -1 and changes  *)
(* nothing (a stuttering step).  Otherwise the id is taken first; then the *)
(* timestamp is resolved (explicit > payload > clock, any of Timestamps),  *)
(* the event goes to the mirror, then to the file by one of three paths,   *)
(* and the call returns the id.  An exception anywhere after the increment *)
(* is caught and the call returns -1 with the counter already advanced.    *)
(* The hand-off to _notify_subscribers is modelled in LedgerNotify.        *)
WriteEvent ==
  /\ keepRunning
  /\ calls < MaxWrites
  /\ calls' = calls + 1
  /\ counter' = counter + 1
  /\ \E ts \in Timestamps, fault \in WriteFaults :
       LET rec == [id |-> counter + 1, ts |-> ts, data |-> calls + 1] IN
       /\ mirror' = IF memEnabled /\ fault # "timestamp"
                      THEN Append(mirror, rec) ELSE mirror
       /\ IF fault # "none"
            THEN /\ UNCHANGED <<durable, buffered, torn, tornId, hidden, dirty, sinceFlush, fileExists, acked,
                                ackedAuto>>
            ELSE /\ acked' = acked \cup {rec}
                 /\ ackedAuto' = IF autoFlush THEN ackedAuto \cup {rec} ELSE ackedAuto
                 /\ IF started /\ handleOpen
                      THEN AppendToHandle(rec) /\ UNCHANGED fileExists
                      \* not started: open(ledger_file, "a"), write, flush, close
                      ELSE /\ AppendDurable(<<rec>>)
                           /\ fileExists' = TRUE
                           /\ UNCHANGED <<buffered, dirty, sinceFlush>>
  /\ UNCHANGED <<handleOpen, started, keepRunning, bulk, bulkSaved, memEnabled,
                 crashes, autoFlush>>

\* force_flush(), called by housekeeping, by the manager, or by a caller.
ForceFlush ==
  /\ ForceFlushEffect
  /\ UNCHANGED <<counter, fileExists, handleOpen, started, keepRunning, bulk,
                 bulkSaved, memEnabled, mirror, calls, acked, crashes, autoFlush, ackedAuto>>

\* read_events / read_events_stream / read_events_stream_reverse /
\* stream_events_filtered: _ensure_flushed, then a view of mirror or disk.
ReadEvents ==
  /\ EnsureFlushedEffect
  /\ UNCHANGED <<counter, fileExists, handleOpen, started, keepRunning, bulk,
                 bulkSaved, memEnabled, mirror, calls, acked, crashes, autoFlush, ackedAuto>>

\* get_latest_event: the mirror path returns without _ensure_flushed; the
\* disk path goes through read_events_stream_reverse, which flushes.
GetLatestEvent ==
  /\ ~memEnabled
  /\ ReadEvents

\* bulk_write_mode() entry: save the old flag, set it.
BulkEnter ==
  /\ Len(bulkSaved) < MaxBulkDepth
  /\ bulkSaved' = Append(bulkSaved, bulk)
  /\ bulk' = TRUE
  /\ UNCHANGED <<counter, durable, buffered, torn, tornId, hidden, fileExists, handleOpen, started,
                 keepRunning, dirty, sinceFlush, memEnabled, mirror, calls,
                 acked, crashes, autoFlush, ackedAuto>>

\* bulk_write_mode() exit (finally): restore the saved flag; flush only when
\* the outermost scope exits.
BulkExit ==
  /\ bulkSaved # <<>>
  /\ LET old == Last(bulkSaved) IN
     /\ bulk' = old
     /\ bulkSaved' = Front(bulkSaved)
     /\ IF ~old THEN ForceFlushEffect
                ELSE UNCHANGED <<durable, buffered, torn, tornId, hidden, sinceFlush, dirty>>
  /\ UNCHANGED <<counter, fileExists, handleOpen, started, keepRunning,
                 memEnabled, mirror, calls, acked, crashes, autoFlush, ackedAuto>>

\* start(): open(ledger_file, "a") creates the file; a failed open leaves
\* _started FALSE and the old handle in place.  There is no guard: a start()
\* on an open handle replaces it, and CPython closes the dropped handle,
\* which writes its buffer out.
Start ==
  /\ \/ /\ handleOpen' = TRUE /\ started' = TRUE /\ fileExists' = TRUE
        /\ IF handleOpen THEN AppendDurable(buffered) /\ buffered' = <<>>
                         ELSE UNCHANGED <<durable, buffered, torn, tornId, hidden>>
     \/ /\ started' = FALSE
        /\ UNCHANGED <<handleOpen, fileExists, durable, buffered, torn, tornId, hidden>>
  /\ UNCHANGED <<counter, keepRunning, dirty, sinceFlush, bulk, bulkSaved, memEnabled,
                 mirror, calls, acked, crashes, autoFlush, ackedAuto>>

\* stop(): refuse further writes; flush, fsync and close an open handle.
\* _dirty and _write_count_since_flush are left as they were.
Stop ==
  /\ keepRunning' = FALSE
  /\ IF handleOpen
       THEN /\ AppendDurable(buffered) /\ buffered' = <<>>
            /\ handleOpen' = FALSE
       ELSE UNCHANGED <<durable, buffered, torn, tornId, hidden, handleOpen>>
  /\ UNCHANGED <<counter, fileExists, started, dirty, sinceFlush, bulk, bulkSaved,
                 memEnabled, mirror, calls, acked, crashes, autoFlush, ackedAuto>>

\* enable_memory_cache(): reads switch to the mirror, which keeps whatever it
\* holds (empty after a disable) and is not filled from the file.
EnableMemoryCache ==
  /\ memEnabled' = TRUE
  /\ UNCHANGED <<counter, durable, buffered, torn, tornId, hidden, fileExists, handleOpen, started,
                 keepRunning, dirty, sinceFlush, bulk, bulkSaved, mirror, calls,
                 acked, crashes, autoFlush, ackedAuto>>

\* disable_memory_cache(): back to disk reads, mirror cleared.
DisableMemoryCache ==
  /\ memEnabled' = FALSE
  /\ mirror' = <<>>
  /\ UNCHANGED <<counter, durable, buffered, torn, tornId, hidden, fileExists, handleOpen, started,
                 keepRunning, dirty, sinceFlush, bulk, bulkSaved, calls, acked, crashes, autoFlush, ackedAuto>>

\* hydrate(cutoff): a missing file returns 0 untouched.  Otherwise the mirror
\* is cleared and disabled, read_events_stream() (flush-before-read, then a
\* disk read) feeds every record with ts >= cutoff into it, and memory reads
\* are switched on only if something was loaded.  An exception on the way
\* is logged and leaves the mirror cleared, part-filled and disabled.
Hydrate(cutoff) ==
  /\ fileExists
  /\ EnsureFlushedEffect
  /\ LET loaded == SelectSeq(durable', LAMBDA r : r.ts >= cutoff) IN
     \/ /\ mirror' = loaded
        /\ memEnabled' = (loaded # <<>>)
     \* `except Exception: return 0`, after the clear and part of the stream
     \/ \E n \in 0..Len(loaded) :
          /\ mirror' = SubSeq(loaded, 1, n)
          /\ memEnabled' = FALSE
  /\ UNCHANGED <<counter, fileExists, handleOpen, started, keepRunning, bulk,
                 bulkSaved, calls, acked, crashes, autoFlush, ackedAuto>>

\* cleanup_memory(cutoff): a no-op with the mirror disabled; otherwise prune
\* the entries older than cutoff.
CleanupMemory(cutoff) ==
  /\ memEnabled
  /\ mirror' = SelectSeq(mirror, LAMBDA r : r.ts >= cutoff)
  /\ UNCHANGED <<counter, durable, buffered, torn, tornId, hidden, fileExists, handleOpen, started,
                 keepRunning, dirty, sinceFlush, bulk, bulkSaved, memEnabled,
                 calls, acked, crashes, autoFlush, ackedAuto>>

\* LedgerManager.set_auto_flush(enabled), for this ledger: set the flag and,
\* when enabling, force_flush().
SetAutoFlush(enabled) ==
  /\ autoFlush' = enabled
  /\ IF enabled THEN ForceFlushEffect
                ELSE UNCHANGED <<durable, buffered, torn, tornId, hidden, sinceFlush, dirty>>
  /\ UNCHANGED <<counter, fileExists, handleOpen, started, keepRunning, bulk,
                 bulkSaved, memEnabled, mirror, calls, acked, ackedAuto,
                 crashes>>

\* A process crash: Python's buffer may have spilled the first k buffered
\* lines to the OS, and a cut head of the next; the rest is lost.  The
\* restarted process runs __init__ again, recovering _sequence_counter.
Crash ==
  /\ crashes < MaxCrashes
  /\ crashes' = crashes + 1
  /\ \E k \in 0..Len(buffered), cut \in Cuts \cup {"none"} :
       /\ cut # "none" => k < Len(buffered)
       /\ LET ls == SubSeq(buffered, 1, k)
              t == AfterLines(torn, ls)
              \* a head cut onto a head that holds the key parses as no id
              t2 == IF cut = "none" THEN t
                    ELSE IF t \in {"key", "whole"} THEN "key" ELSE cut
          IN /\ durable' = durable \o ls
             /\ hidden' = hidden \cup Hides(torn, ls)
             /\ torn' = t2
             /\ tornId' = IF cut # "none" THEN buffered[k + 1].id
                          ELSE IF ls # <<>> THEN 0 ELSE tornId
             /\ counter' = LoadSequenceCounter(durable', torn', tornId', hidden')
  /\ buffered' = <<>>
  /\ handleOpen' = FALSE /\ started' = FALSE /\ keepRunning' = TRUE
  /\ dirty' = FALSE /\ sinceFlush' = 0
  /\ bulk' = FALSE /\ bulkSaved' = <<>>
  /\ memEnabled' = FALSE /\ mirror' = <<>>
  /\ autoFlush' = AutoFlush
  /\ UNCHANGED <<fileExists, calls, acked, ackedAuto>>

Next ==
  \/ WriteEvent
  \/ ForceFlush
  \/ ReadEvents
  \/ GetLatestEvent
  \/ BulkEnter
  \/ BulkExit
  \/ Start
  \/ Stop
  \/ EnableMemoryCache
  \/ DisableMemoryCache
  \/ \E c \in Timestamps : Hydrate(c)
  \/ \E c \in Timestamps : CleanupMemory(c)
  \/ \E e \in BOOLEAN : SetAutoFlush(e)
  \/ Crash

Spec == Init /\ [][Next]_vars

-----------------------------------------------------------------------------
TypeOK ==
  /\ counter \in Nat
  /\ durable \in Seq(Record) /\ buffered \in Seq(Record) /\ mirror \in Seq(Record)
  /\ {fileExists, handleOpen, started, keepRunning, dirty, bulk, memEnabled} \subseteq BOOLEAN
  /\ sinceFlush \in Nat
  /\ bulkSaved \in Seq(BOOLEAN)
  /\ calls \in 0..MaxWrites /\ crashes \in 0..MaxCrashes
  /\ autoFlush \in BOOLEAN /\ ackedAuto \subseteq acked
  /\ acked \subseteq Record
  /\ torn \in Cuts \cup {"none"} /\ tornId \in 0..MaxWrites /\ hidden \subseteq DOMAIN durable

\* No id that write_event returned to a caller is ever returned for a
\* different record, even after a crash and counter recovery (spec section 3:
\* ids are never reused, even across process restarts).
AckedIdsNeverReused ==
  \A a, b \in acked : a.id = b.id => a = b

\* Every write that returned its id while auto_flush was set has reached the
\* OS and survives a process crash, bulk mode or not, and whatever
\* set_auto_flush did before or after.
AckedWritesDurable ==
  \A a \in ackedAuto : a \in RecordSet(durable)

\* Periodic regime: outside a bulk_write_mode scope, fewer than
\* flush_interval_writes completed writes sit unflushed in the handle, so a
\* crash loses at most that many.
UnflushedBounded ==
  (handleOpen /\ ~bulk) => Len(buffered) < FlushIntervalWrites

=============================================================================
