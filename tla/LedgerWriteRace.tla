---------------------------- MODULE LedgerWriteRace ----------------------------
(***************************************************************************)
(* The write path of one EventLedger (src/sample/event_ledger.py) run by   *)
(* several threads at once, as the spec allows ("callers may call          *)
(* concurrently ... in principle within a category"), against threads that *)
(* call force_flush: readers through _ensure_flushed and the housekeeping  *)
(* loop.  write_event holds no lock, so each Python statement that touches *)
(* shared state is its own step: the load and the store of                 *)
(* `self._sequence_counter += 1`, the read of the counter into event_id,   *)
(* the mirror append (under _memory_lock), the write of the line with the  *)
(* _dirty and count updates, the flush, and the resets after it.  The GIL  *)
(* makes each of these steps atomic, and any thread may run between them.  *)
(* The handle is open and the ledger running throughout.  Housekeeping   *)
(* threads run the flush half of ledger_housekeeping.housekeeping_loop:    *)
(* flush_all_ledgers, forever, every 60 seconds.                           *)
(***************************************************************************)
EXTENDS Naturals, Sequences, FiniteSets

CONSTANTS
  Writers,             \* threads calling write_event
  Flushers,            \* threads calling force_flush / _ensure_flushed
  Housekeepers,        \* threads running housekeeping_loop
  MaxWrites,           \* bound on write_event calls
  FlushIntervalWrites, \* ledger.flush_interval_writes
  AutoFlush,           \* auto_flush
  MemEnabled,          \* _is_memory_enabled for the whole run
  SpillPossible,       \* the handle's buffer may fill and write out mid-line
  Stoppers             \* threads calling stop() (at most one call each)

ASSUME /\ Writers # {} /\ Writers \cap Flushers = {}
       /\ Housekeepers \cap (Writers \cup Flushers) = {}
       /\ MaxWrites \in Nat \ {0} /\ FlushIntervalWrites \in Nat \ {0}
       /\ AutoFlush \in BOOLEAN /\ MemEnabled \in BOOLEAN
       /\ SpillPossible \in BOOLEAN
       /\ Cardinality(Stoppers) <= 1
       /\ Stoppers \cap (Writers \cup Flushers \cup Housekeepers) = {}

VARIABLES
  counter,    \* _sequence_counter
  durable,    \* lines flushed to the OS
  buffered,   \* lines in the handle's Python buffer
  dirty,      \* _dirty
  sinceFlush, \* _write_count_since_flush
  mirror,     \* _memory_cache
  pc,         \* program counter of each thread
  loaded,     \* per writer: the counter value its `+= 1` loaded
  rec,        \* per writer: the event it is writing
  calls,      \* history: write_event calls begun; the payload of a call
  acked,      \* history: records whose write_event has returned their id
  torn,       \* the last line on the OS side is cut: its tail is still buffered
  keepRunning, \* _keep_running
  handle      \* _file_handle: "open", "closed" (closed, not yet None), "none"

vars == <<counter, durable, buffered, dirty, sinceFlush, mirror, pc, loaded,
          rec, calls, acked, torn, keepRunning,
          handle>>

Threads == Writers \cup Flushers \cup Housekeepers \cup Stoppers

NoRecord == [id |-> 0, data |-> 0]
Record == [id : Nat, data : 0..MaxWrites]

FileRecords == durable \o buffered

RecordSet(s) == {s[i] : i \in DOMAIN s}

\* The lines wholly on the OS side: a cut last line still has its tail buffered.
WholeLines == IF torn THEN SubSeq(durable, 1, Len(durable) - 1) ELSE durable

Init ==
  /\ counter = 0
  /\ durable = <<>> /\ buffered = <<>>
  /\ dirty = FALSE /\ sinceFlush = 0
  /\ mirror = <<>>
  /\ pc = [t \in Threads |-> "idle"]
  /\ loaded = [t \in Writers |-> 0]
  /\ rec = [t \in Writers |-> NoRecord]
  /\ calls = 0 /\ acked = {}
  /\ torn = FALSE
  /\ keepRunning = TRUE /\ handle = "open"

Step(t, from, to) == pc[t] = from /\ pc' = [pc EXCEPT ![t] = to]

\* The periodic trigger; the wall-clock interval may or may not have elapsed.
FlushDue(since, elapsed) == since >= FlushIntervalWrites \/ elapsed

\* Mutant: auto_flush not consulted.
FlushNowIgnoringAuto(since, elapsed) == FlushDue(since, elapsed)

\* Whether write_event flushes after its line: always with auto_flush,
\* otherwise when the periodic trigger is due.
FlushNow(since, elapsed) == AutoFlush \/ FlushDue(since, elapsed)

-----------------------------------------------------------------------------
(* write_event, one step per statement that touches shared state.          *)

\* `if not self._keep_running: return -1`, then `self._sequence_counter
\* += 1`: LOAD_ATTR ...  (stop() touches neither the counter nor the event,
\* so the check and the load are one step.)
LoadCounter(t) ==
  /\ calls < MaxWrites /\ keepRunning
  /\ Step(t, "idle", "store")
  /\ calls' = calls + 1
  /\ loaded' = [loaded EXCEPT ![t] = counter]
  /\ rec' = [rec EXCEPT ![t] = [id |-> 0, data |-> calls + 1]]
  /\ UNCHANGED <<counter, durable, buffered, dirty, sinceFlush, mirror, acked, torn, keepRunning, handle>>

\* `if not self._keep_running: return -1` after stop(): no id is taken.
Refused(t) ==
  /\ calls < MaxWrites /\ ~keepRunning /\ pc[t] = "idle"
  /\ calls' = calls + 1
  /\ UNCHANGED <<counter, durable, buffered, dirty, sinceFlush, mirror, pc, loaded, rec, acked,
                 torn, keepRunning, handle>>

\* ... INPLACE_ADD, STORE_ATTR.
StoreCounter(t) ==
  /\ Step(t, "store", "readId")
  /\ counter' = loaded[t] + 1
  /\ UNCHANGED <<durable, buffered, dirty, sinceFlush, mirror, loaded, rec, calls, acked, torn, keepRunning, handle>>

\* `event_id = self._sequence_counter`, then the event object is built.
ReadEventId(t) ==
  /\ Step(t, "readId", "mirror")
  /\ rec' = [rec EXCEPT ![t].id = counter]
  /\ UNCHANGED <<counter, durable, buffered, dirty, sinceFlush, mirror, loaded, calls, acked, torn, keepRunning, handle>>

\* `if self._is_memory_enabled: with self._memory_lock: append`.
MirrorAppend(t) ==
  /\ Step(t, "mirror", "check")
  /\ mirror' = IF MemEnabled THEN Append(mirror, rec[t]) ELSE mirror
  /\ UNCHANGED <<counter, durable, buffered, dirty, sinceFlush, loaded, rec, calls, acked, torn, keepRunning, handle>>

\* `if self._started and ... self._file_handle:` (_started stays True
\* after stop()): the open handle, or the not-started fallback.
CheckHandle(t) ==
  /\ pc[t] = "check"
  /\ pc' = [pc EXCEPT ![t] = IF handle = "none" THEN "fallback" ELSE "write"]
  /\ UNCHANGED <<counter, durable, buffered, dirty, sinceFlush, mirror, loaded, rec, calls, acked,
                 torn, keepRunning, handle>>

\* The id is taken and the call raised: `except Exception: return -1`.
Fail(t) ==
  /\ pc' = [pc EXCEPT ![t] = "idle"]

\* `_file_handle.write(line)`, `_dirty = True`, `_write_count_since_flush
\* += 1`; on a handle stop() closed (ValueError) or set to None
\* (AttributeError) the call returns -1.
WriteLine(t) ==
  /\ pc[t] = "write"
  /\ IF handle = "open"
       THEN /\ pc' = [pc EXCEPT ![t] = "policy"]
            /\ buffered' = Append(buffered, rec[t])
            /\ dirty' = TRUE
            /\ sinceFlush' = sinceFlush + 1
       ELSE /\ Fail(t)
            /\ UNCHANGED <<buffered, dirty, sinceFlush>>
  /\ UNCHANGED <<counter, durable, mirror, loaded, rec, calls, acked, torn, keepRunning, handle>>

\* The same statements when `_file_handle.write(line)` fills the handle's
\* buffer (periodic regime, lines accumulating): the buffered lines and the
\* head of this one go to the OS, the rest of the line stays buffered.
WriteLineSpill(t) ==
  /\ SpillPossible /\ ~AutoFlush /\ buffered # <<>>
  /\ pc[t] = "write" /\ handle = "open"
  /\ pc' = [pc EXCEPT ![t] = "policy"]
  /\ durable' = durable \o buffered \o <<rec[t]>>
  /\ buffered' = <<>>
  /\ torn' = TRUE
  /\ dirty' = TRUE
  /\ sinceFlush' = sinceFlush + 1
  /\ UNCHANGED <<counter, mirror, loaded, rec, calls, acked,
                 keepRunning, handle>>

\* `with open(self.ledger_file, "a") as f: f.write(...); f.flush()`: the
\* line goes to the OS through a handle of its own; the id is returned.
FallbackWrite(t) ==
  /\ Step(t, "fallback", "idle")
  /\ durable' = durable \o <<rec[t]>>
  /\ acked' = acked \cup {rec[t]}
  /\ UNCHANGED <<counter, buffered, dirty, sinceFlush, mirror, loaded, rec, calls, torn, keepRunning, handle>>

\* The regime's decision: auto_flush flushes; the periodic regime flushes
\* when due; in bulk mode (not modelled here) or when not due the call
\* returns the id.  A flush on a handle stop() closed raises: under
\* auto_flush out of the call (-1), in the periodic branch into its own
\* `except`, which logs and goes on to return the id.
FlushPolicy(t) ==
  /\ pc[t] = "policy"
  /\ \E elapsed \in BOOLEAN :
       CASE FlushNow(sinceFlush, elapsed) /\ handle = "open" ->
              /\ pc' = [pc EXCEPT ![t] = "reset"]
              /\ durable' = durable \o buffered
              /\ buffered' = <<>>
              /\ torn' = FALSE
              /\ UNCHANGED acked
         [] FlushNow(sinceFlush, elapsed) /\ AutoFlush ->
              /\ Fail(t)
              /\ UNCHANGED <<durable, buffered, torn, acked>>
         [] OTHER ->
              /\ pc' = [pc EXCEPT ![t] = "idle"]
              /\ acked' = acked \cup {rec[t]}
              /\ UNCHANGED <<durable, buffered, torn>>
  /\ UNCHANGED <<counter, dirty, sinceFlush, mirror, loaded, rec, calls, keepRunning, handle>>

\* Mutant: the count lowered by the threshold instead of reset to 0.
ResetAfterFlushSubtract(t) ==
  /\ Step(t, "reset", "idle")
  /\ dirty' = FALSE
  /\ sinceFlush' = sinceFlush - FlushIntervalWrites
  /\ acked' = acked \cup {rec[t]}
  /\ UNCHANGED <<counter, durable, buffered, mirror, loaded, rec, calls, torn, keepRunning, handle>>

\* After the writer's own file.flush(): `_dirty = False`,
\* `_write_count_since_flush = 0`; then the id is returned.
ResetAfterFlush(t) ==
  /\ Step(t, "reset", "idle")
  /\ dirty' = FALSE
  /\ sinceFlush' = 0
  /\ acked' = acked \cup {rec[t]}
  /\ UNCHANGED <<counter, durable, buffered, mirror, loaded, rec, calls, torn, keepRunning, handle>>

-----------------------------------------------------------------------------
(* force_flush, reached directly or through _ensure_flushed.               *)

\* `if self._file_handle and self._dirty:` then `_file_handle.flush()`; on
\* a handle stop() has closed the flush raises, force_flush logs it and
\* returns False.
FlushHandle(f) ==
  /\ IF handle = "open"
       THEN /\ pc' = [pc EXCEPT ![f] = "freset"]
            /\ durable' = durable \o buffered
            /\ buffered' = <<>>
            /\ torn' = FALSE
       ELSE /\ pc' = [pc EXCEPT ![f] = "idle"]
            /\ UNCHANGED <<durable, buffered, torn>>

ForceFlushIO(f) ==
  /\ pc[f] = "idle" /\ dirty /\ handle # "none"
  /\ FlushHandle(f)
  /\ UNCHANGED <<counter, dirty, sinceFlush, mirror, loaded, rec, calls, acked, keepRunning, handle>>

\* `_write_count_since_flush = 0`, `_last_flush_time = ...`, `_dirty = False`.
ForceFlushReset(f) ==
  /\ Step(f, "freset", "idle")
  /\ sinceFlush' = 0
  /\ dirty' = FALSE
  /\ UNCHANGED <<counter, durable, buffered, mirror, loaded, rec, calls, acked, torn, keepRunning, handle>>

-----------------------------------------------------------------------------
(* ledger_housekeeping.flush_all_ledgers, one loop iteration per call.     *)

\* `if ... ledger._file_handle and not ledger.auto_flush:` and
\* `if pending_writes > 0:` read _write_count_since_flush; then
\* `ledger.force_flush()`, or the iteration ends.
FlushAllLedgers(h) ==
  /\ pc[h] = "idle"
  /\ pc' = [pc EXCEPT ![h] = IF handle # "none" /\ ~AutoFlush /\ sinceFlush > 0
                             THEN "hkflush" ELSE "idle"]
  /\ UNCHANGED <<counter, durable, buffered, dirty, sinceFlush, mirror, loaded, rec, calls, acked,
                 torn, keepRunning, handle>>

\* force_flush called by housekeeping: `if self._file_handle and
\* self._dirty:` flush, then the resets (ForceFlushReset); otherwise it
\* returns False.
HousekeepingFlush(h) ==
  /\ pc[h] = "hkflush"
  /\ IF dirty /\ handle # "none"
       THEN FlushHandle(h)
       ELSE /\ pc' = [pc EXCEPT ![h] = "idle"]
            /\ UNCHANGED <<durable, buffered, torn>>
  /\ UNCHANGED <<counter, dirty, sinceFlush, mirror, loaded, rec, calls, acked, keepRunning, handle>>

-----------------------------------------------------------------------------
(* EventLedger.stop(), called once by a thread of its own (the manager's   *)
(* stop() runs each ledger's stop in a worker thread).                     *)

\* `self._keep_running = False`.
StopBegin(s) ==
  /\ Step(s, "idle", "sflush")
  /\ keepRunning' = FALSE
  /\ UNCHANGED <<counter, durable, buffered, dirty, sinceFlush, mirror, loaded, rec, calls, acked,
                 torn, handle>>

\* `if ... self._file_handle:` (open: stop() runs once, after start())
\* then `_file_handle.flush()` and fsync.
StopFlush(s) ==
  /\ Step(s, "sflush", "sclose")
  /\ durable' = durable \o buffered
  /\ buffered' = <<>>
  /\ torn' = FALSE
  /\ UNCHANGED <<counter, dirty, sinceFlush, mirror, loaded, rec, calls, acked, keepRunning, handle>>

\* Mutant: the descriptor is closed under the buffer, whose lines are lost.
StopCloseDiscard(s) ==
  /\ Step(s, "sclose", "snone")
  /\ buffered' = <<>>
  /\ handle' = "closed"
  /\ UNCHANGED <<counter, durable, dirty, sinceFlush, mirror, loaded, rec, calls, acked, torn, keepRunning>>

\* `self._file_handle.close()`, which flushes what writers added since.
StopClose(s) ==
  /\ Step(s, "sclose", "snone")
  /\ durable' = durable \o buffered
  /\ buffered' = <<>>
  /\ torn' = FALSE
  /\ handle' = "closed"
  /\ UNCHANGED <<counter, dirty, sinceFlush, mirror, loaded, rec, calls, acked, keepRunning>>

\* `self._file_handle = None`.
StopRelease(s) ==
  /\ Step(s, "snone", "stopped")
  /\ handle' = "none"
  /\ UNCHANGED <<counter, durable, buffered, dirty, sinceFlush, mirror, loaded, rec, calls, acked,
                 torn, keepRunning>>

StopStep(s) == StopFlush(s) \/ StopClose(s) \/ StopRelease(s)

Terminated ==
  /\ calls = MaxWrites
  /\ \A t \in Threads : pc[t] \in {"idle", "stopped"}
  /\ UNCHANGED vars

Next ==
  \/ Terminated
  \/ \E t \in Writers :
       \/ LoadCounter(t) \/ StoreCounter(t) \/ ReadEventId(t)
       \/ MirrorAppend(t) \/ CheckHandle(t) \/ WriteLine(t) \/ WriteLineSpill(t)
       \/ FallbackWrite(t) \/ FlushPolicy(t) \/ ResetAfterFlush(t) \/ Refused(t)
  \/ \E f \in Flushers : ForceFlushIO(f) \/ ForceFlushReset(f)
  \/ \E h \in Housekeepers : FlushAllLedgers(h) \/ HousekeepingFlush(h) \/ ForceFlushReset(h)
  \/ \E s \in Stoppers : StopBegin(s) \/ StopStep(s)

Spec == Init /\ [][Next]_vars

WriterStep(t) ==
  LoadCounter(t) \/ StoreCounter(t) \/ ReadEventId(t) \/ MirrorAppend(t)
  \/ CheckHandle(t) \/ WriteLine(t) \/ WriteLineSpill(t) \/ FallbackWrite(t)
  \/ FlushPolicy(t) \/ ResetAfterFlush(t) \/ Refused(t)

\* Every runnable Python thread is eventually scheduled (the GIL is handed
\* over every switch interval), and housekeeping_loop never exits: it is
\* `while True` with a sleep, and catches every exception.  A
\* stop() call is never assumed to be made, but once made it runs to its end.
FairSpec ==
  /\ Spec
  /\ \A t \in Writers : WF_vars(WriterStep(t))
  /\ \A f \in Flushers : WF_vars(ForceFlushIO(f) \/ ForceFlushReset(f))
  /\ \A h \in Housekeepers :
       WF_vars(FlushAllLedgers(h) \/ HousekeepingFlush(h) \/ ForceFlushReset(h))
  /\ \A s \in Stoppers : WF_vars(StopStep(s))

-----------------------------------------------------------------------------
TypeOK ==
  /\ counter \in Nat /\ sinceFlush \in Nat /\ dirty \in BOOLEAN
  /\ durable \in Seq(Record) /\ buffered \in Seq(Record) /\ mirror \in Seq(Record)
  /\ pc \in [Threads -> {"idle", "store", "readId", "mirror", "check", "write", "fallback",
                         "policy", "reset", "freset", "hkflush", "sflush", "sclose",
                         "snone", "stopped"}]
  /\ keepRunning \in BOOLEAN /\ handle \in {"open", "closed", "none"}
  /\ loaded \in [Writers -> Nat] /\ rec \in [Writers -> Record]
  /\ calls \in 0..MaxWrites /\ acked \subseteq Record
  /\ torn \in BOOLEAN

\* Writers still inside write_event and the records they are writing.
InFlight == {rec[t] : t \in {w \in Writers : pc[w] # "idle"}}

\* Read consistency (spec section 3): when _dirty is clear, every line still
\* in the handle's buffer belongs to a write_event call that has not yet
\* returned, so a reader that skips the flush misses no completed write.
CompletedWritesVisible ==
  ~dirty => \A i \in DOMAIN buffered : buffered[i] \in InFlight

\* With auto_flush, a write_event that returned its id has its line on the
\* OS side whatever the other writers and flushers did meanwhile.
AckedWritesDurable ==
  \A a \in acked : a \in RecordSet(durable)

\* No two lines of the file carry the same id (spec section 5 requires the
\* id assignment and the append to be one critical section).
FileIdsUnique ==
  \A i, j \in DOMAIN FileRecords : i # j => FileRecords[i].id # FileRecords[j].id

\* stop() ("CRITICAL: Flush any pending writes before closing"): once it
\* has returned, every write_event that returned an id has its line on the
\* OS side, whichever statement of a racing write_event the flush, the
\* close and the release of the handle fell between.
StopKeepsAckedWrites ==
  \A s \in Stoppers :
    pc[s] = "stopped" => \A a \in acked : a \in RecordSet(WholeLines)

\* Housekeeping's contract (spec section 6: flush_all "flushes every ledger
\* with pending dirty writes"): in the periodic regime, a write whose
\* write_event returned is eventually flushed to the OS by the housekeeping
\* loop, without any further write or read.
AckedEventuallyDurable ==
  \A n \in 1..MaxWrites :
    (\E a \in acked : a.data = n) ~> (\E i \in DOMAIN WholeLines : WholeLines[i].data = n)


=============================================================================
