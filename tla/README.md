# TLA+ models of the event ledger

This directory holds TLA+ models of the per-category event ledger in
`src/sample/`, with the TLC configurations that check them. Every action is
translated from the Python source. `PROJECT.json` maps each definition to the
lines it models, and lists the runs, the mutants, the findings and the hazards.

## 1. Inventory

### Components

| Component | Source | State it keeps | Operations that change state |
|---|---|---|---|
| **EventLedger**: one category's append-only file | `event_ledger.py` | `_sequence_counter`; the open `_file_handle` and its Python buffer; the OS-side file; `_started`, `_keep_running`; `_dirty`, `_write_count_since_flush`, `_last_flush_time`; `_bulk_mode`; `_is_memory_enabled`, `_memory_cache` (under the RLock `_memory_lock`); `_subscribers` (callback plus `last_processed_id` cursor); the notification executor | `__init__` (counter recovery by `_load_sequence_counter`), `start`, `stop`, `write_event`, `force_flush`, `_ensure_flushed` (run by every read), `bulk_write_mode`, `enable_memory_cache`, `disable_memory_cache`, `hydrate`, `cleanup_memory`, `subscribe`, `_notify_subscribers`, `_do_notify_sync` |
| **Counter recovery** | `event_ledger.py:376-451` | none (a pure scan of the file) | tail scan of the last 4 KB, then a full-file fallback |
| **Reverse streaming** | `event_ledger.py:260-313` | none (a pure read) | 64 KB backward chunks, carrying the partial line forward |
| **LedgerManager** | `ledger_manager.py` | `ledgers` (one per `EventType`); `_keep_running`; `_system_ready`; `_buffered_events`; `_historical_data_loaded`; the shared `notification_executor` | `write_event` (readiness gate), `set_system_ready` (drain), `start`, `stop`, `bulk_write_mode`, `set_auto_flush`, `load_historical_data`, `cleanup_memory_ledgers`, `enable_memory_ledger`, `disable_memory_ledger`, and the read, subscribe and stream dispatchers |
| **Housekeeping loop** | `ledger_housekeeping.py` | `last_flush`, `last_cleanup` | `flush_all_ledgers` (calls `force_flush`), `cleanup_old_price_data` |
| **StreamReader** | `stream_reader.py` | callback lists | `tail_events`, which polls the file read-only |
| **Event types** | `event_types.py` | `BaseEvent` record | none |

### How the components interact

- A producer calls `LedgerManager.write_event`. If the manager is not
  `_system_ready`, the write goes into `_buffered_events`; otherwise it goes
  to `EventLedger.write_event`.
- `EventLedger.write_event` does the following, in this order:
  1. takes the next id;
  2. resolves the timestamp;
  3. appends to the mirror, if the mirror is enabled;
  4. writes a JSON line to the handle;
  5. applies the flush regime: auto, periodic (count or wall-clock), or bulk (skip);
  6. submits `_do_notify_sync` to the shared `ThreadPoolExecutor`
     (10 workers), falling back to calling it in-line.
- Every read method first calls `_ensure_flushed`, which calls `force_flush`
  when `_dirty` is set. It then reads either the mirror or a fresh
  `open()` of the file.
- The manager's `bulk_write_mode`, `load_historical_data`,
  `cleanup_memory_ledgers`, `start` and `stop` loop over the ledgers.
  `stop` stops every ledger on its own thread, waits at most 10 s for each
  one, and then shuts the shared executor down.
- The housekeeping thread calls `force_flush` on non-auto-flush ledgers.
- The StreamReader's `tail_events` would read the file one `readline` at
  a time, but its first statement calls a method the manager does not
  have, so it never reaches its read loop.

### What makes it hard

- **Threads without locks.** `write_event` takes no lock. Writers to one
  category, reader threads (through `_ensure_flushed`), the housekeeping
  thread and the pool workers all touch `_sequence_counter`, `_dirty`,
  `_write_count_since_flush` and the subscriber cursors concurrently.
  Only the mirror has a lock.
- **Process crash.** `file.flush()` pushes Python's buffer to the OS. A
  crash loses what is still in the buffer, which can be a whole prefix of
  several lines. `__init__` then recovers the counter from what is on disk.
- **Partial failure.** `write_event` takes the id before its `try`. An
  exception after that point returns -1 but leaves the counter advanced
  and the mirror already appended.
- **Ordering.** Several pool workers deliver notifications in any order,
  while each subscriber has a single monotonic cursor. `set_system_ready`
  publishes readiness before it drains the buffer.
- **Scoped state.** The ledger's `bulk_write_mode` restores the saved flag.
  The manager's `bulk_write_mode` overwrites every ledger's flag.

### What each component must guarantee

- **EventLedger.** These are the invariants of spec section 3:
  - ids are unique;
  - ids are increasing and gapless from 1;
  - ids are never reused across restarts;
  - `_dirty` is false only when every completed write is flushed;
  - a mirror read returns exactly what a disk read returns, minus what a
    cutoff removed;
  - with auto-flush, an acknowledged write survives a crash;
  - with periodic flush, fewer than `flush_interval_writes` writes are
    unflushed outside bulk mode;
  - nested bulk scopes flush only at the outermost exit;
  - a subscriber sees each event after its join point exactly once, in id
    order.
- **Counter recovery.** The recovered value equals the highest id in the file.
- **Reverse streaming.** It yields the file's records newest-first.
- **LedgerManager.**
  - Buffered writes reach the ledger in arrival order, before any later
    write, and none are lost.
  - A cross-ledger bulk scope suspends flushing until the outermost exit.
  - Hydration runs at most once.
  - The executor shuts down only after every ledger has stopped.

## 2. Plan

The modules are listed in the order they were built, the most important
behaviour first.

1. **`EventLedger`** (built). One ledger with each public method as one
   atomic step, plus a process crash that may cut the last line, counter
   recovery and restart.
2. **`LedgerWriteRace`** (built). Statement-level interleaving of
   `write_event` against `force_flush` callers, the housekeeping loop and
   `stop()` as a concurrent thread.
3. **`LedgerNotify`** (built). The subscriber notification path, with the
   executor's workers and its shutdown.
4. **`LedgerManager`** (built). The manager's coordination calls against
   producer threads, with each ledger write split into its shared-state
   statements and `hydrate` as steps.
5. **`SequenceRecovery`** (built). The tail-scan/full-scan counter
   recovery and the forward and reverse stream readers as operators over
   the file text.

## 3. What is modelled now

### `EventLedger.tla`

The variables correspond to the attributes of the same meaning, listed in
the module header. The file is split in two parts:

- `durable` is the part the OS holds;
- `buffered` is the handle's Python buffer.

A fresh `open()` sees only `durable`.

Each public method is one action, with the `write_event` body taken as a
whole:

- `WriteEvent` does all of the following:
  - takes the id before any failure point;
  - appends to the mirror;
  - writes either to the handle (`AppendToHandle`, with `Regime` and
    `FlushDue`) or through the not-started fallback, which does its own
    `open`, `flush` and `close`.

  A fault drawn from `WriteFaults` can interrupt it. A `"timestamp"` fault
  comes before the mirror append; an `"encode"` fault comes after it.
- `ForceFlush`, `ReadEvents` (`_ensure_flushed` followed by a read) and
  `GetLatestEvent`, which skips the flush on the mirror path.
- `BulkEnter` / `BulkExit`. The saved `old_bulk_mode` of each open scope
  is kept in `bulkSaved`.
- `SetAutoFlush(enabled)`: `LedgerManager.set_auto_flush` on this ledger.
  It sets `auto_flush` and, when enabling, runs `force_flush`. The regime
  of every later write follows the variable `autoFlush`, so one run
  covers both regimes and the switches between them.
- `Start`, which may fail, and which replaces an already open handle
  (the dropped one is closed and writes its buffer out). `Stop`, which flushes and closes but leaves
  `_dirty` as it was.
- `EnableMemoryCache`, `DisableMemoryCache`, `Hydrate(cutoff)` (whose
  `except` path leaves the mirror cleared, part-filled and disabled),
  `CleanupMemory(cutoff)`.
- `Crash`. Some prefix of the buffer reaches the OS, and the rest is
  lost. The prefix may end inside a line, at one of three classes of cut
  (`Cuts`), chosen by what the recovery scan makes of the cut head:
  - `"head"`: cut before `"event_id": ` is complete, so no id is found;
  - `"key"`: cut after the key and before the closing `}`, so `end` is
    -1 and `line[start:-1]` drops the single digit of the id;
  - `"whole"`: everything but the newline, so the id parses.

  The restarted process re-runs `__init__`, with the counter set by
  `LoadSequenceCounter` and `auto_flush` back at its constructor value.
  `start()` reopens the file in append mode, so the next line written
  (`AppendDurable`) continues the cut head. A merged line whose head
  holds the key has no parseable id, and its position goes into `hidden`.
  `LoadSequenceCounter` returns the id of the newest line that is not
  hidden, the cut head's id for a `"whole"` cut, or 0. `torn` and
  `tornId` describe the cut at the end of the file. Ids of two digits or
  more, for which a `"key"` cut yields a prefix of the digits, are the
  subject of `SequenceRecovery`; here ids stay below 10.

The history variables are:

- `calls` gives each call a distinct payload;
- `acked` holds the records whose id was returned, and `ackedAuto` those
  returned while `auto_flush` was set.

Timestamps and cutoffs come from a small set. The clock, the payload
timestamp and the explicit argument can each produce any value.

### `LedgerWriteRace.tla`

Writer threads run `write_event` one shared-state statement at a time:

- `LoadCounter` and `StoreCounter`, the two halves of `+= 1`.
  `LoadCounter` also takes the `_keep_running` check; after `stop()`,
  `Refused` returns -1 with no id taken;
- `ReadEventId`;
- `MirrorAppend`;
- `CheckHandle`, the `if self._started and self._file_handle` test, which
  leads to `FallbackWrite` (the not-started path through a fresh handle)
  once `stop()` has set the handle to `None`;
- `WriteLine`, which also sets `_dirty` and bumps the count. On a handle
  that `stop()` closed or released, it raises and the call returns -1
  (`Fail`);
- `WriteLineSpill`, the same statement when the handle's buffer fills, so
  the buffered lines and the head of this line reach the OS (`torn`;
  `WholeLines` is the OS side without that head);
- `FlushPolicy`. On a closed handle, the flush raises: under `auto_flush`
  the call returns -1, and in the periodic branch its own `except` logs
  it and the id is returned;
- `ResetAfterFlush`.

The other threads are these:

- **Flusher threads** (readers through `_ensure_flushed`) run
  `force_flush` as `ForceFlushIO` followed by `ForceFlushReset`.
- **Housekeeping threads** run `flush_all_ledgers` forever.
  `FlushAllLedgers` reads `auto_flush` and `_write_count_since_flush`;
  `HousekeepingFlush` is `force_flush`'s `_dirty` test and flush, and then
  the same `ForceFlushReset` follows.
- **A stopper thread** (at most one) runs `EventLedger.stop()`:
  `StopBegin` clears `_keep_running`, then `StopFlush`, `StopClose`
  (`close()` flushes what writers added since) and `StopRelease` (the
  handle becomes `None`). `handle` is `"open"`, `"closed"` or `"none"`.
  A `force_flush` on a closed handle raises inside its `try` and
  changes nothing.

The GIL makes each of these steps atomic. The handle is open from the
start (`start()` has run). `Terminated` is the stuttering
end state once every bounded write has returned, so TLC's deadlock check
still catches a stuck thread. `FairSpec` adds weak fairness for the
liveness run.

### `LedgerNotify.tla`

One ledger's notification path. One writer thread runs `WriteEvent`, which
takes an id, and then `NotifySubscribers`. That step does one of three
things: it returns if there are no subscribers; it starts the delivery
loop itself if the executor's `_shutdown` is set; otherwise it appends
the task to the executor's FIFO `queue`. A worker that `TakeTask`s runs
`_do_notify_sync` as three steps per subscriber, with any thread able to
run between them:

- `CheckSubscriber`: `event_id > last_processed_id`;
- `CallSubscriber`: the callback returns, or, for a subscriber in
  `Failing`, raises;
- `AdvanceCursor`: `last_processed_id = event_id`.

The loop reads `_subscribers` by index, so a subscriber added by a
concurrent subscribe is visited. `subscribe` is two steps: `Subscribe`
builds the subscriber dict with the cursor read from the counter (line
640), and `SubscribeAppend` appends it to the list (line 643). An event
written in between finds the subscriber absent. `StopLedger` and
`ShutdownExecutor` are the two steps of `LedgerManager.stop()`, in that
order; queued tasks keep running after shutdown. The history variables
are `joinAt` (the counter the cursor was read from), `delivered`,
`failed` and `done` (ids whose delivery loop ran to its end).

`QueuedNotificationsRun` states that every task handed to the executor
eventually finishes its loop over the subscribers, however `stop()`
interleaves. Its mutant is a shutdown that cancels queued tasks.

### `LedgerManager.tla`

The manager over one ledger per category, in `Categories`. A ledger is
reduced to what the manager sees of it: the payloads its `write_event`
accepted (`log`), and its `_keep_running`, `_bulk_mode`, `auto_flush` and
mirror. Flushing and ids are the subject of the modules above.

Producer threads run `LedgerManager.write_event` as its statements,
continuing into `EventLedger.write_event`'s statements that touch state
the manager sees:

- `WriteEvent`: the call and the manager's `_keep_running` check;
- `CheckReady`: the `_system_ready` test;
- `BufferEvent`: the append to `_buffered_events`;
- `RouteWrite`: the call of the ledger's `write_event` and its
  `_keep_running` check. A ledger that was stopped returns -1, and the
  payload goes into `refused`;
- `LedgerMemCheck`: `if self._is_memory_enabled`, read outside the lock;
- `LedgerMemAppend`: the append to `_memory_cache` under `_memory_lock`,
  whatever the flag and the cache have become since the check;
- `LedgerFileWrite`: the line written to the file.

The drain of `set_system_ready` runs the same ledger steps on the admin
thread (`Ret` sends it back to the drain loop), so its replays interleave
with the producers' writes too.

One admin thread makes the lifecycle calls. A call that loops over all
ledgers is one step, because each iteration touches one ledger and
commutes with the producers' steps on the others. The calls are:

- `Start`, then `StartReady`;
- `Stop`, then `StopLedgers`;
- `SetSystemReady`, then `DrainStep` once per buffered event (the list
  iterator reads by index, so it also sees late appends), then
  `ClearBuffer`;
- `SetAutoFlush`;
- `BulkEnter` and `BulkExit`. These set every ledger's flag without
  saving the old one, up to `MaxBulkDepth` nested scopes;
- `EnableMemoryLedger`, then `EnableRead`, then `EnableAssign`, the three
  steps of `enable_memory_ledger`;
- `DisableMemoryLedger`;
- `LoadHistoricalData`, which runs once. It sets `pending` to
  `MemoryCategories` and hydrates each of them, in any order, as three
  steps of `EventLedger.hydrate`:
  - `HydrateBegin` clears the mirror and turns memory off. When nothing
    is pending, it sets `_historical_data_loaded` instead.
  - `HydrateStream` reads the file one line at a time, by position, onto
    the mirror. Like the file iterator, it sees lines written meanwhile
    until it reaches the end of the file.
  - `HydrateEnable` turns memory on if anything was read.

  The 25-hour cutoff keeps every payload here;
- `CleanupMemoryLedgers`: each ledger with memory on keeps the mirrored
  events stamped at or after the cutoff. Payloads carry no timestamp, and
  drained writes keep the time they were buffered, so stamps need not
  follow mirror order. The step therefore keeps any in-order subset of
  each mirror.

With the ledger write split, TLC reaches several states in which the
mirror disagrees with the file:
- a write lands after hydrate's stream has hit the end of the file and
  before `HydrateEnable`, so it goes to the file only;
- `HydrateBegin` clears the mirror between a write's `LedgerMemCheck`
  and its `LedgerMemAppend`, so the event is mirrored and then streamed
  again from the file;
- a producer's and the drain's appends cross, so the mirror and the file
  disagree on order.

All three break spec section 3's "a mirror read returns what a disk read
returns", so no passing run states mirror-file agreement. With the
project limited to 12 runs, they are hazards in `PROJECT.json` (at
`event_ledger.py:129`, `:578` and `:577`) rather than violation runs.

The history variables are `bufferedEver` and `refused`.

### `SequenceRecovery.tla`

`_load_sequence_counter` as a pure algorithm over the text of the ledger
file. `__init__` runs it once. The text is a sequence of integer tokens,
fine enough for the string operations the scan uses (`find`, slicing,
`strip`, `isdigit`, `int`, `split`):

- `Key` is the text `"event_id": `;
- `0..9` are digits;
- `Comma` and `Close` are the characters the scan searches for;
- `Open`, `Txt` and `NL` are `{`, any other text, and the newline.

`Render` lays a record out the way `json.dumps(event_dict)` does: the
type, the timestamp, the payload, then `event_id`. `RenderData` gives the
payload one of five shapes: empty, one other key, or an `event_id` key
that comes first, comes last, or has a string value.

`Init` chooses a file that `write_event` can leave: up to `MaxLines`
complete lines with increasing ids and, with `TornPossible`, the cut head
of one more line with a larger id. `Recover` sets the counter to
`LoadSequenceCounter(FileText)`.

- `IdInLine` is the per-line parse.
- `TailScan` is the newest-first fast path.
- `FullScan` is the sequential `max_id` fallback.

The files checked are below 4096 bytes, so the tail window is the whole
file.

The same module holds the disk paths of the two stream readers:

- `ForwardRead` is `read_events_stream`'s `for line in f:
  json.loads(line.strip())`.
- `ReverseRead(s, c)` is `read_events_stream_reverse`. `RevChunks` reads
  `min(c, pointer)` tokens before the pointer, splits on newlines, keeps
  `lines[0]` as the buffer, decodes the rest newest first, and after the
  loop decodes the leftover buffer.
- `Decoded` skips blank lines and lines that are not the rendering of a
  record. This is the abstraction of `json.loads` and `BaseEvent(**)`.

The 64 KB chunk is `c` tokens. The reader splits only on the newline,
which is a token of its own, so a chunk boundary inside any other token
changes nothing it does.

## 4. Runs

| Run | Expect | What it shows |
|---|---|---|
| `el_auto` | pass | Writes returned under `auto_flush` are on disk. Fewer than `flush_interval_writes` writes are unflushed outside bulk mode. This holds across `set_auto_flush` switching regimes, write faults, nested bulk scopes, stop, and up to two crashes that may cut the last line, each followed by recovery and a restart that appends onto the cut head. |
| `el_id_reuse` | violation | With periodic flush, a crash loses acknowledged buffered lines, and recovery hands their ids out again. |
| `recovery` | pass | With backward reads of 1, 5 or 64 tokens, the reverse reader yields exactly the forward reader's events, newest first. This holds on every file of up to three lines with ordinary payloads, whole or ending in a cut line. |
| `recovery_torn` | violation | A file whose only line is cut right after `"event_id": 12` recovers 1: with no `,` or `}` after the digits, `line[start:-1]` drops the last one. Later writes reuse ids. |
| `race_auto` | pass | With auto-flush, two lock-free writers, a flusher thread and a racing `stop()` never leave a completed write unflushed while `_dirty` is clear. Every acknowledged write is durable. |
| `race_single` | pass | Two periodic writers whose buffer may spill mid-line, the housekeeping loop and a `stop()` call race. Once `stop()` returns, every acknowledged write has its whole line on the OS side, wherever its statements fell between the stop's flush, close and release. |
| `race_dup_ids` | violation | Two writers write two lines with the same id. |
| `race_housekeeping` | violation | A write that lands between housekeeping's flush and its reset of the count and `_dirty` is never flushed. Housekeeping sees a count of 0, and readers see `_dirty` clear. |
| `notify` | pass | Setup: two workers (the smallest pool the code builds), split subscriptions, a raising callback, and `stop()` shutting the executor down mid-stream. Every task handed to the executor eventually runs its delivery loop to the end. |
| `notify_pool_skip` | violation | With two workers, a later event advances the cursor first, and the earlier event is never delivered to that subscriber. |
| `mgr` | pass | A producer races the admin thread's `start`, `stop`, `set_system_ready`, bulk scopes, `set_auto_flush`, memory-ledger, historical-loading and cleanup calls, with every ledger write split into its statements. No event is written twice to a ledger, even when `set_system_ready` is called again. |
| `mgr_buffer_loss` | violation | A write passes the readiness check before `set_system_ready`, then appends to the buffer after the drain loop ends. `clear()` erases it, and it is never written. |

`PROJECT.json` lists each violation run's finding. Every property of a
passing run has a mutant: a plausible slip in the mapped code that TLC
catches under the run's own configuration. The mutants include:

- a recovery that returns -1 on a file with no parseable id, and one
  with no sequential fallback;
- the bulk flag tested before `auto_flush`;
- `>` for `>=` in the flush trigger;
- a flush decision that ignores `auto_flush`;
- `stop()` closing the handle without writing out its buffer;
- a reverse reader that forgets its leftover head;
- a subscriber cursor started one below the counter;
- an executor shutdown that cancels queued tasks;
- every ledger hydrated, not only `memory_types`;
- `set_system_ready` without its `clear()`.

### Bounds and why they are enough

- **`EventLedger`** runs with:
  - 3 writes;
  - 2 crashes;
  - bulk nesting depth 2;
  - timestamps {1, 2};
  - a flush threshold of 2.

  With these bounds, a threshold flush happens, writes happen in both
  regimes and both inside and outside a bulk scope, a nested scope exits,
  and there are two records on disk before a crash. Two crashes let a
  restart append onto a cut head and a second crash recover over the
  merged line. Hydrate and cleanup cutoffs both keep and drop records.
- **`LedgerWriteRace`** uses 2 writers, 1 flusher and 3 writes. That is
  the least that produces each of its races: a lost counter update, a
  flush reset straddling a write, and crossed mirror and file appends. The
  other runs are these:
  - The stop run (`race_single`) uses 2 writers, 1 housekeeper, 4 writes
    and a threshold of 3. Both triggers fire, a spill cuts a line, and
    the two writers' lines interleave around the stop's steps.
  - Both passing runs include one `stop()` thread, which may start before,
    between or after any write. Each step of a write in flight can meet
    each of its three steps, and writes issued after it are refused.
  - The housekeeping run needs only 2 writes.
- **`LedgerNotify`** runs with 3 writes, 2 subscribers (one of which may
  raise once), 2 workers and a `stop()`. Two workers are the least that
  run tasks concurrently, and the code never builds a smaller pool
  (`event_ledger.py:95`; the manager's shared executor has 10). Three
  writes let a task be queued while another runs and a third is written
  after shutdown, which delivers it in-line.
- **`LedgerManager`** runs with 2 categories (one hydrated), 1 producer,
  3 writes, 3 admin calls and bulk depth 2. Three writes let a write
  cross a hydrate step and a drain replay in the same behaviour. Three
  admin calls allow
  `start`, then `stop`, then `start` again, or `set_system_ready` twice
  with a write between. The loss run needs 1 category, 2 writes and 2
  admin calls.
- **`SequenceRecovery`** checks every file of up to 3 lines over ids
  {2, 5, 9}, with empty or ordinary payloads. The file may end in any
  prefix of a further line. Every cut point is covered: inside the
  payload, before and inside the key, and after the digits. The chunk
  sizes are 1 token (every boundary), 5 (shorter than a line, about 15
  tokens) and 64 (the whole file in one read). The torn run takes ids
  {5, 12} and one line: the smallest file with a two-digit id whose cut
  falls between its digits and the `}`.

### Fairness

- **`LedgerNotify`'s `Spec`** assumes weak fairness for three kinds of
  step:
  - each worker's `TakeTask`;
  - each thread's delivery-loop steps;
  - the writer's `NotifySubscribers` once `write_event` is under way.

  `ThreadPoolExecutor` threads run while work is queued, and
  `shutdown(wait=True)` drains the queue.
- **`LedgerWriteRace`'s `FairSpec`** assumes weak fairness for the step
  disjunction of each thread. The GIL hands over between runnable
  threads. `housekeeping_loop` is `while True` with a sleep, and it
  catches every exception. A
  `stop()` call, once begun, runs to its end; its first step is not
  fair, so stop is never forced.

Callers, subscriptions, `stop()` and the manager's admin calls are never
assumed to happen. The weak fairness on `NotifySubscribers` and on the
delivery-loop steps assumes that callbacks return (or raise); a callback
that blocks forever would also hang `shutdown(wait=True)`. The other
modules check only safety.

## 5. Not modelled, and why

- **Abstracted data.**
  - Payload contents, JSON formatting, ISO timestamps and the `Decimal`
    encoding are abstracted. A payload is a distinct number per call.
  - `_last_flush_time` is replaced by a free choice of whether the
    interval has elapsed.
  - A buffer spill is possible at any write when the buffer is not
    empty, rather than at 8 KB.
- **Crash cut classes.** `EventLedger` models three classes of cut,
  which are enough for ids below 10. `SequenceRecovery` runs the
  recovery scan over every cut point of a line, with ids of two digits.
- **Read-only code.** `health_check`, `get_event_counts`, and the
  manager's read and memory-read shims change no state.
- **The tail reader.** `StreamReader.tail_events` raises before its
  read loop, so that loop is unreachable and is not modelled.
- **Defects found by reading, with no state-machine behaviour.**
  - `cleanup_old_price_data` raises `AttributeError`, because the manager
    lacks the attributes it reads.
  - `tail_events` calls the undefined `_get_ledger_file`.
  - Nothing calls `StreamReader`'s callback list.
- **Disagreements without a run of their own.** There is a limit of 12
  runs. Each of these is a hazard in `PROJECT.json`:
  - concurrent writers order the mirror differently from the file;
  - a write that `stop()` makes raise after its mirror append leaves
    the record in the mirror only;
  - under `auto_flush`, `stop()` can close the handle after a writer's
    line went into the buffer and before its flush. `close()` writes the
    line out, the flush raises, and `write_event` returns -1 for an event
    that is in the file. A caller that retries writes it twice;
  - a write that raises after taking its id leaves a gap in the ids;
  - a write in flight at executor shutdown is delivered in-line ahead of
    a task a worker still holds, which skips the older event as in
    `notify_pool_skip`;
  - an event written between `subscribe`'s cursor read and its append
    never reaches the new subscriber;
  - `hydrate` clearing the mirror between a write's memory-flag read and
    its append, so the event is mirrored twice;
  - two pool workers can call a subscriber out of id order;
  - `set_system_ready` publishes readiness before draining, so a direct
    write overtakes older buffered events;
  - an inner manager `bulk_write_mode` exit ends bulk mode for the open
    outer scope;
  - `start()` after `stop()` leaves every ledger refusing writes;
  - `enable_memory_ledger` reloads the mirror from the (empty) mirror;
  - `enable_memory_cache` on a ledger that already has records turns on
    reads from an empty mirror;
  - after a crash cut the last line, `start()` reopens the file in append
    mode, and the next line is appended to the cut head. Every reader
    skips the merged line, so the first event after the restart is lost
    to them;
  - a payload `event_id` key comes before the record's own `event_id`
    in the line. With an int value, recovery returns the payload's
    value (3 for a file whose newest id is 5). With a string value, or
    as the payload's last key, recovery skips the line and falls back to
    an older id or 0. In both cases restarted ledgers reuse ids. TLC
    finds this once `DataKinds` includes `"idFirst"`.
