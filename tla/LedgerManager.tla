---------------------------- MODULE LedgerManager ----------------------------
(***************************************************************************)
(* LedgerManager (src/sample/ledger_manager.py) over one ledger per        *)
(* category: the readiness gate of write_event and the drain of            *)
(* set_system_ready, start/stop, set_auto_flush, the cross-ledger          *)
(* bulk_write_mode scope, enable/disable_memory_ledger and                 *)
(* load_historical_data.  Producer threads call write_event while one      *)
(* application thread (Admin) makes the lifecycle calls; each statement    *)
(* that touches shared state is one step.                                  *)
(*                                                                         *)
(* A ledger is reduced to what the manager sees of it: the payloads its    *)
(* write_event accepted (`log`), its _keep_running, _bulk_mode,            *)
(* auto_flush and memory mirror.  Flushing, ids and recovery are the       *)
(* subject of EventLedger.  A manager loop over all ledgers is one step:   *)
(* each iteration touches one ledger only, so it commutes with the steps   *)
(* of other threads on other ledgers.                                      *)
(***************************************************************************)
EXTENDS Naturals, Sequences, FiniteSets

CONSTANTS
  Categories,       \* EventType values, one ledger each
  MemoryCategories, \* the memory_types hydrated by load_historical_data
  Producers,        \* threads calling LedgerManager.write_event
  Admin,            \* the thread calling start/stop/set_system_ready/...
  MaxCalls,         \* bound on write_event calls (payloads 1..MaxCalls)
  MaxAdminCalls,    \* bound on the Admin thread's calls
  MaxBulkDepth      \* bound on nested manager bulk_write_mode scopes

ASSUME /\ MemoryCategories \subseteq Categories
       /\ Admin \notin Producers
       /\ MaxCalls \in Nat /\ MaxAdminCalls \in Nat /\ MaxBulkDepth \in Nat

VARIABLES
  keepRunning, \* manager _keep_running
  ready,       \* _system_ready
  buffer,      \* _buffered_events: <<category, payload>> in arrival order
  histLoaded,  \* _historical_data_loaded
  pending,     \* memory_types load_historical_data has yet to hydrate
  log,         \* per category: payloads the ledger's write_event accepted
  lRunning,    \* per category: the ledger's _keep_running
  lBulk,       \* per category: the ledger's _bulk_mode
  autoFlush,   \* auto_flush, set alike on every ledger
  mem,         \* per category: _is_memory_enabled
  mirror,      \* per category: _memory_cache (payloads)
  pc,          \* program counter of each thread
  arg,         \* a producer's call <<category, payload>>; Admin's category
  idx,         \* position of set_system_ready's loop over the buffer
  snap,        \* events_to_cache of enable_memory_ledger
  mgrScopes,   \* open manager bulk_write_mode scopes
  \* history variables
  calls, adminCalls,
  bufferedEver, \* payloads ever appended to _buffered_events
  refused       \* payloads a stopped ledger's write_event refused (-1)

vars == <<keepRunning, ready, buffer, histLoaded, pending, log, lRunning, lBulk, autoFlush,
          mem, mirror, pc, arg, idx, snap, mgrScopes, calls, adminCalls,
          bufferedEver, refused>>

ledgerVars == <<log, lRunning, lBulk, autoFlush, mem, mirror, refused>>

Threads == Producers \cup {Admin}
Payloads == 1..MaxCalls
Call == Categories \X Payloads

SeqRange(s) == {s[i] : i \in DOMAIN s}

Init ==
  \* BaseModule, which sets _keep_running, is not in the repository; the
  \* readiness gate buffers writes issued before start(), so it starts TRUE.
  /\ keepRunning = TRUE /\ ready = FALSE /\ buffer = <<>> /\ histLoaded = FALSE
  /\ pending = {}
  /\ log = [c \in Categories |-> <<>>]
  /\ lRunning = [c \in Categories |-> TRUE]
  /\ lBulk = [c \in Categories |-> FALSE]
  /\ autoFlush = TRUE
  /\ mem = [c \in Categories |-> FALSE]
  /\ mirror = [c \in Categories |-> <<>>]
  /\ pc = [t \in Threads |-> "idle"]
  /\ arg = [t \in Threads |-> <<CHOOSE c \in Categories : TRUE, 0>>]
  /\ idx = 1 /\ snap = <<>> /\ mgrScopes = 0
  /\ calls = 0 /\ adminCalls = 0 /\ bufferedEver = {} /\ refused = {}

Goto(t, to) == pc' = [pc EXCEPT ![t] = to]

\* Where a ledger write returns to: the producer's call, or the drain loop.
Ret(t) == IF t = Admin THEN "drain" ELSE "idle"

-----------------------------------------------------------------------------
(* LedgerManager.write_event(event_type, data), one step per statement.    *)

\* The call, and `if not self._keep_running: return -1`.
WriteEvent(t) ==
  /\ pc[t] = "idle" /\ calls < MaxCalls
  /\ calls' = calls + 1
  /\ \E c \in Categories : arg' = [arg EXCEPT ![t] = <<c, calls + 1>>]
  /\ IF keepRunning THEN Goto(t, "gate") ELSE UNCHANGED pc
  /\ UNCHANGED <<keepRunning, ready, buffer, histLoaded, pending, idx, snap, mgrScopes,
                 adminCalls, bufferedEver>> /\ UNCHANGED ledgerVars

\* `if not self._system_ready:`
CheckReady(t) ==
  /\ pc[t] = "gate"
  /\ Goto(t, IF ready THEN "write" ELSE "buffer")
  /\ UNCHANGED <<keepRunning, ready, buffer, histLoaded, pending, arg, idx, snap,
                 mgrScopes, calls, adminCalls, bufferedEver>> /\ UNCHANGED ledgerVars

\* `self._buffered_events.append(...)`; return -1.
BufferEvent(t) ==
  /\ pc[t] = "buffer"
  /\ buffer' = Append(buffer, arg[t])
  /\ bufferedEver' = bufferedEver \cup {arg[t][2]}
  /\ Goto(t, "idle")
  /\ UNCHANGED <<keepRunning, ready, histLoaded, pending, arg, idx, snap, mgrScopes,
                 calls, adminCalls>> /\ UNCHANGED ledgerVars

\* `return self.ledgers[event_type].write_event(data, timestamp)`, or the
\* drain's call: EventLedger.write_event's `if not self._keep_running:
\* return -1` ...
RouteWrite(t) ==
  /\ pc[t] = "write"
  /\ IF lRunning[arg[t][1]]
       THEN Goto(t, "lflag") /\ UNCHANGED refused
       ELSE Goto(t, Ret(t)) /\ refused' = refused \cup {arg[t][2]}
  /\ UNCHANGED <<keepRunning, ready, buffer, histLoaded, pending, arg, idx, snap,
                 mgrScopes, calls, adminCalls, bufferedEver, log, lRunning, lBulk,
                 autoFlush, mem, mirror>>

\* ... `if self._is_memory_enabled:`, read outside _memory_lock ...
LedgerMemCheck(t) ==
  /\ pc[t] = "lflag"
  /\ Goto(t, IF mem[arg[t][1]] THEN "lmem" ELSE "lfile")
  /\ UNCHANGED <<keepRunning, ready, buffer, histLoaded, pending, arg, idx, snap,
                 mgrScopes, calls, adminCalls, bufferedEver>> /\ UNCHANGED ledgerVars

\* ... `with self._memory_lock: self._memory_cache.append(event_obj)`,
\* whatever the flag and the cache have become meanwhile ...
LedgerMemAppend(t) ==
  /\ pc[t] = "lmem"
  /\ mirror' = [mirror EXCEPT ![arg[t][1]] = Append(@, arg[t][2])]
  /\ Goto(t, "lfile")
  /\ UNCHANGED <<keepRunning, ready, buffer, histLoaded, pending, arg, idx, snap,
                 mgrScopes, calls, adminCalls, bufferedEver, log, lRunning, lBulk,
                 autoFlush, mem, refused>>

\* ... and the line written to the file (through the handle, or the
\* fallback open when not started); the id is returned.
LedgerFileWrite(t) ==
  /\ pc[t] = "lfile"
  /\ log' = [log EXCEPT ![arg[t][1]] = Append(@, arg[t][2])]
  /\ Goto(t, Ret(t))
  /\ UNCHANGED <<keepRunning, ready, buffer, histLoaded, pending, arg, idx, snap,
                 mgrScopes, calls, adminCalls, bufferedEver, lRunning, lBulk,
                 autoFlush, mem, mirror, refused>>

-----------------------------------------------------------------------------
(* The Admin thread's calls.  A call begins when Admin is idle, within the *)
(* bound on its calls.                                                     *)
AdminCall == pc[Admin] = "idle" /\ adminCalls < MaxAdminCalls /\ adminCalls' = adminCalls + 1

\* start(): `_keep_running = True`; every ledger's start() opens its handle
\* (EventLedger.Start) and leaves the ledger's _keep_running as it is ...
Start ==
  /\ AdminCall /\ keepRunning' = TRUE /\ Goto(Admin, "startReady")
  /\ UNCHANGED <<ready, buffer, histLoaded, pending, arg, idx, snap, mgrScopes, calls,
                 bufferedEver>> /\ UNCHANGED ledgerVars

\* ... then `_system_ready = True`; the buffer is not drained.
StartReady ==
  /\ pc[Admin] = "startReady" /\ ready' = TRUE /\ Goto(Admin, "idle")
  /\ UNCHANGED <<keepRunning, buffer, histLoaded, pending, arg, idx, snap, mgrScopes,
                 calls, adminCalls, bufferedEver>> /\ UNCHANGED ledgerVars

\* stop(): `_keep_running = False` ...
Stop ==
  /\ AdminCall /\ keepRunning' = FALSE /\ Goto(Admin, "stopLedgers")
  /\ UNCHANGED <<ready, buffer, histLoaded, pending, arg, idx, snap, mgrScopes, calls,
                 bufferedEver>> /\ UNCHANGED ledgerVars

\* ... then every ledger's stop() (joined); the executor shutdown that
\* follows is modelled in LedgerNotify.
StopLedgers ==
  /\ pc[Admin] = "stopLedgers"
  /\ lRunning' = [c \in Categories |-> FALSE]
  /\ Goto(Admin, "idle")
  /\ UNCHANGED <<keepRunning, ready, buffer, histLoaded, pending, arg, idx, snap,
                 mgrScopes, calls, adminCalls, bufferedEver, log, lBulk,
                 autoFlush, mem, mirror, refused>>

\* set_system_ready(): `_system_ready = True` before the drain ...
SetSystemReady ==
  /\ AdminCall /\ ready' = TRUE /\ idx' = 1 /\ Goto(Admin, "drain")
  /\ UNCHANGED <<keepRunning, buffer, histLoaded, pending, arg, snap, mgrScopes, calls,
                 bufferedEver>> /\ UNCHANGED ledgerVars

\* ... `for et, data, ts in self._buffered_events:` replays each buffered
\* write through the ledger's write_event (the steps above, returning
\* here); the list iterator reads by index, so an event appended meanwhile
\* is replayed too ...
DrainStep ==
  /\ pc[Admin] = "drain"
  /\ IF idx <= Len(buffer)
       THEN /\ arg' = [arg EXCEPT ![Admin] = buffer[idx]]
            /\ idx' = idx + 1
            /\ Goto(Admin, "write")
       ELSE /\ Goto(Admin, "clear")
            /\ UNCHANGED <<idx, arg>>
  /\ UNCHANGED <<keepRunning, ready, buffer, histLoaded, pending, snap, mgrScopes,
                 calls, adminCalls, bufferedEver>> /\ UNCHANGED ledgerVars

\* Mutant: the buffer left in place after the drain.
ClearBufferMissing ==
  /\ pc[Admin] = "clear" /\ UNCHANGED buffer /\ Goto(Admin, "idle")
  /\ UNCHANGED <<keepRunning, ready, histLoaded, pending, arg, idx, snap, mgrScopes,
                 calls, adminCalls, bufferedEver>> /\ UNCHANGED ledgerVars

\* ... and `self._buffered_events.clear()`.
ClearBuffer ==
  /\ pc[Admin] = "clear" /\ buffer' = <<>> /\ Goto(Admin, "idle")
  /\ UNCHANGED <<keepRunning, ready, histLoaded, pending, arg, idx, snap, mgrScopes,
                 calls, adminCalls, bufferedEver>> /\ UNCHANGED ledgerVars

\* set_auto_flush(enabled): the flag on every ledger, and force_flush()
\* when enabling (a flush changes nothing the manager sees).
SetAutoFlush(enabled) ==
  /\ AdminCall /\ autoFlush' = enabled
  /\ UNCHANGED <<keepRunning, ready, buffer, histLoaded, pending, pc, arg, idx, snap,
                 mgrScopes, calls, bufferedEver, log, lRunning, lBulk, mem,
                 mirror, refused>>

\* bulk_write_mode() entry: every ledger's _bulk_mode = True, no old value
\* saved ...
BulkEnter ==
  /\ AdminCall /\ mgrScopes < MaxBulkDepth
  /\ mgrScopes' = mgrScopes + 1
  /\ lBulk' = [c \in Categories |-> TRUE]
  /\ UNCHANGED <<keepRunning, ready, buffer, histLoaded, pending, pc, arg, idx, snap,
                 calls, bufferedEver, log, lRunning, autoFlush, mem, mirror, refused>>

\* ... and exit: every ledger's _bulk_mode = False, then force_flush().
BulkExit ==
  /\ AdminCall /\ mgrScopes > 0
  /\ mgrScopes' = mgrScopes - 1
  /\ lBulk' = [c \in Categories |-> FALSE]
  /\ UNCHANGED <<keepRunning, ready, buffer, histLoaded, pending, pc, arg, idx, snap,
                 calls, bufferedEver, log, lRunning, autoFlush, mem, mirror, refused>>

\* enable_memory_ledger(et): ledger.enable_memory_cache() ...
EnableMemoryLedger(c) ==
  /\ AdminCall
  /\ mem' = [mem EXCEPT ![c] = TRUE]
  /\ arg' = [arg EXCEPT ![Admin] = <<c, 0>>]
  /\ Goto(Admin, "enableRead")
  /\ UNCHANGED <<keepRunning, ready, buffer, histLoaded, pending, idx, snap, mgrScopes,
                 calls, bufferedEver, log, lRunning, lBulk, autoFlush, mirror, refused>>

\* ... `for event in self.read_events(et)`: memory is on, so the generator
\* walks the mirror, holding _memory_lock throughout ...
EnableRead ==
  /\ pc[Admin] = "enableRead"
  /\ snap' = mirror[arg[Admin][1]]
  /\ Goto(Admin, "enableAssign")
  /\ UNCHANGED <<keepRunning, ready, buffer, histLoaded, pending, arg, idx, mgrScopes,
                 calls, adminCalls, bufferedEver>> /\ UNCHANGED ledgerVars

\* ... `with ledger._memory_lock: ledger._memory_cache = events_to_cache`.
EnableAssign ==
  /\ pc[Admin] = "enableAssign"
  /\ mirror' = [mirror EXCEPT ![arg[Admin][1]] = snap]
  /\ Goto(Admin, "idle")
  /\ UNCHANGED <<keepRunning, ready, buffer, histLoaded, pending, arg, idx, snap,
                 mgrScopes, calls, adminCalls, bufferedEver, log, lRunning,
                 lBulk, autoFlush, mem, refused>>

\* disable_memory_ledger(et): ledger.disable_memory_cache().
DisableMemoryLedger(c) ==
  /\ AdminCall
  /\ mem' = [mem EXCEPT ![c] = FALSE]
  /\ mirror' = [mirror EXCEPT ![c] = <<>>]
  /\ UNCHANGED <<keepRunning, ready, buffer, histLoaded, pending, pc, arg, idx, snap,
                 mgrScopes, calls, bufferedEver, log, lRunning, lBulk, autoFlush,
                 refused>>

\* Mutant: every ledger hydrated, not only memory_types.
LoadHistoricalDataAll ==
  /\ AdminCall
  /\ IF histLoaded THEN UNCHANGED <<pc, pending>>
                   ELSE pending' = Categories /\ Goto(Admin, "hydrate")
  /\ UNCHANGED <<keepRunning, ready, buffer, histLoaded, arg, idx, snap,
                 mgrScopes, calls, bufferedEver>> /\ UNCHANGED ledgerVars

\* load_historical_data(): `if self._historical_data_loaded: return`;
\* otherwise hydrate each of memory_types in turn (a set: any order).
LoadHistoricalData ==
  /\ AdminCall
  /\ IF histLoaded THEN UNCHANGED <<pc, pending>>
                   ELSE pending' = MemoryCategories /\ Goto(Admin, "hydrate")
  /\ UNCHANGED <<keepRunning, ready, buffer, histLoaded, arg, idx, snap,
                 mgrScopes, calls, bufferedEver>> /\ UNCHANGED ledgerVars

\* The loop: `self.ledgers[et].hydrate(cutoff_time)` for the next et, which
\* first clears the mirror and disables memory under _memory_lock; once
\* every et is done, `self._historical_data_loaded = True`.
HydrateBegin ==
  /\ pc[Admin] = "hydrate"
  /\ IF pending = {}
       THEN /\ histLoaded' = TRUE /\ Goto(Admin, "idle")
            /\ UNCHANGED <<pending, arg, idx, mem, mirror>>
       ELSE \E c \in pending :
              /\ pending' = pending \ {c} /\ arg' = [arg EXCEPT ![Admin] = <<c, 0>>]
              /\ idx' = 1 /\ mem' = [mem EXCEPT ![c] = FALSE]
              /\ mirror' = [mirror EXCEPT ![c] = <<>>]
              /\ Goto(Admin, "hstream") /\ UNCHANGED histLoaded
  /\ UNCHANGED <<keepRunning, ready, buffer, snap, mgrScopes, calls, adminCalls,
                 bufferedEver, log, lRunning, lBulk, autoFlush, refused>>

\* `for event in self.read_events_stream()`: memory is off, so the file is
\* read line by line (the 25-hour cutoff keeps every payload here) and each
\* event appended to the mirror.  The file iterator sees lines written
\* meanwhile until it reaches the end of the file.
HydrateStream ==
  /\ pc[Admin] = "hstream"
  /\ LET c == arg[Admin][1] IN
       IF idx <= Len(log[c])
         THEN /\ mirror' = [mirror EXCEPT ![c] = Append(@, log[c][idx])]
              /\ idx' = idx + 1 /\ UNCHANGED pc
         ELSE Goto(Admin, "henable") /\ UNCHANGED <<idx, mirror>>
  /\ UNCHANGED <<keepRunning, ready, buffer, histLoaded, pending, arg, snap,
                 mgrScopes, calls, adminCalls, bufferedEver, log, lRunning,
                 lBulk, autoFlush, mem, refused>>

\* `if count > 0:` enable memory under _memory_lock (count is what the
\* stream appended, which is the whole mirror while memory is off).
HydrateEnable ==
  /\ pc[Admin] = "henable"
  /\ mem' = [mem EXCEPT ![arg[Admin][1]] = mirror[arg[Admin][1]] # <<>>]
  /\ Goto(Admin, "hydrate")
  /\ UNCHANGED <<keepRunning, ready, buffer, histLoaded, pending, arg, idx, snap,
                 mgrScopes, calls, adminCalls, bufferedEver, log, lRunning,
                 lBulk, autoFlush, mirror, refused>>

\* cleanup_memory_ledgers(hours_to_keep): each ledger's cleanup_memory keeps
\* the mirrored events stamped at or after the cutoff, and is a no-op with
\* memory off.  Payloads carry no timestamp here (drained writes keep the
\* time they were buffered, so stamps need not follow mirror order): the
\* cutoff keeps any subset of each mirror, in order.
CleanupMemoryLedgers ==
  /\ AdminCall
  /\ \E keep \in [Categories -> SUBSET Payloads] :
       mirror' = [c \in Categories |->
                    IF mem[c] THEN SelectSeq(mirror[c], LAMBDA p : p \in keep[c])
                              ELSE mirror[c]]
  /\ UNCHANGED <<keepRunning, ready, buffer, histLoaded, pending, pc, arg, idx, snap,
                 mgrScopes, calls, bufferedEver, log, lRunning, lBulk, autoFlush,
                 mem, refused>>

\* Every bounded call has returned: only stuttering remains.
Terminated ==
  /\ calls = MaxCalls /\ adminCalls = MaxAdminCalls
  /\ \A t \in Threads : pc[t] = "idle"
  /\ UNCHANGED vars

Next ==
  \/ \E t \in Producers : WriteEvent(t) \/ CheckReady(t) \/ BufferEvent(t)
  \/ \E t \in Threads : RouteWrite(t) \/ LedgerMemCheck(t) \/ LedgerMemAppend(t)
                        \/ LedgerFileWrite(t)
  \/ Start \/ StartReady \/ Stop \/ StopLedgers
  \/ SetSystemReady \/ DrainStep \/ ClearBuffer
  \/ \E e \in BOOLEAN : SetAutoFlush(e)
  \/ BulkEnter \/ BulkExit
  \/ \E c \in Categories : EnableMemoryLedger(c) \/ DisableMemoryLedger(c)
  \/ EnableRead \/ EnableAssign
  \/ LoadHistoricalData \/ HydrateBegin \/ HydrateStream \/ HydrateEnable
  \/ CleanupMemoryLedgers
  \/ Terminated

Spec == Init /\ [][Next]_vars

-----------------------------------------------------------------------------
TypeOK ==
  /\ {keepRunning, ready, histLoaded, autoFlush} \subseteq BOOLEAN
  /\ buffer \in Seq(Call)
  /\ log \in [Categories -> Seq(Payloads)] /\ mirror \in [Categories -> Seq(Payloads)]
  /\ lRunning \in [Categories -> BOOLEAN] /\ lBulk \in [Categories -> BOOLEAN]
  /\ mem \in [Categories -> BOOLEAN]
  /\ pc \in [Threads -> {"idle", "gate", "buffer", "write", "lflag", "lmem", "lfile", "startReady",
                         "stopLedgers", "drain", "clear", "enableRead", "enableAssign",
                         "hydrate", "hstream", "henable"}]
  /\ pending \subseteq MemoryCategories
  /\ arg \in [Threads -> Categories \X (0..MaxCalls)]
  /\ idx \in 1..(MaxCalls + 1) /\ snap \in Seq(Payloads) /\ mgrScopes \in 0..MaxBulkDepth
  /\ calls \in 0..MaxCalls /\ adminCalls \in 0..MaxAdminCalls
  /\ bufferedEver \subseteq Payloads /\ refused \subseteq Payloads

\* No write reaches a ledger twice: set_system_ready replays each buffered
\* write once, however often it, start() and stop() are called, and
\* whatever producers append while it drains.
NoDuplicateWrites ==
  \A c \in Categories :
    \A i, j \in DOMAIN log[c] : i # j => log[c][i] # log[c][j]

\* Every write the readiness gate buffered is still buffered, or has been
\* replayed into its ledger, or was refused by a stopped ledger (spec
\* section 4.2: buffered writes are replayed by set_system_ready).
BufferedWritesKept ==
  \A p \in bufferedEver :
    \/ \E i \in DOMAIN buffer : buffer[i][2] = p
    \/ \E c \in Categories : p \in SeqRange(log[c])
    \/ p \in refused
=============================================================================
