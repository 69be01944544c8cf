----------------------------- MODULE LedgerNotify -----------------------------
(***************************************************************************)
(* Subscriber notification of one EventLedger (src/sample/event_ledger.py):*)
(* subscribe, the hand-off in _notify_subscribers, and _do_notify_sync run *)
(* by the executor's worker threads, or in-line by the writer once the     *)
(* executor is shut down.  Each subscriber has one cursor,                 *)
(* last_processed_id; a delivery loop checks `event_id > cursor`, calls    *)
(* the callback, then advances the cursor, with nothing held across the    *)
(* three.  The executor's work queue is FIFO, but its workers run their    *)
(* tasks concurrently.                                                     *)
(*                                                                         *)
(* One writer thread takes ids in order (the id races are the subject of   *)
(* LedgerWriteRace); the file side of write_event is EventLedger's.        *)
(***************************************************************************)
EXTENDS Naturals, Sequences, FiniteSets

CONSTANTS
  Writer,        \* the thread calling write_event
  Workers,       \* the executor's worker threads
  Subscribers,   \* callbacks that may subscribe, each at most once
  Failing,       \* subscribers whose callback may raise
  MaxWrites,     \* bound on write_event calls
  MaxFailures,   \* bound on raising callbacks
  StopPossible   \* whether the manager's stop() runs during the behaviour

ASSUME /\ Writer \notin Workers /\ Workers # {}
       /\ Failing \subseteq Subscribers
       /\ MaxWrites \in Nat \ {0} /\ MaxFailures \in Nat
       /\ StopPossible \in BOOLEAN

VARIABLES
  counter,     \* _sequence_counter
  keepRunning, \* _keep_running
  subs,        \* _subscribers, in registration order
  joining,     \* subscribers inside subscribe(), dict built, not yet appended
  cursor,      \* last_processed_id of each subscriber
  queue,       \* the executor's work queue of _do_notify_sync(event) tasks
  shutdown,    \* the executor's _shutdown flag
  pc,          \* program counter of each thread
  task,        \* event id a thread is delivering
  pos,         \* index into _subscribers of a thread's delivery loop
  \* history variables
  joinAt,      \* the counter value a subscriber joined at
  delivered,   \* ids each subscriber's callback received, in call order
  failed,      \* ids whose callback raised, per subscriber
  done,        \* ids whose _do_notify_sync loop has run to its end
  failures

vars == <<counter, keepRunning, subs, joining, cursor, queue, shutdown, pc, task, pos,
          joinAt, delivered, failed, done, failures>>

Threads == Workers \cup {Writer}

SeqRange(s) == {s[i] : i \in DOMAIN s}

Init ==
  /\ counter = 0 /\ keepRunning = TRUE
  /\ subs = <<>> /\ joining = {}
  /\ cursor = [s \in Subscribers |-> 0]
  /\ queue = <<>> /\ shutdown = FALSE
  /\ pc = [t \in Threads |-> "idle"]
  /\ task = [t \in Threads |-> 0]
  /\ pos = [t \in Threads |-> 1]
  /\ joinAt = [s \in Subscribers |-> 0]
  /\ delivered = [s \in Subscribers |-> <<>>]
  /\ failed = [s \in Subscribers |-> {}]
  /\ done = {}
  /\ failures = 0

-----------------------------------------------------------------------------
\* write_event: the id is taken; the file write is EventLedger's.
WriteEvent ==
  /\ pc[Writer] = "idle" /\ keepRunning
  /\ counter < MaxWrites
  /\ counter' = counter + 1
  /\ task' = [task EXCEPT ![Writer] = counter + 1]
  /\ pc' = [pc EXCEPT ![Writer] = "notify"]
  /\ UNCHANGED <<done, joining, keepRunning, subs, cursor, queue, shutdown, pos, joinAt,
                 delivered, failed, failures>>

\* _notify_subscribers: nothing without subscribers; in-line delivery when
\* the executor is shut down; otherwise executor.submit.
NotifySubscribers ==
  /\ pc[Writer] = "notify"
  /\ CASE subs = <<>> ->
            pc' = [pc EXCEPT ![Writer] = "idle"] /\ UNCHANGED <<queue, pos>>
       [] shutdown ->
            /\ pc' = [pc EXCEPT ![Writer] = "check"]
            /\ pos' = [pos EXCEPT ![Writer] = 1]
            /\ UNCHANGED queue
       [] OTHER ->
            /\ queue' = Append(queue, task[Writer])
            /\ pc' = [pc EXCEPT ![Writer] = "idle"]
            /\ UNCHANGED pos
  /\ UNCHANGED <<done, joining, counter, keepRunning, subs, cursor, shutdown, task,
                 joinAt, delivered, failed, failures>>

\* An idle worker takes the oldest queued task; queued tasks still run after
\* shutdown(wait=True).
TakeTask(w) ==
  /\ pc[w] = "idle" /\ queue # <<>>
  /\ task' = [task EXCEPT ![w] = Head(queue)]
  /\ queue' = Tail(queue)
  /\ pos' = [pos EXCEPT ![w] = 1]
  /\ pc' = [pc EXCEPT ![w] = "check"]
  /\ UNCHANGED <<done, joining, counter, keepRunning, subs, cursor, shutdown, joinAt,
                 delivered, failed, failures>>

\* `for subscriber in self._subscribers: if event_id > last_processed_id`.
\* The list is read by index, so a subscriber added meanwhile is visited.
CheckSubscriber(t) ==
  /\ pc[t] = "check"
  /\ IF pos[t] > Len(subs)
       THEN /\ pc' = [pc EXCEPT ![t] = "idle"] /\ done' = done \cup {task[t]}
            /\ UNCHANGED pos
       ELSE /\ UNCHANGED done
            /\ IF task[t] > cursor[subs[pos[t]]]
                 THEN pc' = [pc EXCEPT ![t] = "call"] /\ UNCHANGED pos
                 ELSE pos' = [pos EXCEPT ![t] = @ + 1] /\ UNCHANGED pc
  /\ UNCHANGED <<joining, counter, keepRunning, subs, cursor, queue, shutdown, task,
                 joinAt, delivered, failed, failures>>

\* `subscriber["callback"](event)`: it returns, or it raises and the
\* exception is logged and the loop moves on without touching the cursor.
CallSubscriber(t) ==
  /\ pc[t] = "call"
  /\ LET s == subs[pos[t]] IN
     \/ /\ delivered' = [delivered EXCEPT ![s] = Append(@, task[t])]
        /\ pc' = [pc EXCEPT ![t] = "advance"]
        /\ UNCHANGED <<pos, failed, failures>>
     \/ /\ s \in Failing /\ failures < MaxFailures
        /\ failures' = failures + 1
        /\ failed' = [failed EXCEPT ![s] = @ \cup {task[t]}]
        /\ pos' = [pos EXCEPT ![t] = @ + 1]
        /\ pc' = [pc EXCEPT ![t] = "check"]
        /\ UNCHANGED delivered
  /\ UNCHANGED <<done, joining, counter, keepRunning, subs, cursor, queue, shutdown, task, joinAt>>

\* `subscriber["last_processed_id"] = event_id`.
AdvanceCursor(t) ==
  /\ pc[t] = "advance"
  /\ cursor' = [cursor EXCEPT ![subs[pos[t]]] = task[t]]
  /\ pos' = [pos EXCEPT ![t] = @ + 1]
  /\ pc' = [pc EXCEPT ![t] = "check"]
  /\ UNCHANGED <<done, joining, counter, keepRunning, subs, queue, shutdown, task, joinAt,
                 delivered, failed, failures>>

\* Mutant: the cursor starts one below the counter.
SubscribeOffByOne(s) ==
  /\ s \notin SeqRange(subs) /\ s \notin joining
  /\ joining' = joining \cup {s}
  /\ cursor' = [cursor EXCEPT ![s] = counter - 1]
  /\ joinAt' = [joinAt EXCEPT ![s] = counter]
  /\ UNCHANGED <<done, counter, keepRunning, subs, queue, shutdown, pc, task, pos,
                 delivered, failed, failures>>

\* subscribe(callback), first half: the subscriber dict is built with
\* last_processed_id read from _sequence_counter.  Until the append below
\* no delivery loop can see it.
Subscribe(s) ==
  /\ s \notin SeqRange(subs) /\ s \notin joining
  /\ joining' = joining \cup {s}
  /\ cursor' = [cursor EXCEPT ![s] = counter]
  /\ joinAt' = [joinAt EXCEPT ![s] = counter]
  /\ UNCHANGED <<done, counter, keepRunning, subs, queue, shutdown, pc, task, pos,
                 delivered, failed, failures>>

\* subscribe(callback), second half: `self._subscribers.append(subscriber)`.
\* An event written between the two halves found the subscriber absent.
SubscribeAppend(s) ==
  /\ s \in joining
  /\ subs' = Append(subs, s)
  /\ joining' = joining \ {s}
  /\ UNCHANGED <<done, counter, keepRunning, cursor, queue, shutdown, pc, task, pos,
                 joinAt, delivered, failed, failures>>

\* LedgerManager.stop(): each ledger's stop() clears _keep_running ...
StopLedger ==
  /\ StopPossible /\ keepRunning
  /\ keepRunning' = FALSE
  /\ UNCHANGED <<done, joining, counter, subs, cursor, queue, shutdown, pc, task, pos, joinAt,
                 delivered, failed, failures>>

\* Mutant: shutdown(cancel_futures=True), dropping the queued tasks.
ShutdownExecutorCancel ==
  /\ ~keepRunning /\ ~shutdown
  /\ shutdown' = TRUE
  /\ queue' = <<>>
  /\ UNCHANGED <<done, joining, counter, keepRunning, subs, cursor, pc, task, pos,
                 joinAt, delivered, failed, failures>>

\* ... then notification_executor.shutdown(wait=True) sets _shutdown first.
ShutdownExecutor ==
  /\ ~keepRunning /\ ~shutdown
  /\ shutdown' = TRUE
  /\ UNCHANGED <<done, joining, counter, keepRunning, subs, cursor, queue, pc, task, pos,
                 joinAt, delivered, failed, failures>>

\* No thread has work left and no write can start: only stuttering remains.
Terminated ==
  /\ counter = MaxWrites \/ ~keepRunning
  /\ queue = <<>>
  /\ \A t \in Threads : pc[t] = "idle"
  /\ UNCHANGED vars

ThreadStep(t) == CheckSubscriber(t) \/ CallSubscriber(t) \/ AdvanceCursor(t)

Next ==
  \/ WriteEvent \/ NotifySubscribers
  \/ \E w \in Workers : TakeTask(w)
  \/ \E t \in Threads : ThreadStep(t)
  \/ \E s \in Subscribers : Subscribe(s) \/ SubscribeAppend(s)
  \/ StopLedger \/ ShutdownExecutor
  \/ Terminated

\* Running threads make progress: the workers, and the writer once inside
\* write_event.  Callers, subscribers and stop() are not assumed to act.
Fairness ==
  /\ \A w \in Workers : WF_vars(TakeTask(w))
  /\ \A t \in Threads : WF_vars(ThreadStep(t))
  /\ WF_vars(NotifySubscribers)

Spec == Init /\ [][Next]_vars /\ Fairness

-----------------------------------------------------------------------------
TypeOK ==
  /\ counter \in 0..MaxWrites /\ keepRunning \in BOOLEAN /\ shutdown \in BOOLEAN
  /\ subs \in Seq(Subscribers) /\ joining \subseteq Subscribers
  /\ cursor \in [Subscribers -> 0..MaxWrites]
  /\ joinAt \in [Subscribers -> 0..MaxWrites]
  /\ queue \in Seq(1..MaxWrites)
  /\ pc \in [Threads -> {"idle", "notify", "check", "call", "advance"}]
  /\ task \in [Threads -> 0..MaxWrites] /\ pos \in [Threads -> Nat \ {0}]
  /\ delivered \in [Subscribers -> Seq(1..MaxWrites)]
  /\ failed \in [Subscribers -> SUBSET (1..MaxWrites)]
  /\ done \subseteq 1..MaxWrites
  /\ failures \in 0..MaxFailures

Subscribed(s) == s \in SeqRange(subs)

\* Every notification has been handed off and every delivery loop has ended.
Quiescent == queue = <<>> /\ \A t \in Threads : pc[t] = "idle"

QueuedNotificationsRun ==
  \A i \in 1..MaxWrites : (\E k \in DOMAIN queue : queue[k] = i) ~> (i \in done)

=============================================================================
