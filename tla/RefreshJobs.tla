---------------------------- MODULE RefreshJobs ----------------------------
(***************************************************************************)
(* Refresh jobs: RefreshJobManager (refresh_jobs.py) over RefreshJobStore  *)
(* (refresh_job_store.py).                                                 *)
(*                                                                         *)
(* Several MCP processes share one registry file beside the project file.  *)
(* Each process has request threads that accept jobs and mutate scopes,    *)
(* an in-memory queue, and one worker thread that is started on demand.    *)
(* Two file locks are shared by all of them: the registry lock, held for   *)
(* one read-modify-write, and the worker lock ("slot"), held while a job   *)
(* is marked, refreshed and marked again.                                  *)
(*                                                                         *)
(* A registry edit (lock, load, change, prune, replace, unlock) is one     *)
(* step, because the file is replaced atomically and nobody reads it       *)
(* outside the lock.  The exception is scope_mutation, which keeps the     *)
(* lock while the project file is written: it takes a step to begin and a  *)
(* step to end, and every other edit waits in between.                     *)
(***************************************************************************)
EXTENDS Naturals, Sequences, FiniteSets

CONSTANTS
    Procs,            \* MCP processes sharing one project file
    Clients,          \* request threads of each process
    Scopes,           \* scope names
    Pids,             \* process ids the operating system may hand out
    NoPid,            \* "not running"
    NoProc,           \* "nobody holds the slot"
    Nil,              \* "no record", "no mutation in progress"
    MaxHistory,       \* max_history of the store
    MaxJobs,          \* bound: jobs ever accepted
    MaxCrashes,       \* bound: process crashes
    MaxFaults,        \* bound: registry or thread-start errors
    AllowPidReuse     \* may a new process get the pid of a recorded owner?

ASSUME HistoryAssumption == MaxHistory \in Nat \ {0}
ASSUME BoundsAssumption == /\ MaxJobs \in Nat
                           /\ MaxCrashes \in Nat
                           /\ MaxFaults \in Nat
ASSUME ReuseAssumption == AllowPidReuse \in BOOLEAN

VARIABLES
    registry,   \* the registry file: record of each job, Nil if there is none
    issued,     \* jobs accepted so far; a job is named by its creation order
    pid,        \* process id of each process, NoPid while it is down
    queue,      \* RefreshJobManager._queue of each process
    worker,     \* program counter and job in hand of each worker thread
    client,     \* program counter and accepted job of each request thread
    slot,       \* the process whose worker holds the worker lock
    mutation,   \* the scope_mutation that holds the registry lock, or Nil
    crashes,    \* bound counter
    faults      \* bound counter

vars == <<registry, issued, pid, queue, worker, client, slot, mutation,
          crashes, faults>>

-----------------------------------------------------------------------------
(* Data                                                                    *)

Jobs == 1 .. MaxJobs
NoJob == 0

ActiveStatuses == {"queued", "running"}
TerminalStatuses == {"succeeded", "failed", "interrupted"}

Records == [scope : Scopes, status : ActiveStatuses \cup TerminalStatuses,
            owner : Pids]

\* A scope_mutation under way: whose it is, on which scope, and the processes
\* it found alive.
Mutations == [proc : Procs, scope : Scopes, live : SUBSET Pids]

ASSUME NullsAssumption == /\ NoPid \notin Pids
                          /\ NoProc \notin Procs
                          /\ Nil \notin Records \cup Mutations

\* Where a worker thread is in _worker_loop.  "none": not started, or ended.
WorkerPcs == {"none", "idle", "slot", "marking", "refreshing", "succeeded",
              "failed", "releasing", "unwinding", "dying"}
\* ... of these, inside "with self.store.worker_slot()".
HoldingPcs == {"marking", "refreshing", "succeeded", "failed", "releasing",
               "unwinding"}
\* ... of these, between a true _mark_running and the final mark.
RefreshPcs == {"refreshing", "succeeded", "failed"}

\* Where a request thread is in start_or_reuse or scope_mutation.
ClientPcs == {"idle", "accepted", "ensured", "enqueued", "mutating"}

IdleWorker(pc) == [pc |-> pc, job |-> NoJob]
IdleClient == [pc |-> "idle", job |-> NoJob]

Active(r) == r # Nil /\ r.status \in ActiveStatuses
Terminal(r) == r # Nil /\ r.status \in TerminalStatuses

\* The pids for which os.kill(pid, 0) finds a process.
Alive == {pid[p] : p \in Procs} \ {NoPid}

Orphan(r, live) == Active(r) /\ r.owner \notin live

-----------------------------------------------------------------------------
(* Registry edits                                                          *)

\* Seeded fault: every unfinished record is interrupted, whoever owns it.
InterruptAll(reg, live) ==
    [j \in Jobs |-> IF Active(reg[j]) THEN [reg[j] EXCEPT !.status = "interrupted"]
                    ELSE reg[j]]

\* _interrupt_dead_records, when the processes with pids live are running.
InterruptDead(reg, live) ==
    [j \in Jobs |-> IF Orphan(reg[j], live)
                    THEN [reg[j] EXCEPT !.status = "interrupted"] ELSE reg[j]]

\* Seeded fault: the history keeps the oldest terminal records.
EarlierTerminal(reg, j) == {k \in Jobs : k < j /\ Terminal(reg[k])}

\* Terminal records that _pruned ranks after j.
LaterTerminal(reg, j) == {k \in Jobs : k > j /\ Terminal(reg[k])}

\* _pruned: every active record, and the max_history terminal ones created last.
Pruned(reg) ==
    [j \in Jobs |-> IF /\ Terminal(reg[j])
                       /\ Cardinality(LaterTerminal(reg, j)) >= MaxHistory
                    THEN Nil ELSE reg[j]]

SetStatus(reg, j, status) == [reg EXCEPT ![j].status = status]

\* Seeded fault: a queued job does not count as active.
ScopeRunning(reg, s) ==
    \E j \in Jobs : reg[j] # Nil /\ reg[j].status = "running" /\ reg[j].scope = s

\* _active_for_scope finds a record.
ScopeBusy(reg, s) == \E j \in Jobs : Active(reg[j]) /\ reg[j].scope = s

\* The registry lock is free.
Unlocked == mutation = Nil

\* One with-block over store.edit() that leaves the records as reg.
Edit(reg) == Unlocked /\ registry' = Pruned(reg)

\* store.edit() that raises: before the file is replaced, or after it.
FaultyEdit(reg) ==
    /\ Unlocked
    /\ faults < MaxFaults
    /\ faults' = faults + 1
    /\ registry' \in {registry, Pruned(reg)}

-----------------------------------------------------------------------------
(* Request threads                                                         *)

ClientGoes(p, c, pc, j) == client' = [client EXCEPT ![p][c] = [pc |-> pc, job |-> j]]

Ready(p, c, pc) == pid[p] # NoPid /\ client[p][c].pc = pc

\* start_or_reuse when the scope has an active job: the reply names that job,
\* the interruptions are saved, and no thread is started or woken.
Reuse(p, c, s) ==
    LET reg == InterruptDead(registry, Alive) IN
    /\ Ready(p, c, "idle")
    /\ ScopeBusy(reg, s)
    /\ Edit(reg)
    /\ UNCHANGED <<issued, pid, queue, worker, client, slot, mutation, crashes,
                   faults>>

\* start_or_reuse when it has none: a queued record of this process is added.
\* A loader or an edit that fails before it replaces the file raises to the caller;
\* nothing of that is left in the state.
Accept(p, c, s) ==
    LET reg == InterruptDead(registry, Alive)
        j == issued + 1
        record == [scope |-> s, status |-> "queued", owner |-> pid[p]]
    IN
    /\ Ready(p, c, "idle")
    /\ issued < MaxJobs
    /\ ~ ScopeBusy(reg, s)
    /\ Edit([reg EXCEPT ![j] = record])
    /\ issued' = j
    /\ ClientGoes(p, c, "accepted", j)
    /\ UNCHANGED <<pid, queue, worker, slot, mutation, crashes, faults>>

\* _ensure_worker: a thread is started unless one is alive.
EnsureWorker(p, c) ==
    /\ Ready(p, c, "accepted")
    /\ worker' = IF worker[p].pc = "none"
                 THEN [worker EXCEPT ![p] = IdleWorker("idle")] ELSE worker
    /\ ClientGoes(p, c, "ensured", client[p][c].job)
    /\ UNCHANGED <<registry, issued, pid, queue, slot, mutation, crashes, faults>>

\* The request fails when its record is in the file: the edit fails after its
\* replacement, or the thread cannot be started.  The job stays queued in the registry.
RequestFails(p, c) ==
    /\ Ready(p, c, "accepted")
    /\ faults < MaxFaults
    /\ faults' = faults + 1
    /\ ClientGoes(p, c, "idle", NoJob)
    /\ UNCHANGED <<registry, issued, pid, queue, worker, slot, mutation, crashes>>

\* self._queue.put((job_id, runtime))
Enqueue(p, c) ==
    /\ Ready(p, c, "ensured")
    /\ queue' = [queue EXCEPT ![p] = Append(@, client[p][c].job)]
    /\ ClientGoes(p, c, "enqueued", client[p][c].job)
    /\ UNCHANGED <<registry, issued, pid, worker, slot, mutation, crashes, faults>>

\* _current_records: the file is rewritten only when an orphan was read.
ReadRecords ==
    /\ Unlocked
    /\ registry' = IF \E j \in Jobs : Orphan(registry[j], Alive)
                   THEN Pruned(InterruptDead(registry, Alive)) ELSE registry

\* The status read that ends start_or_reuse.
Reply(p, c) ==
    /\ Ready(p, c, "enqueued")
    /\ ReadRecords
    /\ ClientGoes(p, c, "idle", NoJob)
    /\ UNCHANGED <<issued, pid, queue, worker, slot, mutation, crashes, faults>>

\* status, active_for_scope, require_scope_mutable and wait, on their own: they
\* change the state only when there is an orphan to interrupt.
PollStatus(p, c) ==
    /\ Ready(p, c, "idle")
    /\ \E j \in Jobs : Orphan(registry[j], Alive)
    /\ ReadRecords
    /\ UNCHANGED <<issued, pid, queue, worker, client, slot, mutation, crashes,
                   faults>>

\* Seeded fault: the configuration is changed without asking for active jobs.
BeginMutationUnchecked(p, c, s) ==
    /\ Ready(p, c, "idle")
    /\ Unlocked
    /\ mutation' = [proc |-> p, scope |-> s, live |-> Alive]
    /\ ClientGoes(p, c, "mutating", NoJob)
    /\ UNCHANGED <<registry, issued, pid, queue, worker, slot, crashes, faults>>

\* scope_mutation, up to the yield.  The interruptions are made in the list
\* that is written when the block ends.
BeginMutation(p, c, s) ==
    /\ Ready(p, c, "idle")
    /\ Unlocked
    /\ ~ ScopeBusy(InterruptDead(registry, Alive), s)
    /\ mutation' = [proc |-> p, scope |-> s,
                    live |-> Alive]
    /\ ClientGoes(p, c, "mutating", NoJob)
    /\ UNCHANGED <<registry, issued, pid, queue, worker, slot, crashes, faults>>

\* The block ended normally: the list is written and the lock released.
EndMutation(p, c) ==
    /\ Ready(p, c, "mutating")
    /\ registry' = Pruned(InterruptDead(registry, mutation.live))
    /\ mutation' = Nil
    /\ ClientGoes(p, c, "idle", NoJob)
    /\ UNCHANGED <<issued, pid, queue, worker, slot, crashes, faults>>

\* The block raised (the configuration change was refused): nothing is written.
AbortMutation(p, c) ==
    /\ Ready(p, c, "mutating")
    /\ mutation' = Nil
    /\ ClientGoes(p, c, "idle", NoJob)
    /\ UNCHANGED <<registry, issued, pid, queue, worker, slot, crashes, faults>>

-----------------------------------------------------------------------------
(* The worker thread                                                       *)

WorkerAt(p, pc) == pid[p] # NoPid /\ worker[p].pc = pc
WorkerGoes(p, pc) == worker' = [worker EXCEPT ![p].pc = pc]

\* self._queue.get()
TakeJob(p) ==
    /\ WorkerAt(p, "idle")
    /\ queue[p] # <<>>
    /\ worker' = [worker EXCEPT ![p] = [pc |-> "slot", job |-> Head(queue[p])]]
    /\ queue' = [queue EXCEPT ![p] = Tail(@)]
    /\ UNCHANGED <<registry, issued, pid, client, slot, mutation, crashes, faults>>

\* Seeded fault: each process has a worker lock of its own.
AcquireOwnSlot(p) ==
    /\ WorkerAt(p, "slot")
    /\ slot' = p
    /\ WorkerGoes(p, "marking")
    /\ UNCHANGED <<registry, issued, pid, queue, client, mutation, crashes, faults>>

\* The worker lock is granted.
AcquireSlot(p) ==
    /\ WorkerAt(p, "slot")
    /\ slot = NoProc
    /\ slot' = p
    /\ WorkerGoes(p, "marking")
    /\ UNCHANGED <<registry, issued, pid, queue, client, mutation, crashes, faults>>

\* The worker lock file cannot be opened: the thread has no handler for it.
SlotFails(p) ==
    /\ WorkerAt(p, "slot")
    /\ faults < MaxFaults
    /\ faults' = faults + 1
    /\ WorkerGoes(p, "dying")
    /\ UNCHANGED <<registry, issued, pid, queue, client, slot, mutation, crashes>>

\* There is a record of job j, this process owns it, and it has this status.
OwnedBy(p, j, status) ==
    LET r == registry[j] IN r # Nil /\ r.owner = pid[p] /\ r.status = status

\* The same of the job in the worker's hand.
OwnRecord(p, status) == OwnedBy(p, worker[p].job, status)

\* _mark_running: True (refresh), False (continue), or no record at all (raise).
MarkRunning(p) ==
    LET j == worker[p].job IN
    /\ WorkerAt(p, "marking")
    /\ Edit(IF OwnRecord(p, "queued") THEN SetStatus(registry, j, "running")
                                      ELSE registry)
    /\ WorkerGoes(p, IF OwnRecord(p, "queued") THEN "refreshing"
                     ELSE IF registry[j] # Nil THEN "releasing" ELSE "unwinding")
    /\ UNCHANGED <<issued, pid, queue, client, slot, mutation, crashes, faults>>

\* _mark_running raised on a registry error.
MarkRunningFails(p) ==
    /\ WorkerAt(p, "marking")
    /\ OwnRecord(p, "queued")
    /\ FaultyEdit(SetStatus(registry, worker[p].job, "running"))
    /\ WorkerGoes(p, "unwinding")
    /\ UNCHANGED <<issued, pid, queue, client, slot, mutation, crashes>>

\* self._refresh(runtime) returned, or raised an Exception.
RefreshReturns(p) ==
    /\ WorkerAt(p, "refreshing")
    /\ \E outcome \in {"succeeded", "failed"} : WorkerGoes(p, outcome)
    /\ UNCHANGED <<registry, issued, pid, queue, client, slot, mutation, crashes,
                   faults>>

\* Seeded fault: a failed refresh is queued again.
MarkFinishedRequeueing(p) ==
    /\ pid[p] # NoPid
    /\ worker[p].pc \in {"succeeded", "failed"}
    /\ Edit(SetStatus(registry, worker[p].job,
                      IF worker[p].pc = "failed" THEN "queued" ELSE "succeeded"))
    /\ WorkerGoes(p, "releasing")
    /\ UNCHANGED <<issued, pid, queue, client, slot, mutation, crashes, faults>>

\* _mark_succeeded, _mark_failed: the outcome is recorded while the record is
\* still this process's running one.
MarkFinished(p) ==
    /\ pid[p] # NoPid
    /\ worker[p].pc \in {"succeeded", "failed"}
    /\ Edit(IF OwnRecord(p, "running")
            THEN SetStatus(registry, worker[p].job, worker[p].pc) ELSE registry)
    /\ WorkerGoes(p, IF registry[worker[p].job] = Nil THEN "unwinding"
                                                      ELSE "releasing")
    /\ UNCHANGED <<issued, pid, queue, client, slot, mutation, crashes, faults>>

\* The same, raising on a registry error: no handler around it.
MarkFinishedFails(p) ==
    /\ pid[p] # NoPid
    /\ worker[p].pc \in {"succeeded", "failed"}
    /\ OwnRecord(p, "running")
    /\ FaultyEdit(SetStatus(registry, worker[p].job, worker[p].pc))
    /\ WorkerGoes(p, "unwinding")
    /\ UNCHANGED <<issued, pid, queue, client, slot, mutation, crashes>>

\* Seeded fault: the thread serves one job and ends.
ReleaseSlotAndEnd(p) ==
    /\ pid[p] # NoPid
    /\ worker[p].pc \in {"releasing", "unwinding"}
    /\ slot' = NoProc
    /\ worker' = [worker EXCEPT ![p] = IdleWorker("dying")]
    /\ UNCHANGED <<registry, issued, pid, queue, client, mutation, crashes, faults>>

\* The worker lock is released, on the way to the next job or out of the loop.
ReleaseSlot(p) ==
    /\ pid[p] # NoPid
    /\ worker[p].pc \in {"releasing", "unwinding"}
    /\ slot' = NoProc
    /\ worker' = [worker EXCEPT ![p] =
                    IdleWorker(IF @.pc = "releasing" THEN "idle" ELSE "dying")]
    /\ UNCHANGED <<registry, issued, pid, queue, client, mutation, crashes, faults>>

\* The thread ends: until here is_alive() was true.
ThreadEnds(p) ==
    /\ WorkerAt(p, "dying")
    /\ worker' = [worker EXCEPT ![p] = IdleWorker("none")]
    /\ UNCHANGED <<registry, issued, pid, queue, client, slot, mutation, crashes,
                   faults>>

-----------------------------------------------------------------------------
(* Processes                                                               *)

\* A process dies: threads and queue are gone, and the kernel drops its locks.
Crash(p) ==
    /\ pid[p] # NoPid
    /\ crashes < MaxCrashes
    /\ crashes' = crashes + 1
    /\ pid' = [pid EXCEPT ![p] = NoPid]
    /\ queue' = [queue EXCEPT ![p] = <<>>]
    /\ worker' = [worker EXCEPT ![p] = IdleWorker("none")]
    /\ client' = [client EXCEPT ![p] = [c \in Clients |-> IdleClient]]
    /\ slot' = IF slot = p THEN NoProc ELSE slot
    /\ mutation' = IF mutation # Nil /\ mutation.proc = p THEN Nil ELSE mutation
    /\ UNCHANGED <<registry, issued, faults>>

\* Seeded fault: the new manager does not look at the registry.
StartWithoutInterrupt(p) ==
    /\ pid[p] = NoPid
    /\ \E q \in Pids \ Alive :
         /\ \A j \in Jobs : Active(registry[j]) => registry[j].owner # q
         /\ pid' = [pid EXCEPT ![p] = q]
    /\ UNCHANGED <<registry, issued, queue, worker, client, slot, mutation, crashes,
                   faults>>

\* A process starts and builds its RefreshJobManager, which interrupts the jobs
\* of dead owners.  The new process itself already answers os.kill.
Start(p) ==
    /\ pid[p] = NoPid
    /\ \E q \in Pids \ Alive :
         /\ AllowPidReuse \/ \A j \in Jobs : Active(registry[j]) => registry[j].owner # q
         /\ pid' = [pid EXCEPT ![p] = q]
         /\ Edit(InterruptDead(registry, Alive \cup {q}))
    /\ UNCHANGED <<issued, queue, worker, client, slot, mutation, crashes, faults>>

-----------------------------------------------------------------------------
Init ==
    /\ registry = [j \in Jobs |-> Nil]
    /\ issued = 0
    /\ pid = [p \in Procs |-> NoPid]
    /\ queue = [p \in Procs |-> <<>>]
    /\ worker = [p \in Procs |-> IdleWorker("none")]
    /\ client = [p \in Procs |-> [c \in Clients |-> IdleClient]]
    /\ slot = NoProc
    /\ mutation = Nil
    /\ crashes = 0
    /\ faults = 0

\* The steps a request thread takes once its request is under way.
RequestStep(p, c) ==
    \/ EnsureWorker(p, c)
    \/ Enqueue(p, c)
    \/ Reply(p, c)
    \/ EndMutation(p, c)
    \/ AbortMutation(p, c)

\* A new request.
Request(p, c) ==
    \/ \E s \in Scopes : Reuse(p, c, s) \/ Accept(p, c, s) \/ BeginMutation(p, c, s)
    \/ PollStatus(p, c)

WorkerStep(p) ==
    \/ TakeJob(p)
    \/ AcquireSlot(p)
    \/ MarkRunning(p)
    \/ RefreshReturns(p)
    \/ MarkFinished(p)
    \/ ReleaseSlot(p)
    \/ ThreadEnds(p)

Fault(p) ==
    \/ \E c \in Clients : RequestFails(p, c)
    \/ SlotFails(p)
    \/ MarkRunningFails(p)
    \/ MarkFinishedFails(p)

Next ==
    \E p \in Procs :
        \/ \E c \in Clients : Request(p, c) \/ RequestStep(p, c)
        \/ WorkerStep(p)
        \/ Fault(p)
        \/ Crash(p)
        \/ Start(p)

Spec == Init /\ [][Next]_vars

\* Threads keep running: a request under way and the worker take their next
\* step, file locks are granted to who keeps waiting for them, and a refresh
\* returns.  Clients keep asking for the status, as the tool tells them to.
Fairness ==
    \A p \in Procs :
        /\ SF_vars(WorkerStep(p))
        /\ \A c \in Clients : SF_vars(RequestStep(p, c))
        /\ SF_vars(\E c \in Clients : PollStatus(p, c))

FairSpec == Spec /\ Fairness

-----------------------------------------------------------------------------
(* Properties                                                              *)

Threads == [pc : WorkerPcs, job : Jobs \cup {NoJob}]
Requests == [pc : ClientPcs, job : Jobs \cup {NoJob}]
\* Every variable stays within its type.
TypeOK ==
    /\ registry \in [Jobs -> Records \cup {Nil}]
    /\ issued \in 0 .. MaxJobs
    /\ pid \in [Procs -> Pids \cup {NoPid}]
    /\ queue \in [Procs -> Seq(Jobs)]
    /\ worker \in [Procs -> Threads]
    /\ client \in [Procs -> [Clients -> Requests]]
    /\ slot \in Procs \cup {NoProc}
    /\ mutation \in Mutations \cup {Nil}
    /\ crashes \in 0 .. MaxCrashes
    /\ faults \in 0 .. MaxFaults

Refreshing(p) == pid[p] # NoPid /\ worker[p].pc \in RefreshPcs

\* Jobs a process still means to run: accepted and on the way to its queue, in
\* the queue, or in the hand of its worker.
Carried(p) ==
    {client[p][c].job : c \in {d \in Clients : client[p][d].pc \in {"accepted", "ensured"}}}
    \cup {queue[p][i] : i \in 1 .. Len(queue[p])}
    \cup (IF worker[p].pc \in {"slot", "marking"} \cup RefreshPcs THEN {worker[p].job} ELSE {})

\* Two requests, in one process or in two, never leave one scope with two
\* unfinished jobs: a second request is answered with the first one's job.
AtMostOneActivePerScope ==
    \A j, k \in Jobs :
        /\ Active(registry[j]) /\ Active(registry[k])
        /\ registry[j].scope = registry[k].scope
        => j = k

\* The processes that share a project file run one refresh at a time, through
\* crashes, restarts and registry errors.
SingleRefresh == \A p, q \in Procs : Refreshing(p) /\ Refreshing(q) => p = q

\* A refresh is under way only for a job whose record says so and names this
\* process: it was not interrupted, finished or forgotten behind its back.
RefreshIsRecorded ==
    \A p \in Procs : Refreshing(p) => OwnRecord(p, "running")

\* While a scope is being created, updated or deleted, no process refreshes it
\* with the configuration it had before.
MutationExcludesRefresh ==
    mutation # Nil =>
        \A p \in Procs :
            Refreshing(p) => registry[worker[p].job].scope # mutation.scope

\* A record disappears only from among the finished ones, and only while
\* max_history jobs accepted after it are finished and kept.
ForgottenOnlyWhenSuperseded ==
    [][\A j \in Jobs :
         registry[j] # Nil /\ registry'[j] = Nil =>
             /\ Terminal(registry[j]) \/ j \notin UNION {Carried(p)' : p \in Procs}
             /\ Cardinality({k \in Jobs : k > j /\ Terminal(registry'[k])}) >= MaxHistory]_vars

\* The registry, seen job by job.
StatusOf(j) == IF registry[j] # Nil THEN registry[j].status
               ELSE IF j <= issued THEN "forgotten" ELSE "absent"
ScopeOf(j) == IF registry[j] # Nil THEN registry[j].scope ELSE Nil

\* What a caller may rely on (JobLedger).
Ledger == INSTANCE JobLedger WITH
    NoScope <- Nil,
    status <- [j \in Jobs |-> StatusOf(j)],
    scope <- [j \in Jobs |-> ScopeOf(j)]
ImplementsLedger == Ledger!Spec

\* As long as no registry write or thread start fails and no pid is reused, an
\* unfinished job of a running process is still on its way: no ordering of
\* accept, thread start, put, take, marks and crashes loses it.
NoStrandedJob ==
    (faults = 0 /\ ~ AllowPidReuse) =>
        \A j \in Jobs : \A p \in Procs :
            /\ Active(registry[j]) /\ registry[j].owner = pid[p]
            => /\ j \in Carried(p)
               /\ queue[p] # <<>> => worker[p].pc \notin {"none", "dying"}

\* Every job is settled in the end, by its own process or, once that is gone,
\* by whoever asks: unless no process is left to ask.
EveryJobSettles ==
    \A j \in Jobs :
        Active(registry[j]) ~> (~ Active(registry[j]) \/ Alive = {})

\* A job of a running process was being refreshed, and the thread that did it is
\* gone.
LostWorker(p, j) ==
    /\ OwnedBy(p, j, "running")
    /\ worker[p].pc = "none"

\* A job whose worker was lost is settled in the end, as long as its process
\* stays up and clients keep asking for its status.
LostWorkerIsInterrupted ==
    \A p \in Procs : \A j \in Jobs :
        LostWorker(p, j) ~> (~ Active(registry[j]) \/ pid[p] = NoPid)

\* A process that comes up leaves no unfinished job of a process that is gone
\* (its own earlier self included).
StartupSettlesOrphans ==
    [][\A p \in Procs : pid[p] = NoPid /\ pid'[p] # NoPid =>
         \A j \in Jobs : Active(registry[j]) /\ registry[j].owner \notin Alive =>
             ~ Active(registry'[j])]_vars
=============================================================================
