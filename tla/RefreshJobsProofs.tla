-------------------------- MODULE RefreshJobsProofs --------------------------
(***************************************************************************)
(* What RefreshJobs guarantees for any number of processes, threads,       *)
(* scopes and jobs, any history length, and any number of crashes and      *)
(* registry errors.                                                        *)
(*                                                                         *)
(* The invariants of the worker and of the scope mutation hold because of  *)
(* one another: a job being refreshed keeps its record because nobody      *)
(* interrupts the job of a live owner, and a mutation, which interrupts    *)
(* from a snapshot of the live processes, took that snapshot while no      *)
(* process outside it was refreshing.  IInv says all of this at once.      *)
(***************************************************************************)
EXTENDS RefreshJobs, FiniteSetTheorems, WellFoundedInduction, TLAPS

\* A process that is down runs no thread.
DownIsIdle == \A p \in Procs : pid[p] = NoPid => worker[p].pc = "none"

\* Two running processes have different process ids.
PidsDiffer == \A p, q \in Procs : pid[p] # NoPid /\ pid[p] = pid[q] => p = q

\* A job number beyond those issued has no record.
UnissuedHaveNoRecord == \A j \in Jobs : j > issued => registry[j] = Nil

\* A thread past the acceptance of a job has that job in hand.
JobsInHand ==
    /\ \A p \in Procs :
         worker[p].pc \in {"slot", "marking"} \cup RefreshPcs => worker[p].job \in Jobs
    /\ \A p \in Procs : \A c \in Clients :
         client[p][c].pc \in {"accepted", "ensured", "enqueued"} => client[p][c].job \in Jobs

\* A worker inside the worker lock is the one that holds it.
SlotHeldByWorker == \A p \in Procs : worker[p].pc \in HoldingPcs => slot = p

\* The processes that are refreshing were alive when the mutation under way
\* began, and none of the jobs that were alive then is on its scope.
MutationSnapshot ==
    mutation # Nil =>
        /\ \A p \in Procs : Refreshing(p) => pid[p] \in mutation.live
        /\ \A j \in Jobs :
             /\ Active(registry[j])
             /\ registry[j].owner \in mutation.live
             => registry[j].scope # mutation.scope

\* The mutation under way belongs to the one request thread that is inside it.
MutationHeld ==
    \A p, q \in Procs : \A c, d \in Clients :
        client[p][c].pc = "mutating" =>
            /\ mutation # Nil /\ mutation.proc = p
            /\ client[q][d].pc = "mutating" => p = q /\ c = d

IInv ==
    /\ TypeOK
    /\ DownIsIdle
    /\ PidsDiffer
    /\ UnissuedHaveNoRecord
    /\ JobsInHand
    /\ SlotHeldByWorker
    /\ AtMostOneActivePerScope
    /\ RefreshIsRecorded
    /\ MutationHeld
    /\ MutationSnapshot

Registries == [Jobs -> Records \cup {Nil}]

-----------------------------------------------------------------------------
(* Registry edits, record by record                                        *)

\* _pruned drops terminal records and changes no other.
LEMMA PrunedRecords ==
    ASSUME NEW reg \in Registries
    PROVE  /\ Pruned(reg) \in Registries
           /\ \A j \in Jobs : \/ Pruned(reg)[j] = reg[j]
                              \/ Pruned(reg)[j] = Nil /\ Terminal(reg[j])
BY DEF Pruned, Registries

\* _interrupt_dead_records ends the active records of dead owners and changes no
\* other record.
LEMMA InterruptedRecords ==
    ASSUME NEW reg \in Registries, NEW live
    PROVE  /\ InterruptDead(reg, live) \in Registries
           /\ \A j \in Jobs :
                /\ ~ Orphan(reg[j], live) => InterruptDead(reg, live)[j] = reg[j]
                /\ Orphan(reg[j], live) =>
                     InterruptDead(reg, live)[j] = [reg[j] EXCEPT !.status = "interrupted"]
BY DEF InterruptDead, Registries, Records, Orphan, Active, TerminalStatuses

\* After it, an active record is one that was there, and its owner is alive.
LEMMA InterruptedActive ==
    ASSUME NEW reg \in Registries, NEW live
    PROVE  \A j \in Jobs :
             /\ Active(InterruptDead(reg, live)[j]) =>
                  InterruptDead(reg, live)[j] = reg[j] /\ reg[j].owner \in live
             /\ Active(reg[j]) /\ reg[j].owner \in live =>
                  InterruptDead(reg, live)[j] = reg[j]
             /\ reg[j] = Nil => InterruptDead(reg, live)[j] = Nil
BY NullsAssumption
   DEF InterruptDead, Registries, Records, Orphan, Active, ActiveStatuses,
       TerminalStatuses

\* Changing the status of a record changes nothing else.
LEMMA SetStatusRecords ==
    ASSUME NEW reg \in Registries, NEW j \in Jobs, reg[j] # Nil,
           NEW status \in ActiveStatuses \cup TerminalStatuses
    PROVE  /\ SetStatus(reg, j, status) \in Registries
           /\ SetStatus(reg, j, status)[j] # Nil
           /\ SetStatus(reg, j, status)[j].status = status
           /\ SetStatus(reg, j, status)[j].owner = reg[j].owner
           /\ SetStatus(reg, j, status)[j].scope = reg[j].scope
           /\ \A k \in Jobs : k # j => SetStatus(reg, j, status)[k] = reg[k]
BY NullsAssumption DEF SetStatus, Registries, Records

\* new holds the records of reg, except that active records of owners outside
\* live may have ended and terminal records may have been dropped.
Settles(reg, new, live) ==
    /\ new \in Registries
    /\ \A j \in Jobs :
         /\ Active(new[j]) => new[j] = reg[j]
         /\ Active(reg[j]) /\ reg[j].owner \in live => new[j] = reg[j]
         /\ reg[j] = Nil => new[j] = Nil

\* An edit that only interrupts dead owners' jobs settles the registry.
LEMMA EditSettles ==
    ASSUME NEW reg \in Registries, NEW live
    PROVE  /\ Settles(reg, reg, live)
           /\ Settles(reg, Pruned(reg), live)
           /\ Settles(reg, Pruned(InterruptDead(reg, live)), live)
<1>1. Settles(reg, Pruned(reg), live)
  BY PrunedRecords, NullsAssumption
     DEF Settles, Active, Terminal, ActiveStatuses, TerminalStatuses
<1>2. Settles(reg, Pruned(InterruptDead(reg, live)), live)
  <2> DEFINE mid == InterruptDead(reg, live)
  <2>1. mid \in Registries
    BY InterruptedRecords
  <2>2. /\ Pruned(mid) \in Registries
        /\ \A j \in Jobs : \/ Pruned(mid)[j] = mid[j]
                           \/ Pruned(mid)[j] = Nil /\ Terminal(mid[j])
    BY <2>1, PrunedRecords
  <2>3. \A j \in Jobs :
          /\ Active(mid[j]) => mid[j] = reg[j]
          /\ Active(reg[j]) /\ reg[j].owner \in live => mid[j] = reg[j]
          /\ reg[j] = Nil => mid[j] = Nil
    BY InterruptedActive
  <2>4. \A j \in Jobs : Terminal(mid[j]) => ~ Active(mid[j]) /\ mid[j] # Nil
    BY DEF Active, Terminal, ActiveStatuses, TerminalStatuses
  <2> HIDE DEF mid
  <2>5. Settles(reg, Pruned(mid), live)
    BY <2>2, <2>3, <2>4 DEF Settles, Active
  <2> QED BY <2>5 DEF mid
<1>3. Settles(reg, reg, live)
  BY DEF Settles
<1> QED BY <1>1, <1>2, <1>3

-----------------------------------------------------------------------------
(* The invariant                                                           *)

LEMMA InitIsInvariant == Init => IInv
BY BoundsAssumption
   DEF Init, IInv, TypeOK, DownIsIdle, PidsDiffer, UnissuedHaveNoRecord, JobsInHand,
       SlotHeldByWorker, AtMostOneActivePerScope, RefreshIsRecorded, MutationSnapshot,
       MutationHeld,
       IdleWorker, IdleClient, Threads, Requests, WorkerPcs, ClientPcs, NoJob, Active,
       Refreshing, RefreshPcs, HoldingPcs, Records

\* An edit that settles the registry while no mutation is under way keeps every
\* part of the invariant, as long as the other variables do.
LEMMA SettlingKeeps ==
    ASSUME IInv, NEW live, Settles(registry, registry', live),
           \A p \in Procs : Refreshing(p)' =>
               Refreshing(p) /\ worker'[p].job = worker[p].job /\ pid[p] \in live,
           pid' = pid, issued' = issued, mutation' = Nil
    PROVE  /\ registry' \in Registries
           /\ UnissuedHaveNoRecord'
           /\ AtMostOneActivePerScope'
           /\ RefreshIsRecorded'
           /\ MutationSnapshot'
<1>1. registry' \in Registries
  BY DEF Settles
<1>2. UnissuedHaveNoRecord'
  BY DEF Settles, IInv, UnissuedHaveNoRecord, TypeOK
<1>3. AtMostOneActivePerScope'
  BY DEF Settles, IInv, AtMostOneActivePerScope, Active
<1>4. RefreshIsRecorded'
  BY DEF Settles, IInv, RefreshIsRecorded, OwnRecord, OwnedBy, Refreshing, JobsInHand,
         Active, ActiveStatuses
<1>5. MutationSnapshot'
  BY DEF MutationSnapshot
<1> QED BY <1>1, <1>2, <1>3, <1>4, <1>5

\* A step that leaves the registry, the process ids and the mutation alone keeps
\* what the invariant says of them, if it starts no refresh.
LEMMA FrameKeeps ==
    ASSUME IInv, UNCHANGED <<registry, issued, pid, mutation>>,
           \A p \in Procs : worker'[p].pc \in RefreshPcs =>
               worker[p].pc \in RefreshPcs /\ worker'[p].job = worker[p].job
    PROVE  /\ PidsDiffer'
           /\ UnissuedHaveNoRecord'
           /\ AtMostOneActivePerScope'
           /\ RefreshIsRecorded'
           /\ MutationSnapshot'
<1>1. \A p \in Procs : Refreshing(p)' => Refreshing(p) /\ worker'[p].job = worker[p].job
  BY DEF Refreshing
<1>2. PidsDiffer' /\ UnissuedHaveNoRecord' /\ AtMostOneActivePerScope'
  BY DEF IInv, PidsDiffer, UnissuedHaveNoRecord, AtMostOneActivePerScope
<1>3. RefreshIsRecorded'
  BY <1>1 DEF IInv, RefreshIsRecorded, OwnRecord, OwnedBy
<1>4. MutationSnapshot'
  BY <1>1 DEF IInv, MutationSnapshot
<1> QED BY <1>2, <1>3, <1>4

\* Request threads.
LEMMA RequestKeeps ==
    ASSUME IInv, NEW p \in Procs, NEW c \in Clients, Request(p, c)
    PROVE  IInv'
<1> USE DEF Ready, ClientGoes, Unlocked
<1>1. ASSUME NEW s \in Scopes, Reuse(p, c, s) PROVE IInv'
  <2>1. Settles(registry, registry', Alive)
    BY <1>1, EditSettles DEF Reuse, Edit, IInv, TypeOK, Registries
  <2>2. /\ registry' \in Registries /\ UnissuedHaveNoRecord'
        /\ AtMostOneActivePerScope' /\ RefreshIsRecorded' /\ MutationSnapshot'
    <3>1. \A q \in Procs : Refreshing(q)' =>
             Refreshing(q) /\ worker'[q].job = worker[q].job /\ pid[q] \in Alive
      BY <1>1 DEF Reuse, Refreshing, Alive
    <3> QED BY <1>1, <2>1, <3>1, SettlingKeeps DEF Reuse, Edit
  <2> QED
    BY <1>1, <2>2 DEF Reuse, IInv, TypeOK, Registries, DownIsIdle, PidsDiffer, JobsInHand,
                      SlotHeldByWorker, MutationHeld
<1>2. ASSUME NEW s \in Scopes, Accept(p, c, s) PROVE IInv'
  <2> DEFINE reg == InterruptDead(registry, Alive)
             record == [scope |-> s, status |-> "queued", owner |-> pid[p]]
             j == issued + 1
             added == [reg EXCEPT ![j] = record]
  <2>1. /\ registry \in Registries /\ j \in Jobs /\ registry[j] = Nil
        /\ record \in Records /\ record # Nil
    BY <1>2, BoundsAssumption, NullsAssumption
       DEF Accept, IInv, TypeOK, Registries, Jobs, UnissuedHaveNoRecord, Records,
           ActiveStatuses
  <2>2. /\ reg \in Registries
        /\ \A k \in Jobs : /\ Active(reg[k]) => reg[k] = registry[k]
                           /\ Active(registry[k]) /\ registry[k].owner \in Alive =>
                                reg[k] = registry[k]
                           /\ registry[k] = Nil => reg[k] = Nil
    BY <2>1, InterruptedRecords, InterruptedActive
  <2> HIDE DEF reg
  <2>3. /\ added \in Registries /\ added[j] = record
        /\ \A k \in Jobs : k # j => added[k] = reg[k]
    BY <2>1, <2>2 DEF Registries
  <2>4. registry' = Pruned(added) /\ mutation = Nil
    BY <1>2 DEF Accept, Edit, reg
  <2>5. Settles(added, registry', Alive)
    BY <2>3, <2>4, EditSettles
  <2> HIDE DEF added
  <2>6. AtMostOneActivePerScope'
    <3>1. \A k \in Jobs : Active(reg[k]) => reg[k].scope # s
      BY <1>2 DEF Accept, ScopeBusy, reg
    <3>2. \A k, l \in Jobs : /\ Active(added[k]) /\ Active(added[l])
                             /\ added[k].scope = added[l].scope
                             => k = l
      BY <2>1, <2>2, <2>3, <3>1 DEF IInv, AtMostOneActivePerScope
    <3> QED BY <2>5, <3>2 DEF Settles, AtMostOneActivePerScope
  <2>7. RefreshIsRecorded'
    <3> SUFFICES ASSUME NEW q \in Procs, Refreshing(q)' PROVE OwnRecord(q, "running")'
      BY DEF RefreshIsRecorded
    <3>1. Refreshing(q) /\ worker'[q].job = worker[q].job /\ pid' = pid
      BY <1>2 DEF Accept, Refreshing
    <3> DEFINE k == worker[q].job
    <3>2. k \in Jobs /\ OwnRecord(q, "running")
      BY <3>1 DEF IInv, JobsInHand, RefreshIsRecorded, Refreshing
    <3>3. Active(registry[k]) /\ registry[k].owner \in Alive
      BY <3>1, <3>2 DEF OwnRecord, OwnedBy, Active, ActiveStatuses, Alive, Refreshing
    <3>4. k # j /\ added[k] = registry[k]
      BY <2>1, <2>2, <2>3, <3>2, <3>3 DEF Active
    <3>5. registry'[k] = registry[k]
      BY <2>5, <3>2, <3>3, <3>4 DEF Settles
    <3> QED BY <3>1, <3>2, <3>5 DEF OwnRecord, OwnedBy
  <2>8. UnissuedHaveNoRecord'
    <3> SUFFICES ASSUME NEW k \in Jobs, k > issued' PROVE registry'[k] = Nil
      BY DEF UnissuedHaveNoRecord
    <3>1. k # j /\ k > issued
      BY <1>2 DEF Accept, IInv, TypeOK, Jobs
    <3> QED BY <2>2, <2>3, <2>5, <3>1 DEF Settles, IInv, UnissuedHaveNoRecord
  <2>9. TypeOK'
    <3>1. registry' \in [Jobs -> Records \cup {Nil}]
      BY <2>5 DEF Settles, Registries
    <3>2. issued' \in 0 .. MaxJobs
      BY <1>2, BoundsAssumption DEF Accept, IInv, TypeOK
    <3>3. client' \in [Procs -> [Clients -> Requests]]
      BY <1>2, <2>1 DEF Accept, IInv, TypeOK, Requests, ClientPcs
    <3> QED BY <1>2, <3>1, <3>2, <3>3 DEF Accept, IInv, TypeOK
  <2>10. JobsInHand'
    BY <1>2, <2>1 DEF Accept, IInv, TypeOK, JobsInHand, Requests
  <2>11. DownIsIdle' /\ PidsDiffer' /\ SlotHeldByWorker' /\ MutationSnapshot'
    BY <1>2, <2>4 DEF Accept, IInv, DownIsIdle, PidsDiffer, SlotHeldByWorker,
                      MutationSnapshot
  <2>12. MutationHeld'
    BY <1>2 DEF Accept, IInv, TypeOK, MutationHeld, Requests
  <2> QED BY <2>6, <2>7, <2>8, <2>9, <2>10, <2>11, <2>12 DEF IInv
<1>3. ASSUME NEW s \in Scopes, BeginMutation(p, c, s) PROVE IInv'
  <2>1. \A q \in Procs : Refreshing(q)' => Refreshing(q) /\ pid[q] \in Alive
    BY <1>3 DEF BeginMutation, Refreshing, Alive
  <2>2. mutation' \in Mutations /\ mutation'.live = Alive /\ mutation'.scope = s
    BY <1>3 DEF BeginMutation, Mutations, Alive, IInv, TypeOK
  <2>3. MutationSnapshot'
    <3>1. \A j \in Jobs : Active(registry[j]) /\ registry[j].owner \in Alive =>
             registry[j].scope # s
      <4> SUFFICES ASSUME NEW j \in Jobs, Active(registry[j]), registry[j].owner \in Alive,
                          registry[j].scope = s
                   PROVE FALSE
        OBVIOUS
      <4>1. InterruptDead(registry, Alive)[j] = registry[j]
        BY InterruptedActive DEF IInv, TypeOK, Registries
      <4> QED BY <1>3, <4>1 DEF BeginMutation, ScopeBusy
    <3>2. registry' = registry /\ pid' = pid
      BY <1>3 DEF BeginMutation
    <3> QED BY <2>1, <2>2, <3>1, <3>2 DEF MutationSnapshot
  <2>4. TypeOK'
    <3>1. client' \in [Procs -> [Clients -> Requests]]
      BY <1>3 DEF BeginMutation, IInv, TypeOK, Requests, ClientPcs, NoJob
    <3> QED BY <1>3, <2>2, <3>1 DEF BeginMutation, IInv, TypeOK
  <2>5. JobsInHand'
    BY <1>3 DEF BeginMutation, IInv, TypeOK, JobsInHand, Requests
  <2>6. RefreshIsRecorded'
    BY <1>3, <2>1 DEF BeginMutation, IInv, RefreshIsRecorded, OwnRecord, OwnedBy
  <2>7. MutationHeld'
    BY <1>3, NullsAssumption DEF BeginMutation, IInv, TypeOK, MutationHeld, Requests, Mutations, Alive
  <2> QED
    BY <1>3, <2>3, <2>4, <2>5, <2>6, <2>7
       DEF BeginMutation, IInv, DownIsIdle, PidsDiffer, UnissuedHaveNoRecord,
           SlotHeldByWorker, AtMostOneActivePerScope
<1>4. ASSUME PollStatus(p, c) PROVE IInv'
  <2>1. Settles(registry, registry', Alive)
    BY <1>4, EditSettles DEF PollStatus, ReadRecords, IInv, TypeOK, Registries
  <2>2. /\ registry' \in Registries /\ UnissuedHaveNoRecord'
        /\ AtMostOneActivePerScope' /\ RefreshIsRecorded' /\ MutationSnapshot'
    <3>1. \A q \in Procs : Refreshing(q)' =>
             Refreshing(q) /\ worker'[q].job = worker[q].job /\ pid[q] \in Alive
      BY <1>4 DEF PollStatus, Refreshing, Alive
    <3> QED BY <1>4, <2>1, <3>1, SettlingKeeps DEF PollStatus, ReadRecords
  <2> QED
    BY <1>4, <2>2 DEF PollStatus, IInv, TypeOK, Registries, DownIsIdle, PidsDiffer,
                      JobsInHand, SlotHeldByWorker, MutationHeld
<1> QED BY <1>1, <1>2, <1>3, <1>4 DEF Request

LEMMA RequestStepKeeps ==
    ASSUME IInv, NEW p \in Procs, NEW c \in Clients, RequestStep(p, c)
    PROVE  IInv'
<1> USE DEF Ready, ClientGoes, Unlocked
<1>1. CASE EnsureWorker(p, c)
  <2>1. \A q \in Procs : worker'[q].pc \in RefreshPcs =>
           worker[q].pc \in RefreshPcs /\ worker'[q].job = worker[q].job
    BY <1>1 DEF EnsureWorker, IdleWorker, RefreshPcs, IInv, TypeOK, Threads
  <2>2. /\ PidsDiffer' /\ UnissuedHaveNoRecord' /\ AtMostOneActivePerScope'
        /\ RefreshIsRecorded' /\ MutationSnapshot'
    BY <1>1, <2>1, FrameKeeps DEF EnsureWorker
  <2>3. TypeOK'
    BY <1>1 DEF EnsureWorker, IInv, TypeOK, IdleWorker, Threads, WorkerPcs, Requests,
                ClientPcs, JobsInHand, NoJob
  <2>4. JobsInHand'
    BY <1>1 DEF EnsureWorker, IInv, TypeOK, IdleWorker, Threads, Requests, JobsInHand,
                RefreshPcs
  <2>5. DownIsIdle' /\ SlotHeldByWorker'
    BY <1>1 DEF EnsureWorker, IInv, TypeOK, IdleWorker, Threads, DownIsIdle,
                SlotHeldByWorker, HoldingPcs
  <2>6. MutationHeld'
    BY <1>1 DEF EnsureWorker, IInv, TypeOK, MutationHeld, Requests
  <2> QED BY <2>2, <2>3, <2>4, <2>5, <2>6 DEF IInv
<1>2. CASE Enqueue(p, c)
  <2>1. /\ PidsDiffer' /\ UnissuedHaveNoRecord' /\ AtMostOneActivePerScope'
        /\ RefreshIsRecorded' /\ MutationSnapshot'
    BY <1>2, FrameKeeps DEF Enqueue
  <2>2. client[p][c].job \in Jobs
    BY <1>2 DEF Enqueue, IInv, JobsInHand
  <2>3. queue' \in [Procs -> Seq(Jobs)]
    BY <1>2, <2>2 DEF Enqueue, IInv, TypeOK
  <2>4. client' \in [Procs -> [Clients -> Requests]] /\ JobsInHand'
    BY <1>2, <2>2 DEF Enqueue, IInv, TypeOK, Requests, ClientPcs, JobsInHand
  <2>5. MutationHeld'
    BY <1>2 DEF Enqueue, IInv, TypeOK, MutationHeld, Requests
  <2> QED
    BY <1>2, <2>1, <2>3, <2>4, <2>5 DEF Enqueue, IInv, TypeOK, DownIsIdle, SlotHeldByWorker
<1>3. CASE Reply(p, c)
  <2>1. Settles(registry, registry', Alive)
    BY <1>3, EditSettles DEF Reply, ReadRecords, IInv, TypeOK, Registries
  <2>2. /\ registry' \in Registries /\ UnissuedHaveNoRecord'
        /\ AtMostOneActivePerScope' /\ RefreshIsRecorded' /\ MutationSnapshot'
    <3>1. \A q \in Procs : Refreshing(q)' =>
             Refreshing(q) /\ worker'[q].job = worker[q].job /\ pid[q] \in Alive
      BY <1>3 DEF Reply, Refreshing, Alive
    <3> QED BY <1>3, <2>1, <3>1, SettlingKeeps DEF Reply, ReadRecords
  <2>3. client' \in [Procs -> [Clients -> Requests]] /\ JobsInHand'
    BY <1>3 DEF Reply, IInv, TypeOK, Requests, ClientPcs, JobsInHand, NoJob
  <2>4. MutationHeld'
    BY <1>3 DEF Reply, IInv, TypeOK, MutationHeld, Requests
  <2> QED
    BY <1>3, <2>2, <2>3, <2>4 DEF Reply, IInv, TypeOK, Registries, DownIsIdle, PidsDiffer,
                            SlotHeldByWorker
<1>4. CASE EndMutation(p, c)
  <2>1. mutation # Nil
    BY <1>4 DEF EndMutation, IInv, MutationHeld
  <2>2. Settles(registry, registry', mutation.live)
    BY <1>4, EditSettles DEF EndMutation, IInv, TypeOK, Registries
  <2>3. /\ registry' \in Registries /\ UnissuedHaveNoRecord'
        /\ AtMostOneActivePerScope' /\ RefreshIsRecorded' /\ MutationSnapshot'
    <3>1. \A q \in Procs : Refreshing(q)' =>
             Refreshing(q) /\ worker'[q].job = worker[q].job /\ pid[q] \in mutation.live
      BY <1>4, <2>1 DEF EndMutation, Refreshing, IInv, MutationSnapshot
    <3> QED BY <1>4, <2>2, <3>1, SettlingKeeps DEF EndMutation
  <2>4. client' \in [Procs -> [Clients -> Requests]] /\ JobsInHand'
    BY <1>4 DEF EndMutation, IInv, TypeOK, Requests, ClientPcs, JobsInHand, NoJob
  <2>5. MutationHeld'
    BY <1>4 DEF EndMutation, IInv, TypeOK, MutationHeld, Requests
  <2> QED
    BY <1>4, <2>3, <2>4, <2>5 DEF EndMutation, IInv, TypeOK, Registries, DownIsIdle, PidsDiffer,
                            SlotHeldByWorker
<1>5. CASE AbortMutation(p, c)
  <2>1. client' \in [Procs -> [Clients -> Requests]] /\ JobsInHand'
    BY <1>5 DEF AbortMutation, IInv, TypeOK, Requests, ClientPcs, JobsInHand, NoJob
  <2>2. MutationSnapshot'
    BY <1>5 DEF AbortMutation, MutationSnapshot
  <2>3. RefreshIsRecorded'
    BY <1>5 DEF AbortMutation, IInv, RefreshIsRecorded, OwnRecord, OwnedBy, Refreshing
  <2>4. MutationHeld'
    BY <1>5 DEF AbortMutation, IInv, TypeOK, MutationHeld, Requests
  <2> QED
    BY <1>5, <2>1, <2>2, <2>3, <2>4
       DEF AbortMutation, IInv, TypeOK, DownIsIdle, PidsDiffer, UnissuedHaveNoRecord,
           SlotHeldByWorker, AtMostOneActivePerScope
<1> QED BY <1>1, <1>2, <1>3, <1>4, <1>5 DEF RequestStep

-----------------------------------------------------------------------------
(* The worker thread                                                       *)

\* A worker that marks its own record, or fails to, keeps the invariant.
LEMMA MarkKeeps ==
    ASSUME IInv, NEW p \in Procs, NEW pc \in {"refreshing", "releasing", "unwinding"},
           NEW from \in ActiveStatuses,
           NEW status \in {"running", "succeeded", "failed"},
           pid[p] # NoPid, mutation = Nil,
           worker[p].pc \in {"marking", "succeeded", "failed"},
           OwnRecord(p, from),
           pc = "refreshing" => status = "running",
           \/ registry' = registry /\ pc = "unwinding"
           \/ registry' = Pruned(SetStatus(registry, worker[p].job, status)),
           WorkerGoes(p, pc),
           UNCHANGED <<issued, pid, queue, client, slot, mutation, crashes>>,
           faults' \in 0 .. MaxFaults
    PROVE  IInv'
<1> DEFINE j == worker[p].job
           set == SetStatus(registry, j, status)
<1>1. registry \in Registries /\ j \in Jobs /\ registry[j] # Nil /\ Active(registry[j])
  BY DEF IInv, TypeOK, Registries, JobsInHand, RefreshPcs, OwnRecord, OwnedBy, Active
<1>2. /\ set \in Registries /\ set[j] # Nil /\ set[j].status = status
      /\ set[j].owner = registry[j].owner /\ set[j].scope = registry[j].scope
      /\ \A k \in Jobs : k # j => set[k] = registry[k]
  <2>1. status \in ActiveStatuses \cup TerminalStatuses
    BY DEF ActiveStatuses, TerminalStatuses
  <2> HIDE DEF j
  <2> QED BY <1>1, <2>1, SetStatusRecords
<1> HIDE DEF set
<1>3. \A k \in Jobs :
        /\ Active(registry'[k]) =>
             /\ registry'[k] \in {registry[k], set[k]}
             /\ Active(registry[k]) /\ registry'[k].scope = registry[k].scope
        /\ k # j /\ Active(registry[k]) => registry'[k] = registry[k]
        /\ registry[k] = Nil => registry'[k] = Nil
        /\ k = j /\ pc = "refreshing" => registry'[k] = set[k]
  <2>1. CASE registry' = registry /\ pc = "unwinding"
    BY <2>1
  <2>2. CASE registry' = Pruned(set)
    <3>1. Settles(set, registry', Alive)
      BY <1>2, <2>2, EditSettles
    <3>2. pc = "refreshing" => registry'[j] = set[j]
      BY <1>1, <1>2, <2>2, PrunedRecords DEF Terminal, TerminalStatuses
    <3>3. \A k \in Jobs :
            /\ Active(registry'[k]) => registry'[k] = set[k]
            /\ set[k] = Nil => registry'[k] = Nil
      BY <3>1 DEF Settles
    <3>4. \A k \in Jobs : k # j /\ Active(registry[k]) => registry'[k] = set[k]
      BY <1>2, <2>2, PrunedRecords DEF Active, Terminal, ActiveStatuses, TerminalStatuses
    <3> HIDE DEF j
    <3> QED BY <1>1, <1>2, <3>2, <3>3, <3>4
  <2> QED BY <2>1, <2>2 DEF set
<1>4. /\ worker'[p].pc = pc /\ worker'[p].job = j
      /\ \A q \in Procs : q # p => worker'[q] = worker[q]
      /\ worker' \in [Procs -> Threads]
  BY DEF WorkerGoes, IInv, TypeOK, Threads, WorkerPcs
<1>5. TypeOK'
  <2>1. registry' \in Registries
    BY <1>1, <1>2, PrunedRecords DEF set
  <2> QED BY <1>4, <2>1 DEF IInv, TypeOK, Registries
<1>6. DownIsIdle' /\ PidsDiffer' /\ MutationHeld' /\ MutationSnapshot'
  BY <1>4 DEF IInv, DownIsIdle, PidsDiffer, MutationHeld, MutationSnapshot
<1>7. UnissuedHaveNoRecord'
  BY <1>3 DEF IInv, UnissuedHaveNoRecord
<1>8. JobsInHand' /\ SlotHeldByWorker'
  BY <1>1, <1>4 DEF IInv, JobsInHand, SlotHeldByWorker, HoldingPcs
<1>9. AtMostOneActivePerScope'
  BY <1>3 DEF IInv, AtMostOneActivePerScope
<1>10. RefreshIsRecorded'
  <2> SUFFICES ASSUME NEW q \in Procs, Refreshing(q)' PROVE OwnRecord(q, "running")'
    BY DEF RefreshIsRecorded
  <2>1. CASE q = p
    <3>1. pc = "refreshing"
      BY <1>4, <2>1 DEF Refreshing, RefreshPcs
    <3> QED BY <1>1, <1>2, <1>3, <1>4, <2>1, <3>1 DEF OwnRecord, OwnedBy
  <2>2. CASE q # p
    <3>1. Refreshing(q) /\ worker'[q] = worker[q]
      BY <1>4, <2>2 DEF Refreshing
    <3>2. worker[q].job \in Jobs /\ OwnRecord(q, "running")
      BY <3>1 DEF IInv, JobsInHand, RefreshIsRecorded, Refreshing
    <3>3. worker[q].job # j
      BY <2>2, <3>1, <3>2 DEF IInv, PidsDiffer, OwnRecord, OwnedBy, Refreshing
    <3> QED BY <1>3, <3>1, <3>2, <3>3 DEF OwnRecord, OwnedBy, Active, ActiveStatuses
  <2> QED BY <2>1, <2>2
<1> QED BY <1>5, <1>6, <1>7, <1>8, <1>9, <1>10 DEF IInv

\* A worker whose record is not the expected one rewrites the registry as it was.
LEMMA NoMarkKeeps ==
    ASSUME IInv, NEW p \in Procs, NEW pc \in {"releasing", "unwinding"},
           mutation = Nil, worker[p].pc \in HoldingPcs, pid[p] # NoPid,
           registry' = Pruned(registry), WorkerGoes(p, pc),
           UNCHANGED <<issued, pid, queue, client, slot, mutation, crashes, faults>>
    PROVE  IInv'
<1>1. Settles(registry, registry', Alive)
  BY EditSettles DEF IInv, TypeOK, Registries
<1>2. /\ worker'[p].pc = pc
      /\ \A q \in Procs : q # p => worker'[q] = worker[q]
      /\ worker' \in [Procs -> Threads]
  BY DEF WorkerGoes, IInv, TypeOK, Threads, WorkerPcs
<1>3. \A q \in Procs : Refreshing(q)' =>
         Refreshing(q) /\ worker'[q].job = worker[q].job /\ pid[q] \in Alive
  BY <1>2 DEF Refreshing, RefreshPcs, Alive
<1>4. /\ registry' \in Registries /\ UnissuedHaveNoRecord'
      /\ AtMostOneActivePerScope' /\ RefreshIsRecorded' /\ MutationSnapshot'
  BY <1>1, <1>3, SettlingKeeps
<1>5. TypeOK'
  BY <1>2, <1>4 DEF IInv, TypeOK, Registries
<1>6. DownIsIdle' /\ PidsDiffer' /\ MutationHeld'
  BY <1>2 DEF IInv, DownIsIdle, PidsDiffer, MutationHeld
<1>7. JobsInHand' /\ SlotHeldByWorker'
  BY <1>2 DEF IInv, JobsInHand, SlotHeldByWorker, RefreshPcs
<1> QED BY <1>4, <1>5, <1>6, <1>7 DEF IInv

LEMMA WorkerStepKeeps ==
    ASSUME IInv, NEW p \in Procs, WorkerStep(p)
    PROVE  IInv'
<1> USE DEF WorkerAt
<1>1. CASE TakeJob(p)
  <2>1. Head(queue[p]) \in Jobs /\ Tail(queue[p]) \in Seq(Jobs)
    BY <1>1 DEF TakeJob, IInv, TypeOK
  <2>2. /\ worker'[p] = [pc |-> "slot", job |-> Head(queue[p])]
        /\ \A q \in Procs : q # p => worker'[q] = worker[q]
        /\ worker' \in [Procs -> Threads]
    BY <1>1, <2>1 DEF TakeJob, IInv, TypeOK, Threads, WorkerPcs
  <2>3. /\ PidsDiffer' /\ UnissuedHaveNoRecord' /\ AtMostOneActivePerScope'
        /\ RefreshIsRecorded' /\ MutationSnapshot'
    <3>1. \A q \in Procs : worker'[q].pc \in RefreshPcs =>
             worker[q].pc \in RefreshPcs /\ worker'[q].job = worker[q].job
      BY <2>2 DEF RefreshPcs
    <3> QED BY <1>1, <3>1, FrameKeeps DEF TakeJob
  <2>4. TypeOK'
    BY <1>1, <2>1, <2>2 DEF TakeJob, IInv, TypeOK
  <2>5. JobsInHand' /\ DownIsIdle' /\ SlotHeldByWorker' /\ MutationHeld'
    BY <1>1, <2>1, <2>2 DEF TakeJob, IInv, JobsInHand, DownIsIdle, SlotHeldByWorker,
                            MutationHeld, HoldingPcs
  <2> QED BY <2>3, <2>4, <2>5 DEF IInv
<1>2. CASE AcquireSlot(p)
  <2>1. /\ worker'[p].pc = "marking" /\ worker'[p].job = worker[p].job
        /\ \A q \in Procs : q # p => worker'[q] = worker[q]
        /\ worker' \in [Procs -> Threads]
    BY <1>2 DEF AcquireSlot, WorkerGoes, IInv, TypeOK, Threads, WorkerPcs
  <2>2. /\ PidsDiffer' /\ UnissuedHaveNoRecord' /\ AtMostOneActivePerScope'
        /\ RefreshIsRecorded' /\ MutationSnapshot'
    <3>1. \A q \in Procs : worker'[q].pc \in RefreshPcs =>
             worker[q].pc \in RefreshPcs /\ worker'[q].job = worker[q].job
      BY <2>1 DEF RefreshPcs
    <3> QED BY <1>2, <3>1, FrameKeeps DEF AcquireSlot
  <2>3. SlotHeldByWorker'
    BY <1>2, <2>1, NullsAssumption DEF AcquireSlot, IInv, SlotHeldByWorker
  <2>4. JobsInHand' /\ DownIsIdle' /\ MutationHeld'
    BY <1>2, <2>1 DEF AcquireSlot, IInv, JobsInHand, DownIsIdle, MutationHeld, RefreshPcs
  <2>5. TypeOK'
    BY <1>2, <2>1 DEF AcquireSlot, IInv, TypeOK
  <2> QED BY <2>2, <2>3, <2>4, <2>5 DEF IInv
<1>3. CASE MarkRunning(p)
  <2>1. CASE OwnRecord(p, "queued")
    BY <1>3, <2>1, MarkKeeps DEF MarkRunning, Edit, Unlocked, ActiveStatuses, IInv, TypeOK
  <2>2. CASE ~ OwnRecord(p, "queued")
    <3>1. PICK pc \in {"releasing", "unwinding"} : WorkerGoes(p, pc)
      BY <1>3, <2>2 DEF MarkRunning
    <3> QED BY <1>3, <2>2, <3>1, NoMarkKeeps DEF MarkRunning, Edit, Unlocked, HoldingPcs
  <2> QED BY <2>1, <2>2
<1>4. CASE RefreshReturns(p)
  <2>1. /\ worker'[p].pc \in RefreshPcs /\ worker'[p].job = worker[p].job
        /\ \A q \in Procs : q # p => worker'[q] = worker[q]
        /\ worker' \in [Procs -> Threads]
    BY <1>4 DEF RefreshReturns, WorkerGoes, IInv, TypeOK, Threads, WorkerPcs, RefreshPcs
  <2>2. worker[p].pc \in RefreshPcs /\ worker[p].pc \in HoldingPcs
    BY <1>4 DEF RefreshReturns, RefreshPcs, HoldingPcs
  <2>3. /\ PidsDiffer' /\ UnissuedHaveNoRecord' /\ AtMostOneActivePerScope'
        /\ RefreshIsRecorded' /\ MutationSnapshot'
    BY <1>4, <2>1, <2>2, FrameKeeps DEF RefreshReturns
  <2>4. JobsInHand' /\ DownIsIdle' /\ SlotHeldByWorker' /\ MutationHeld'
    BY <1>4, <2>1, <2>2 DEF RefreshReturns, IInv, JobsInHand, DownIsIdle, SlotHeldByWorker,
                            MutationHeld
  <2> QED BY <1>4, <2>1, <2>3, <2>4 DEF RefreshReturns, IInv, TypeOK
<1>5. CASE MarkFinished(p)
  <2>1. PICK pc \in {"releasing", "unwinding"} : WorkerGoes(p, pc)
    BY <1>5 DEF MarkFinished
  <2>2. CASE OwnRecord(p, "running")
    BY <1>5, <2>1, <2>2, MarkKeeps
       DEF MarkFinished, Edit, Unlocked, ActiveStatuses, IInv, TypeOK
  <2>3. CASE ~ OwnRecord(p, "running")
    BY <1>5, <2>1, <2>3, NoMarkKeeps DEF MarkFinished, Edit, Unlocked, HoldingPcs
  <2> QED BY <2>2, <2>3
<1>6. ASSUME ReleaseSlot(p) \/ ThreadEnds(p) PROVE IInv'
  <2>1. /\ worker'[p].pc \in {"idle", "dying", "none"}
        /\ \A q \in Procs : q # p => worker'[q] = worker[q]
        /\ worker' \in [Procs -> Threads]
    <3>1. PICK pc \in {"idle", "dying", "none"} :
             worker' = [worker EXCEPT ![p] = IdleWorker(pc)]
      BY <1>6 DEF ReleaseSlot, ThreadEnds
    <3>2. IdleWorker(pc) \in Threads /\ IdleWorker(pc).pc = pc
      BY DEF IdleWorker, Threads, WorkerPcs, NoJob
    <3> HIDE DEF IdleWorker
    <3> QED BY <3>1, <3>2 DEF IInv, TypeOK
  <2>2. /\ PidsDiffer' /\ UnissuedHaveNoRecord' /\ AtMostOneActivePerScope'
        /\ RefreshIsRecorded' /\ MutationSnapshot'
    <3>1. \A q \in Procs : worker'[q].pc \in RefreshPcs =>
             worker[q].pc \in RefreshPcs /\ worker'[q].job = worker[q].job
      BY <2>1 DEF RefreshPcs
    <3> QED BY <1>6, <3>1, FrameKeeps DEF ReleaseSlot, ThreadEnds
  <2>3. SlotHeldByWorker'
    <3>1. CASE ReleaseSlot(p)
      <4>1. slot = p
        BY <3>1 DEF ReleaseSlot, IInv, SlotHeldByWorker, HoldingPcs
      <4> QED BY <2>1, <4>1 DEF IInv, SlotHeldByWorker, HoldingPcs
    <3>2. CASE ThreadEnds(p)
      BY <2>1, <3>2 DEF ThreadEnds, IInv, SlotHeldByWorker, HoldingPcs
    <3> QED BY <1>6, <3>1, <3>2
  <2>4. JobsInHand' /\ DownIsIdle' /\ MutationHeld'
    BY <1>6, <2>1 DEF ReleaseSlot, ThreadEnds, IInv, JobsInHand, DownIsIdle, MutationHeld,
                      RefreshPcs
  <2>5. TypeOK'
    BY <1>6, <2>1 DEF ReleaseSlot, ThreadEnds, IInv, TypeOK
  <2> QED BY <2>2, <2>3, <2>4, <2>5 DEF IInv
<1> QED BY <1>1, <1>2, <1>3, <1>4, <1>5, <1>6 DEF WorkerStep

\* Errors of the registry file, the lock file and the thread start.
LEMMA FaultKeeps ==
    ASSUME IInv, NEW p \in Procs, Fault(p)
    PROVE  IInv'
<1> USE DEF WorkerAt
<1>1. ASSUME NEW c \in Clients, RequestFails(p, c) PROVE IInv'
  <2>1. /\ PidsDiffer' /\ UnissuedHaveNoRecord' /\ AtMostOneActivePerScope'
        /\ RefreshIsRecorded' /\ MutationSnapshot'
    BY <1>1, FrameKeeps DEF RequestFails
  <2>2. client' \in [Procs -> [Clients -> Requests]] /\ JobsInHand' /\ MutationHeld'
    BY <1>1 DEF RequestFails, ClientGoes, IInv, TypeOK, Requests, ClientPcs,
                JobsInHand, MutationHeld, NoJob
  <2>3. faults' \in 0 .. MaxFaults
    BY <1>1, BoundsAssumption DEF RequestFails, IInv, TypeOK
  <2> QED
    BY <1>1, <2>1, <2>2, <2>3 DEF RequestFails, IInv, TypeOK, DownIsIdle,
                                  SlotHeldByWorker
<1>2. CASE SlotFails(p)
  <2>1. /\ worker'[p].pc = "dying"
        /\ \A q \in Procs : q # p => worker'[q] = worker[q]
        /\ worker' \in [Procs -> Threads]
    BY <1>2 DEF SlotFails, WorkerGoes, IInv, TypeOK, Threads, WorkerPcs
  <2>2. /\ PidsDiffer' /\ UnissuedHaveNoRecord' /\ AtMostOneActivePerScope'
        /\ RefreshIsRecorded' /\ MutationSnapshot'
    <3>1. \A q \in Procs : worker'[q].pc \in RefreshPcs =>
             worker[q].pc \in RefreshPcs /\ worker'[q].job = worker[q].job
      BY <2>1 DEF RefreshPcs
    <3> QED BY <1>2, <3>1, FrameKeeps DEF SlotFails
  <2>3. JobsInHand' /\ DownIsIdle' /\ SlotHeldByWorker' /\ MutationHeld'
    BY <1>2, <2>1 DEF SlotFails, IInv, JobsInHand, DownIsIdle, SlotHeldByWorker,
                      MutationHeld, HoldingPcs, RefreshPcs
  <2>4. faults' \in 0 .. MaxFaults
    BY <1>2, BoundsAssumption DEF SlotFails, IInv, TypeOK
  <2> QED BY <1>2, <2>1, <2>2, <2>3, <2>4 DEF SlotFails, IInv, TypeOK
<1>3. CASE MarkRunningFails(p)
  <2>1. faults' \in 0 .. MaxFaults
    BY <1>3, BoundsAssumption DEF MarkRunningFails, FaultyEdit, IInv, TypeOK
  <2> QED BY <1>3, <2>1, MarkKeeps
             DEF MarkRunningFails, FaultyEdit, Unlocked, ActiveStatuses
<1>4. CASE MarkFinishedFails(p)
  <2>1. faults' \in 0 .. MaxFaults
    BY <1>4, BoundsAssumption DEF MarkFinishedFails, FaultyEdit, IInv, TypeOK
  <2> QED BY <1>4, <2>1, MarkKeeps
             DEF MarkFinishedFails, FaultyEdit, Unlocked, ActiveStatuses
<1> QED BY <1>1, <1>2, <1>3, <1>4 DEF Fault

-----------------------------------------------------------------------------
(* Processes                                                               *)

LEMMA CrashKeeps ==
    ASSUME IInv, NEW p \in Procs, Crash(p)
    PROVE  IInv'
<1>1. /\ worker'[p].pc = "none" /\ pid'[p] = NoPid
      /\ \A q \in Procs : q # p => worker'[q] = worker[q] /\ pid'[q] = pid[q]
      /\ \A c \in Clients : client'[p][c] = IdleClient
      /\ \A q \in Procs : q # p => client'[q] = client[q]
  BY DEF Crash, IInv, TypeOK, IdleWorker
<1>2. TypeOK'
  <2>1. crashes' \in 0 .. MaxCrashes
    BY BoundsAssumption DEF Crash, IInv, TypeOK
  <2>2. /\ pid' \in [Procs -> Pids \cup {NoPid}] /\ queue' \in [Procs -> Seq(Jobs)]
        /\ slot' \in Procs \cup {NoProc} /\ mutation' \in Mutations \cup {Nil}
    BY DEF Crash, IInv, TypeOK
  <2>3. /\ worker' \in [Procs -> Threads]
        /\ client' \in [Procs -> [Clients -> Requests]]
    BY DEF Crash, IInv, TypeOK, Threads, Requests, WorkerPcs, ClientPcs, IdleWorker,
           IdleClient, NoJob
  <2> QED BY <2>1, <2>2, <2>3 DEF Crash, IInv, TypeOK
<1>3. DownIsIdle' /\ PidsDiffer'
  BY <1>1 DEF IInv, DownIsIdle, PidsDiffer
<1>4. JobsInHand' /\ SlotHeldByWorker'
  BY <1>1 DEF Crash, IInv, JobsInHand, SlotHeldByWorker, IdleClient, RefreshPcs, HoldingPcs
<1>5. MutationHeld'
  BY <1>1 DEF Crash, IInv, MutationHeld, IdleClient
<1>6. UnissuedHaveNoRecord' /\ AtMostOneActivePerScope'
  BY DEF Crash, IInv, UnissuedHaveNoRecord, AtMostOneActivePerScope
<1>7. \A q \in Procs : Refreshing(q)' =>
         Refreshing(q) /\ worker'[q] = worker[q] /\ pid'[q] = pid[q]
  BY <1>1 DEF Refreshing
<1>8. RefreshIsRecorded'
  BY <1>7 DEF Crash, IInv, RefreshIsRecorded, OwnRecord, OwnedBy
<1>9. MutationSnapshot'
  BY <1>7 DEF Crash, IInv, MutationSnapshot
<1> QED BY <1>2, <1>3, <1>4, <1>5, <1>6, <1>8, <1>9 DEF IInv

LEMMA StartKeeps ==
    ASSUME IInv, NEW p \in Procs, Start(p)
    PROVE  IInv'
<1>1. PICK q \in Pids \ Alive :
        /\ pid' = [pid EXCEPT ![p] = q]
        /\ mutation = Nil
        /\ registry' = Pruned(InterruptDead(registry, Alive \cup {q}))
  BY DEF Start, Edit, Unlocked
<1>2. Settles(registry, registry', Alive \cup {q})
  BY <1>1, EditSettles DEF IInv, TypeOK, Registries
<1>3. /\ pid[p] = NoPid /\ pid'[p] = q /\ q # NoPid
      /\ \A o \in Procs : o # p => pid'[o] = pid[o] /\ pid[o] # q
      /\ pid' \in [Procs -> Pids \cup {NoPid}]
      /\ UNCHANGED <<issued, queue, worker, client, slot, mutation, crashes, faults>>
  BY <1>1, NullsAssumption DEF Start, Alive, IInv, TypeOK
<1>4. \A o \in Procs : Refreshing(o)' =>
         Refreshing(o) /\ o # p /\ pid'[o] = pid[o] /\ pid[o] \in Alive
  <2> SUFFICES ASSUME NEW o \in Procs, Refreshing(o)'
               PROVE  Refreshing(o) /\ o # p /\ pid'[o] = pid[o] /\ pid[o] \in Alive
    OBVIOUS
  <2>1. pid'[o] # NoPid /\ worker[o].pc \in RefreshPcs
    BY <1>3 DEF Refreshing
  <2>2. o # p
    BY <1>3, <2>1 DEF RefreshPcs, IInv, DownIsIdle
  <2>3. pid'[o] = pid[o]
    BY <1>3, <2>2
  <2> QED BY <2>1, <2>2, <2>3 DEF Refreshing, Alive
<1>5. TypeOK' /\ DownIsIdle' /\ PidsDiffer'
  <2>1. TypeOK'
    BY <1>2, <1>3 DEF Settles, Registries, IInv, TypeOK
  <2>2. DownIsIdle'
    BY <1>3 DEF IInv, DownIsIdle
  <2>3. PidsDiffer'
    BY <1>3 DEF IInv, PidsDiffer
  <2> QED BY <2>1, <2>2, <2>3
<1>6. JobsInHand' /\ SlotHeldByWorker' /\ MutationHeld' /\ MutationSnapshot'
  BY <1>1, <1>3 DEF IInv, JobsInHand, SlotHeldByWorker, MutationHeld, MutationSnapshot
<1>7. UnissuedHaveNoRecord' /\ AtMostOneActivePerScope'
  BY <1>2, <1>3 DEF Settles, IInv, UnissuedHaveNoRecord, AtMostOneActivePerScope, Active
<1>8. RefreshIsRecorded'
  <2> SUFFICES ASSUME NEW o \in Procs, Refreshing(o)' PROVE OwnRecord(o, "running")'
    BY DEF RefreshIsRecorded
  <2>1. worker[o].job \in Jobs /\ OwnRecord(o, "running") /\ pid[o] \in Alive
    BY <1>4 DEF IInv, JobsInHand, RefreshIsRecorded, Refreshing
  <2>2. registry'[worker[o].job] = registry[worker[o].job]
    BY <1>2, <2>1 DEF Settles, OwnRecord, OwnedBy, Active, ActiveStatuses
  <2> QED BY <1>3, <1>4, <2>1, <2>2 DEF OwnRecord, OwnedBy
<1> QED BY <1>5, <1>6, <1>7, <1>8 DEF IInv

LEMMA StepKeepsInvariant == IInv /\ [Next]_vars => IInv'
<1> SUFFICES ASSUME IInv, [Next]_vars PROVE IInv'
  OBVIOUS
<1>1. CASE UNCHANGED vars
  BY <1>1 DEF vars, IInv, TypeOK, DownIsIdle, PidsDiffer, UnissuedHaveNoRecord, JobsInHand,
              SlotHeldByWorker, AtMostOneActivePerScope, RefreshIsRecorded, MutationHeld,
              MutationSnapshot, Refreshing, OwnRecord, OwnedBy
<1>2. CASE Next
  BY <1>2, RequestKeeps, RequestStepKeeps, WorkerStepKeeps, FaultKeeps, CrashKeeps,
     StartKeeps DEF Next
<1> QED BY <1>1, <1>2

-----------------------------------------------------------------------------
(* The job ledger                                                          *)

\* What a step may do to the record of a job.
Kept(j) == registry'[j] = registry[j]
Dropped(j) == registry[j] # Nil /\ registry'[j] = Nil
Ended(j) == /\ Active(registry[j])
            /\ registry'[j] = [registry[j] EXCEPT !.status = "interrupted"]
Settled(j) == Kept(j) \/ Dropped(j) \/ Ended(j)
Marked(j) ==
    /\ registry[j] # Nil
    /\ \E status \in {"running", "succeeded", "failed"} :
         /\ registry[j].status = (IF status = "running" THEN "queued" ELSE "running")
         /\ registry'[j] = [registry[j] EXCEPT !.status = status]
Accepted(j) ==
    /\ registry[j] = Nil
    /\ registry'[j] \in Records /\ registry'[j].status = "queued"
    /\ j = issued' /\ issued' = issued + 1

\* A step that does one of these to each record, and settles all but one of
\* them at most, is a step of the ledger.
LEMMA RecordsFollowLedger ==
    ASSUME IInv, IInv',
           \A j \in Jobs : Settled(j) \/ Marked(j) \/ Accepted(j),
           \A j, k \in Jobs : ~ Settled(j) /\ ~ Settled(k) => j = k,
           \/ issued' = issued
           \/ issued' = issued + 1 /\ \E j \in Jobs : Accepted(j)
    PROVE  Ledger!Next
<1>1. \A j \in Jobs : /\ registry[j] \in Records \cup {Nil}
                      /\ registry'[j] \in Records \cup {Nil}
                      /\ j \in Nat /\ issued \in Nat /\ issued' \in Nat
  <2>1. Jobs \subseteq Nat /\ issued \in Nat /\ issued' \in Nat
    BY BoundsAssumption DEF IInv, TypeOK, Jobs
  <2> QED BY <2>1 DEF IInv, TypeOK
<1>2. \A j \in Jobs : registry[j] = Nil /\ registry'[j] = Nil =>
         (j <= issued <=> j <= issued')
  <2>1. CASE issued' = issued
    BY <2>1
  <2>2. CASE issued' = issued + 1 /\ \E j \in Jobs : Accepted(j)
    <3>1. PICK a \in Jobs : Accepted(a)
      BY <2>2
    <3>2. registry'[a] # Nil /\ a = issued + 1 /\ issued' = a
      BY <3>1, NullsAssumption DEF Accepted
    <3>3. \A j \in Jobs : registry'[j] = Nil => j # a
      BY <3>2
    <3>4. \A j \in Jobs : j # a => (j <= issued <=> j <= issued')
      BY <1>1, <3>2
    <3> QED BY <3>3, <3>4
  <2> QED BY <2>1, <2>2
<1>3. \A j \in Jobs :
        /\ Kept(j) => StatusOf(j)' = StatusOf(j) /\ ScopeOf(j)' = ScopeOf(j)
        /\ Dropped(j) => StatusOf(j)' = "forgotten" /\ ScopeOf(j)' = Nil
                         /\ StatusOf(j) \in ActiveStatuses \cup TerminalStatuses
        /\ Ended(j) => StatusOf(j)' = "interrupted" /\ ScopeOf(j)' = ScopeOf(j)
                       /\ StatusOf(j) \in ActiveStatuses
        /\ Marked(j) => /\ <<StatusOf(j), StatusOf(j)'>> \in
                             {<<"queued", "running">>, <<"running", "succeeded">>,
                              <<"running", "failed">>}
                        /\ ScopeOf(j)' = ScopeOf(j)
        /\ Accepted(j) => StatusOf(j) = "absent" /\ StatusOf(j)' = "queued"
                          /\ ScopeOf(j)' \in Scopes
  <2> SUFFICES ASSUME NEW j \in Jobs
               PROVE  /\ Kept(j) => StatusOf(j)' = StatusOf(j) /\ ScopeOf(j)' = ScopeOf(j)
                      /\ Dropped(j) => StatusOf(j)' = "forgotten" /\ ScopeOf(j)' = Nil
                                       /\ StatusOf(j) \in ActiveStatuses \cup TerminalStatuses
                      /\ Ended(j) => StatusOf(j)' = "interrupted" /\ ScopeOf(j)' = ScopeOf(j)
                                     /\ StatusOf(j) \in ActiveStatuses
                      /\ Marked(j) => /\ <<StatusOf(j), StatusOf(j)'>> \in
                                           {<<"queued", "running">>, <<"running", "succeeded">>,
                                            <<"running", "failed">>}
                                      /\ ScopeOf(j)' = ScopeOf(j)
                      /\ Accepted(j) => StatusOf(j) = "absent" /\ StatusOf(j)' = "queued"
                                        /\ ScopeOf(j)' \in Scopes
    OBVIOUS
  <2>1. Kept(j) => StatusOf(j)' = StatusOf(j) /\ ScopeOf(j)' = ScopeOf(j)
    BY <1>2 DEF Kept, StatusOf, ScopeOf
  <2>2. Dropped(j) => StatusOf(j)' = "forgotten" /\ ScopeOf(j)' = Nil
                      /\ StatusOf(j) \in ActiveStatuses \cup TerminalStatuses
    <3>1. registry[j] # Nil => j <= issued
      BY <1>1 DEF IInv, UnissuedHaveNoRecord
    <3>2. issued <= issued'
      BY <1>1
    <3> QED BY <1>1, <3>1, <3>2 DEF Dropped, StatusOf, ScopeOf, Records
  <2>3. Ended(j) => StatusOf(j)' = "interrupted" /\ ScopeOf(j)' = ScopeOf(j)
                    /\ StatusOf(j) \in ActiveStatuses
    <3>1. Ended(j) => /\ registry'[j] \in Records /\ registry'[j].status = "interrupted"
                      /\ registry'[j].scope = registry[j].scope
      BY <1>1 DEF Ended, Active, Records, ActiveStatuses, TerminalStatuses
    <3> QED BY <3>1, NullsAssumption DEF Ended, Active, StatusOf, ScopeOf
  <2>4. Marked(j) => /\ <<StatusOf(j), StatusOf(j)'>> \in
                          {<<"queued", "running">>, <<"running", "succeeded">>,
                           <<"running", "failed">>}
                     /\ ScopeOf(j)' = ScopeOf(j)
    <3> SUFFICES ASSUME registry[j] # Nil, NEW status \in {"running", "succeeded", "failed"},
                        registry[j].status = (IF status = "running" THEN "queued"
                                              ELSE "running"),
                        registry'[j] = [registry[j] EXCEPT !.status = status]
                 PROVE  /\ <<StatusOf(j), StatusOf(j)'>> \in
                             {<<"queued", "running">>, <<"running", "succeeded">>,
                              <<"running", "failed">>}
                        /\ ScopeOf(j)' = ScopeOf(j)
      BY DEF Marked
    <3>1. /\ registry'[j] \in Records /\ registry'[j].status = status
          /\ registry'[j].scope = registry[j].scope
      BY <1>1 DEF Records, ActiveStatuses, TerminalStatuses
    <3> QED BY <3>1, NullsAssumption DEF StatusOf, ScopeOf
  <2>5. Accepted(j) => StatusOf(j) = "absent" /\ StatusOf(j)' = "queued"
                       /\ ScopeOf(j)' \in Scopes
    BY <1>1, NullsAssumption DEF Accepted, StatusOf, ScopeOf, Records
  <2> QED BY <2>1, <2>2, <2>3, <2>4, <2>5
<1>4. \A j \in Jobs : StatusOf(j)' \in {"queued", "running"} /\ StatusOf(j)' # StatusOf(j)
         => ~ Settled(j)
  BY <1>3 DEF Settled
<1>5. \A j \in Jobs : StatusOf(j)' = "queued" /\ StatusOf(j) # "queued" => Accepted(j)
  BY <1>3 DEF Settled, ActiveStatuses, TerminalStatuses
<1>6. \A j, k \in Jobs :
        /\ StatusOf(j)' \in ActiveStatuses /\ StatusOf(k)' \in ActiveStatuses
        /\ ScopeOf(j)' = ScopeOf(k)'
        => j = k
  BY DEF IInv, AtMostOneActivePerScope, StatusOf, ScopeOf, Active, ActiveStatuses
<1>7. \A j \in Jobs : StatusOf(j)' # StatusOf(j) =>
         <<StatusOf(j), StatusOf(j)'>> \in Ledger!Moves
  BY <1>3 DEF Settled, Ledger!Moves, Ledger!Unfinished, Ledger!Finished, ActiveStatuses,
              TerminalStatuses
<1>8. \A j \in Jobs :
        \/ ScopeOf(j)' = ScopeOf(j)
        \/ /\ StatusOf(j)' # StatusOf(j) /\ StatusOf(j)' = "queued" /\ ScopeOf(j)' \in Scopes
        \/ /\ StatusOf(j)' # StatusOf(j) /\ StatusOf(j)' = "forgotten" /\ ScopeOf(j)' = Nil
  BY <1>3 DEF Settled, ActiveStatuses, TerminalStatuses
<1> QED
  BY <1>4, <1>5, <1>6, <1>7, <1>8
     DEF Ledger!Next, Ledger!Moved, Ledger!Becomes, Ledger!Unfinished, ActiveStatuses

\* Edits that only interrupt and prune.
LEMMA SettlingFollowsLedger ==
    ASSUME IInv, IInv', issued' = issued, NEW live,
           registry' \in {registry, Pruned(registry), Pruned(InterruptDead(registry, live))}
    PROVE  Ledger!Next
<1>1. registry \in Registries
  BY DEF IInv, TypeOK, Registries
<1>2. \A j \in Jobs : Settled(j)
  <2>1. CASE registry' = registry
    BY <2>1 DEF Settled, Kept
  <2>2. CASE registry' = Pruned(registry)
    BY <1>1, <2>2, PrunedRecords DEF Settled, Kept, Dropped, Terminal
  <2>3. CASE registry' = Pruned(InterruptDead(registry, live))
    <3> DEFINE mid == InterruptDead(registry, live)
    <3>1. /\ mid \in Registries
          /\ \A j \in Jobs :
               /\ ~ Orphan(registry[j], live) => mid[j] = registry[j]
               /\ Orphan(registry[j], live) =>
                    mid[j] = [registry[j] EXCEPT !.status = "interrupted"]
      BY <1>1, InterruptedRecords
    <3>2. registry' = Pruned(mid)
      BY <2>3
    <3> HIDE DEF mid
    <3>3. \A j \in Jobs : registry'[j] = mid[j] \/ (registry'[j] = Nil /\ Terminal(mid[j]))
      BY <3>1, <3>2, PrunedRecords
    <3> QED BY <3>1, <3>3 DEF Settled, Kept, Dropped, Ended, Orphan, Active, Terminal
  <2> QED BY <2>1, <2>2, <2>3
<1> QED BY <1>2, RecordsFollowLedger

\* A worker that marks its record, or whose write fails.
LEMMA MarkFollowsLedger ==
    ASSUME IInv, IInv', issued' = issued, NEW p \in Procs,
           worker[p].pc \in {"marking"} \cup RefreshPcs,
           NEW status \in {"running", "succeeded", "failed"},
           OwnRecord(p, IF status = "running" THEN "queued" ELSE "running"),
           registry' \in {registry, Pruned(SetStatus(registry, worker[p].job, status))}
    PROVE  Ledger!Next
<1> DEFINE j == worker[p].job
           set == SetStatus(registry, j, status)
<1>1. /\ registry \in Registries /\ j \in Jobs /\ registry[j] # Nil
      /\ registry[j].status = (IF status = "running" THEN "queued" ELSE "running")
  BY DEF IInv, TypeOK, Registries, JobsInHand, OwnRecord, OwnedBy
<1>2. CASE registry' = registry
  BY <1>2, SettlingFollowsLedger
<1>3. CASE registry' = Pruned(set)
  <2>1. set[j] = [registry[j] EXCEPT !.status = status]
    BY <1>1 DEF SetStatus, Registries
  <2>2. /\ set \in Registries
        /\ \A k \in Jobs : k # j => set[k] = registry[k]
    <3>1. status \in ActiveStatuses \cup TerminalStatuses
      BY DEF ActiveStatuses, TerminalStatuses
    <3> HIDE DEF j
    <3> QED BY <1>1, <3>1, SetStatusRecords
  <2> HIDE DEF set
  <2>3. \A k \in Jobs : registry'[k] = set[k] \/ (registry'[k] = Nil /\ Terminal(set[k]))
    BY <1>3, <2>2, PrunedRecords
  <2> HIDE DEF j
  <2>4. \A k \in Jobs : k # j => Settled(k)
    BY <2>2, <2>3 DEF Settled, Kept, Dropped, Terminal
  <2>5. Settled(j) \/ Marked(j)
    <3>1. CASE registry'[j] = set[j]
      BY <1>1, <2>1, <3>1 DEF Marked
    <3>2. CASE registry'[j] = Nil
      BY <1>1, <3>2 DEF Settled, Dropped
    <3> QED BY <1>1, <2>3, <3>1, <3>2
  <2> QED BY <1>1, <2>4, <2>5, RecordsFollowLedger
<1> QED BY <1>2, <1>3

\* A new job.
LEMMA AcceptFollowsLedger ==
    ASSUME IInv, IInv', NEW p \in Procs, NEW c \in Clients, NEW s \in Scopes, Accept(p, c, s)
    PROVE  Ledger!Next
<1> DEFINE reg == InterruptDead(registry, Alive)
           record == [scope |-> s, status |-> "queued", owner |-> pid[p]]
           j == issued + 1
           added == [reg EXCEPT ![j] = record]
<1>1. /\ registry \in Registries /\ j \in Jobs /\ registry[j] = Nil
      /\ record \in Records /\ record # Nil /\ record.status = "queued"
  BY BoundsAssumption, NullsAssumption
     DEF Accept, Ready, IInv, TypeOK, Registries, Jobs, UnissuedHaveNoRecord, Records,
         ActiveStatuses
<1>2. /\ reg \in Registries
      /\ \A k \in Jobs :
           /\ ~ Orphan(registry[k], Alive) => reg[k] = registry[k]
           /\ Orphan(registry[k], Alive) =>
                reg[k] = [registry[k] EXCEPT !.status = "interrupted"]
  BY <1>1, InterruptedRecords
<1>3. registry' = Pruned(added) /\ issued' = j
  BY DEF Accept, Edit
<1> HIDE DEF reg, record
<1>4. /\ added \in Registries /\ added[j] = record
      /\ \A k \in Jobs : k # j => added[k] = reg[k]
  BY <1>1, <1>2 DEF Registries
<1> HIDE DEF added
<1>5. \A k \in Jobs : registry'[k] = added[k] \/ (registry'[k] = Nil /\ Terminal(added[k]))
  BY <1>3, <1>4, PrunedRecords
<1>6. Accepted(j)
  BY <1>1, <1>3, <1>4, <1>5 DEF Accepted, Terminal, TerminalStatuses
<1>7. \A k \in Jobs : k # j => Settled(k)
  BY <1>2, <1>4, <1>5 DEF Settled, Kept, Dropped, Ended, Orphan, Active, Terminal
<1> QED BY <1>1, <1>3, <1>6, <1>7, RecordsFollowLedger

\* Every step that can change the registry is one of these.
LEMMA StepFollowsLedger == IInv /\ IInv' /\ [Next]_vars => [Ledger!Next]_Ledger!vars
<1> SUFFICES ASSUME IInv, IInv', [Next]_vars PROVE [Ledger!Next]_Ledger!vars
  OBVIOUS
<1>1. ASSUME UNCHANGED <<registry, issued>> PROVE Ledger!Next
  BY <1>1, SettlingFollowsLedger
<1>2. ASSUME NEW p \in Procs, NEW c \in Clients, Request(p, c) PROVE Ledger!Next
  <2>1. ASSUME NEW s \in Scopes, Reuse(p, c, s) PROVE Ledger!Next
    BY <2>1, SettlingFollowsLedger DEF Reuse, Edit
  <2>2. ASSUME NEW s \in Scopes, Accept(p, c, s) PROVE Ledger!Next
    BY <2>2, AcceptFollowsLedger
  <2>3. ASSUME NEW s \in Scopes, BeginMutation(p, c, s) PROVE Ledger!Next
    BY <1>1, <2>3 DEF BeginMutation
  <2>4. CASE PollStatus(p, c)
    BY <2>4, SettlingFollowsLedger DEF PollStatus, ReadRecords
  <2> QED BY <1>2, <2>1, <2>2, <2>3, <2>4 DEF Request
<1>3. ASSUME NEW p \in Procs, NEW c \in Clients, RequestStep(p, c) PROVE Ledger!Next
  <2>1. CASE EnsureWorker(p, c) \/ Enqueue(p, c) \/ AbortMutation(p, c)
    BY <1>1, <2>1 DEF EnsureWorker, Enqueue, AbortMutation
  <2>2. CASE Reply(p, c)
    BY <2>2, SettlingFollowsLedger DEF Reply, ReadRecords
  <2>3. CASE EndMutation(p, c)
    BY <2>3, SettlingFollowsLedger DEF EndMutation
  <2> QED BY <1>3, <2>1, <2>2, <2>3 DEF RequestStep
<1>4. ASSUME NEW p \in Procs, WorkerStep(p) PROVE Ledger!Next
  <2>1. CASE TakeJob(p) \/ AcquireSlot(p) \/ RefreshReturns(p) \/ ReleaseSlot(p) \/ ThreadEnds(p)
    BY <1>1, <2>1 DEF TakeJob, AcquireSlot, RefreshReturns, ReleaseSlot, ThreadEnds
  <2>2. CASE MarkRunning(p)
    <3>1. CASE OwnRecord(p, "queued")
      BY <2>2, <3>1, MarkFollowsLedger DEF MarkRunning, WorkerAt, Edit
    <3>2. CASE ~ OwnRecord(p, "queued")
      BY <2>2, <3>2, SettlingFollowsLedger DEF MarkRunning, Edit
    <3> QED BY <3>1, <3>2
  <2>3. CASE MarkFinished(p)
    <3>1. CASE OwnRecord(p, "running")
      BY <2>3, <3>1, MarkFollowsLedger DEF MarkFinished, Edit, RefreshPcs
    <3>2. CASE ~ OwnRecord(p, "running")
      BY <2>3, <3>2, SettlingFollowsLedger DEF MarkFinished, Edit
    <3> QED BY <3>1, <3>2
  <2> QED BY <1>4, <2>1, <2>2, <2>3 DEF WorkerStep
<1>5. ASSUME NEW p \in Procs, Fault(p) PROVE Ledger!Next
  <2>1. ASSUME NEW c \in Clients, RequestFails(p, c) PROVE Ledger!Next
    BY <1>1, <2>1 DEF RequestFails
  <2>2. CASE SlotFails(p)
    BY <1>1, <2>2 DEF SlotFails
  <2>3. CASE MarkRunningFails(p)
    BY <2>3, MarkFollowsLedger DEF MarkRunningFails, WorkerAt, FaultyEdit
  <2>4. CASE MarkFinishedFails(p)
    BY <2>4, MarkFollowsLedger DEF MarkFinishedFails, FaultyEdit, RefreshPcs
  <2> QED BY <1>5, <2>1, <2>2, <2>3, <2>4 DEF Fault
<1>6. ASSUME NEW p \in Procs, Crash(p) PROVE Ledger!Next
  BY <1>1, <1>6 DEF Crash
<1>7. ASSUME NEW p \in Procs, Start(p) PROVE Ledger!Next
  BY <1>7, SettlingFollowsLedger DEF Start, Edit
<1>8. CASE UNCHANGED vars
  BY <1>1, <1>8 DEF vars
<1> QED BY <1>2, <1>3, <1>4, <1>5, <1>6, <1>7, <1>8 DEF Next

-----------------------------------------------------------------------------
(* Retention                                                               *)

LEMMA SmallestExists ==
    ASSUME NEW S \in SUBSET Nat, S # {}
    PROVE  \E x \in S : \A y \in S : x <= y
<1> DEFINE R == OpToRel(<, Nat)
<1>1. IsWellFoundedOn(R, Nat)
  BY NatLessThanWellFounded
<1>2. \A x, y \in Nat : y < x => <<y, x>> \in R
  BY DEF OpToRel
<1> HIDE DEF R
<1>3. PICK x \in S : \A y \in S : ~ (<<y, x>> \in R)
  BY <1>1, WFMin
<1>4. \A y \in S : y \in Nat /\ x \in Nat /\ ~ (y < x)
  BY <1>2, <1>3
<1>5. \A y \in S : x <= y
  BY <1>4
<1> QED BY <1>5

LEMMA LatestExists ==
    ASSUME NEW S \in SUBSET Jobs, S # {}
    PROVE  \E x \in S : \A y \in S : y <= x
<1> DEFINE U == {MaxJobs - x : x \in S}
<1>1. U \in SUBSET Nat
  <2>1. \A x \in S : x \in 1..MaxJobs
    BY DEF Jobs
  <2> QED BY <2>1, BoundsAssumption
<1>2. U # {}
  OBVIOUS
<1>3. PICK u \in U : \A v \in U : u <= v
  <2> HIDE DEF U
  <2> QED BY <1>1, <1>2, SmallestExists
<1>4. PICK x \in S : u = MaxJobs - x
  OBVIOUS
<1>5. \A y \in S : x \in 1..MaxJobs /\ y \in 1..MaxJobs /\ MaxJobs - x <= MaxJobs - y
  BY <1>3, <1>4 DEF Jobs
<1>6. \A y \in S : y <= x
  BY <1>5, BoundsAssumption
<1> QED BY <1>6

\* A record that _pruned drops leaves max_history later ones that are kept: if some
\* later one is dropped as well, all that follow the latest of these are kept, and
\* they are enough.
LEMMA PruningKeepsHistory ==
    ASSUME NEW reg \in Registries, NEW j \in Jobs, Terminal(reg[j]), Pruned(reg)[j] = Nil
    PROVE  Cardinality({k \in Jobs : k > j /\ Terminal(Pruned(reg)[k])}) >= MaxHistory
<1> DEFINE kept == {k \in Jobs : k > j /\ Terminal(Pruned(reg)[k])}
           later(i) == LaterTerminal(reg, i)
           gone == {k \in later(j) : Pruned(reg)[k] = Nil}
<1>1. /\ Cardinality(later(j)) >= MaxHistory
      /\ \A k \in Jobs : Terminal(reg[k]) /\ Pruned(reg)[k] = Nil =>
           Cardinality(later(k)) >= MaxHistory
      /\ \A k \in Jobs : Pruned(reg)[k] = Nil \/ Pruned(reg)[k] = reg[k]
  <2>1. \A k \in Jobs : Terminal(reg[k]) /\ Pruned(reg)[k] = Nil =>
           Cardinality(later(k)) >= MaxHistory
    BY DEF Pruned, Terminal
  <2>2. \A k \in Jobs : Pruned(reg)[k] = Nil \/ Pruned(reg)[k] = reg[k]
    BY DEF Pruned
  <2> QED BY <2>1, <2>2
<1>2. \A i \in Jobs : later(i) \subseteq Jobs /\ \A k \in later(i) : k > i /\ Terminal(reg[k])
  BY DEF LaterTerminal
<1>3. IsFiniteSet(kept) /\ Cardinality(kept) \in Nat
  <2>1. IsFiniteSet(Jobs)
    BY FS_Interval, BoundsAssumption DEF Jobs
  <2>2. kept \in SUBSET Jobs
    OBVIOUS
  <2> HIDE DEF kept
  <2>3. IsFiniteSet(kept)
    BY <2>1, <2>2, FS_Subset
  <2> QED BY <2>3, FS_CardinalityType
<1>4. ASSUME NEW i \in Jobs, later(i) \subseteq kept, Cardinality(later(i)) >= MaxHistory
      PROVE  Cardinality(kept) >= MaxHistory
  <2>1. later(i) \in SUBSET kept
    BY <1>4
  <2> HIDE DEF kept, later
  <2>2. IsFiniteSet(later(i)) /\ Cardinality(later(i)) <= Cardinality(kept)
    BY <1>3, <2>1, FS_Subset
  <2>3. Cardinality(later(i)) \in Nat
    BY <2>2, FS_CardinalityType
  <2> QED BY <1>3, <1>4, <2>2, <2>3, HistoryAssumption
<1>5. CASE gone = {}
  <2>1. later(j) \subseteq kept
    BY <1>1, <1>2, <1>5
  <2> QED BY <1>1, <1>4, <2>1
<1>6. CASE gone # {}
  <2>1. gone \in SUBSET Jobs
    BY <1>2
  <2>2. PICK m \in gone : \A k \in gone : k <= m
    <3> HIDE DEF gone
    <3> QED BY <1>6, <2>1, LatestExists
  <2>3. m \in Jobs /\ Terminal(reg[m]) /\ Pruned(reg)[m] = Nil /\ m > j
    BY <1>2, <2>2
  <2>4. ASSUME NEW k \in later(m) PROVE k \in kept
    <3>1. k \in Jobs /\ Terminal(reg[k]) /\ k > m
      BY <1>2, <2>3
    <3>2. k > j
      BY <2>3, <3>1 DEF Jobs
    <3>3. k \in later(j)
      BY <3>1, <3>2 DEF LaterTerminal
    <3>4. k \notin gone
      BY <2>2, <2>3, <3>1 DEF Jobs
    <3> QED BY <1>1, <3>1, <3>2, <3>3, <3>4
  <2> QED BY <1>1, <1>4, <2>3, <2>4
<1> QED BY <1>5, <1>6

-----------------------------------------------------------------------------
(* Jobs on their way                                                       *)

\* Process p still means to start job j.
Waits(p, c) == client[p][c].pc \in {"accepted", "ensured"}
InHand(p) == worker[p].pc \in {"slot", "marking"}
Waiting(p, j) ==
    \/ \E c \in Clients : Waits(p, c) /\ client[p][c].job = j
    \/ \E i \in 1 .. Len(queue[p]) : queue[p][i] = j
    \/ InHand(p) /\ worker[p].job = j

\* A job on its way is recorded as queued by the running process that carries it.
CarriedRecorded ==
    \A p \in Procs : \A j \in Jobs :
        Waiting(p, j) => pid[p] # NoPid /\ OwnedBy(p, j, "queued")

\* A job is in one place of its process.
InOnePlace(p) ==
    /\ \A c, d \in Clients :
         Waits(p, c) /\ Waits(p, d) /\ client[p][c].job = client[p][d].job => c = d
    /\ \A i, k \in 1 .. Len(queue[p]) : queue[p][i] = queue[p][k] => i = k
    /\ \A c \in Clients : \A i \in 1 .. Len(queue[p]) :
         Waits(p, c) => client[p][c].job # queue[p][i]
    /\ InHand(p) =>
         /\ \A c \in Clients : Waits(p, c) => client[p][c].job # worker[p].job
         /\ \A i \in 1 .. Len(queue[p]) : queue[p][i] # worker[p].job

\* No process starts while a scope mutation is under way.
LiveKnown == mutation # Nil => \A p \in Procs : pid[p] # NoPid => pid[p] \in mutation.live

OnTheWay ==
    /\ CarriedRecorded
    /\ \A p \in Procs : InOnePlace(p)
    /\ LiveKnown

\* An edit that settles the registry for all who run, in a step that puts no job
\* on its way, leaves the carried jobs recorded.
LEMMA CarriedSettles ==
    ASSUME IInv, CarriedRecorded, NEW live, Settles(registry, registry', live),
           \A p \in Procs : pid[p] # NoPid => pid[p] \in live,
           \A p \in Procs : \A j \in Jobs :
               Waiting(p, j)' => Waiting(p, j) /\ pid'[p] = pid[p]
    PROVE  CarriedRecorded'
<1> SUFFICES ASSUME NEW p \in Procs, NEW j \in Jobs, Waiting(p, j)'
             PROVE  pid'[p] # NoPid /\ OwnedBy(p, j, "queued")'
  BY DEF CarriedRecorded
<1>1. pid'[p] = pid[p] /\ pid[p] # NoPid /\ OwnedBy(p, j, "queued") /\ pid[p] \in live
  BY DEF CarriedRecorded
<1>2. registry'[j] = registry[j]
  BY <1>1 DEF Settles, OwnedBy, Active, ActiveStatuses
<1> QED BY <1>1, <1>2 DEF OwnedBy

\* A step that leaves a process's threads and queue alone.
LEMMA PlaceFrame ==
    ASSUME NEW p \in Procs, InOnePlace(p), UNCHANGED <<client[p], queue[p], worker[p]>>
    PROVE  InOnePlace(p)' /\ \A j \in Jobs : Waiting(p, j)' <=> Waiting(p, j)
BY DEF InOnePlace, Waits, InHand, Waiting

\* A step that changes one request thread or the worker of a process, and takes
\* jobs off their way at most.
LEMMA PlaceShrinks ==
    ASSUME NEW p \in Procs, InOnePlace(p), UNCHANGED queue[p],
           \A c \in Clients : Waits(p, c)' => Waits(p, c) /\ client'[p][c].job = client[p][c].job,
           InHand(p)' => InHand(p) /\ worker'[p].job = worker[p].job
    PROVE  InOnePlace(p)' /\ \A j \in Jobs : Waiting(p, j)' => Waiting(p, j)
<1>1. InOnePlace(p)'
  BY DEF InOnePlace
<1>2. \A j \in Jobs : Waiting(p, j)' => Waiting(p, j)
  BY DEF Waiting
<1> QED BY <1>1, <1>2

\* Steps that end or go on with what a process has under way.
Local(p) ==
    \/ \E c \in Clients :
         \/ Enqueue(p, c) \/ EnsureWorker(p, c) \/ RequestFails(p, c)
    \/ TakeJob(p) \/ AcquireSlot(p) \/ RefreshReturns(p) \/ ReleaseSlot(p) \/ ThreadEnds(p)
    \/ SlotFails(p)

LEMMA LocalPlaces ==
    ASSUME IInv, NEW p \in Procs, InOnePlace(p), Local(p)
    PROVE  InOnePlace(p)' /\ \A j \in Jobs : Waiting(p, j)' => Waiting(p, j)
<1> USE DEF Ready, WorkerAt
<1>0. /\ worker \in [Procs -> Threads] /\ client \in [Procs -> [Clients -> Requests]]
      /\ queue \in [Procs -> Seq(Jobs)]
  BY DEF IInv, TypeOK
<1>1. ASSUME NEW c \in Clients, Enqueue(p, c)
      PROVE  InOnePlace(p)' /\ \A j \in Jobs : Waiting(p, j)' => Waiting(p, j)
  <2> DEFINE k == client[p][c].job
             n == Len(queue[p])
  <2>1. k \in Jobs /\ Waits(p, c) /\ queue[p] \in Seq(Jobs) /\ n \in Nat
    BY <1>0, <1>1 DEF Enqueue, IInv, JobsInHand, Waits
  <2>2. queue'[p] = Append(queue[p], k) /\ UNCHANGED worker
    BY <1>0, <1>1 DEF Enqueue
  <2>3. /\ Len(queue'[p]) = n + 1 /\ queue'[p][n + 1] = k
        /\ \A i \in 1 .. n : queue'[p][i] = queue[p][i]
    BY <2>1, <2>2
  <2>4. /\ ~ Waits(p, c)'
        /\ \A d \in Clients : d # c => client'[p][d] = client[p][d]
    BY <1>0, <1>1 DEF Enqueue, ClientGoes, Waits, Requests
  <2> HIDE DEF k, n
  <2>5. \A i \in 1 .. Len(queue'[p]) : i = n + 1 \/ i \in 1 .. n
    BY <2>1, <2>3
  <2>6. \A d \in Clients : Waits(p, d)' => Waits(p, d) /\ d # c /\ client'[p][d] = client[p][d]
    BY <2>4 DEF Waits
  <2>7. InHand(p)' <=> InHand(p)
    BY <2>2 DEF InHand
  <2>8. InOnePlace(p)'
    <3>1. \A d, e \in Clients :
            Waits(p, d)' /\ Waits(p, e)' /\ client'[p][d].job = client'[p][e].job => d = e
      BY <2>6 DEF InOnePlace
    <3>2. \A i \in 1 .. n : queue[p][i] # k
      BY <2>1 DEF InOnePlace, k, n
    <3>3. \A i, l \in 1 .. Len(queue'[p]) : queue'[p][i] = queue'[p][l] => i = l
      BY <2>3, <2>5, <3>2 DEF InOnePlace, n
    <3>4. \A d \in Clients : \A i \in 1 .. Len(queue'[p]) :
            Waits(p, d)' => client'[p][d].job # queue'[p][i]
      <4> SUFFICES ASSUME NEW d \in Clients, NEW i \in 1 .. Len(queue'[p]), Waits(p, d)'
                   PROVE  client'[p][d].job # queue'[p][i]
        OBVIOUS
      <4>1. Waits(p, d) /\ d # c /\ client'[p][d] = client[p][d]
        BY <2>6
      <4>2. client[p][d].job # k
        BY <2>1, <4>1 DEF InOnePlace, k
      <4>3. i \in 1 .. n => queue'[p][i] = queue[p][i] /\ client[p][d].job # queue[p][i]
        BY <2>3, <4>1 DEF InOnePlace, n
      <4> QED BY <2>3, <2>5, <4>1, <4>2, <4>3
    <3>5. InHand(p)' =>
            /\ \A d \in Clients : Waits(p, d)' => client'[p][d].job # worker'[p].job
            /\ \A i \in 1 .. Len(queue'[p]) : queue'[p][i] # worker'[p].job
      BY <2>1, <2>2, <2>3, <2>5, <2>6, <2>7 DEF InOnePlace, k, n
    <3> QED BY <3>1, <3>3, <3>4, <3>5 DEF InOnePlace
  <2>9. ASSUME NEW j \in Jobs, Waiting(p, j)' PROVE Waiting(p, j)
    <3>1. CASE \E d \in Clients : Waits(p, d)' /\ client'[p][d].job = j
      BY <2>6, <3>1 DEF Waiting
    <3>2. CASE \E i \in 1 .. Len(queue'[p]) : queue'[p][i] = j
      BY <2>1, <2>3, <2>5, <3>2 DEF Waiting, k, n
    <3>3. CASE InHand(p)' /\ worker'[p].job = j
      BY <2>2, <2>7, <3>3 DEF Waiting
    <3> QED BY <2>9, <3>1, <3>2, <3>3 DEF Waiting
  <2> QED BY <2>8, <2>9
<1>2. CASE TakeJob(p)
  <2> DEFINE k == Head(queue[p])
             n == Len(queue[p])
  <2>1. /\ queue[p] \in Seq(Jobs) /\ n \in Nat \ {0} /\ k = queue[p][1]
        /\ queue'[p] = Tail(queue[p]) /\ UNCHANGED client /\ ~ InHand(p)
        /\ worker'[p].job = k
    BY <1>0, <1>2 DEF TakeJob, InHand
  <2>2. /\ Len(queue'[p]) = n - 1
        /\ \A i \in 1 .. n - 1 : queue'[p][i] = queue[p][i + 1]
    BY <2>1
  <2> HIDE DEF k, n
  <2>3. \A i \in 1 .. n - 1 : i + 1 \in 1 .. n /\ i + 1 # 1
    BY <2>1
  <2>4. 1 \in 1 .. n
    BY <2>1
  <2>5. InOnePlace(p)'
    <3>1. \A d, e \in Clients :
            Waits(p, d)' /\ Waits(p, e)' /\ client'[p][d].job = client'[p][e].job => d = e
      BY <2>1 DEF InOnePlace, Waits
    <3>2. \A i, l \in 1 .. n - 1 : queue'[p][i] = queue'[p][l] => i = l
      <4> SUFFICES ASSUME NEW i \in 1 .. n - 1, NEW l \in 1 .. n - 1,
                          queue'[p][i] = queue'[p][l]
                   PROVE  i = l
        OBVIOUS
      <4>1. i + 1 = l + 1
        BY <2>2, <2>3 DEF InOnePlace, n
      <4> QED BY <2>1, <4>1
    <3>3. \A d \in Clients : \A i \in 1 .. n - 1 :
            Waits(p, d)' => client'[p][d].job # queue'[p][i]
      BY <2>1, <2>2, <2>3 DEF InOnePlace, Waits, n
    <3>4. \A d \in Clients : Waits(p, d)' => client'[p][d].job # k
      BY <2>1, <2>4 DEF InOnePlace, Waits, n
    <3>5. \A i \in 1 .. n - 1 : queue'[p][i] # k
      BY <2>1, <2>2, <2>3, <2>4 DEF InOnePlace, n
    <3> QED BY <2>1, <2>2, <3>1, <3>2, <3>3, <3>4, <3>5 DEF InOnePlace
  <2>6. ASSUME NEW j \in Jobs, Waiting(p, j)' PROVE Waiting(p, j)
    <3>1. CASE \E d \in Clients : Waits(p, d)' /\ client'[p][d].job = j
      BY <2>1, <3>1 DEF Waiting, Waits
    <3>2. CASE \E i \in 1 .. Len(queue'[p]) : queue'[p][i] = j
      BY <2>2, <2>3, <3>2 DEF Waiting, n
    <3>3. CASE worker'[p].job = j
      BY <2>1, <2>4, <3>3 DEF Waiting, n
    <3> QED BY <2>6, <3>1, <3>2, <3>3 DEF Waiting
  <2> QED BY <2>5, <2>6
<1>3. ASSUME \/ \E c \in Clients : EnsureWorker(p, c) \/ RequestFails(p, c)
             \/ AcquireSlot(p) \/ RefreshReturns(p) \/ ReleaseSlot(p) \/ ThreadEnds(p)
             \/ SlotFails(p)
      PROVE  InOnePlace(p)' /\ \A j \in Jobs : Waiting(p, j)' => Waiting(p, j)
  <2>1. ASSUME NEW c \in Clients, EnsureWorker(p, c)
        PROVE  /\ UNCHANGED queue
               /\ \A d \in Clients : Waits(p, d)' => Waits(p, d) /\ client'[p][d].job = client[p][d].job
               /\ InHand(p)' => InHand(p) /\ worker'[p].job = worker[p].job
    BY <1>0, <2>1 DEF EnsureWorker, ClientGoes, Waits, InHand, IdleWorker, Threads, Requests
  <2>2. ASSUME NEW c \in Clients, RequestFails(p, c)
        PROVE  /\ UNCHANGED queue
               /\ \A d \in Clients : Waits(p, d)' => Waits(p, d) /\ client'[p][d].job = client[p][d].job
               /\ InHand(p)' => InHand(p) /\ worker'[p].job = worker[p].job
    BY <1>0, <2>2 DEF RequestFails, ClientGoes, Waits, InHand, Requests
  <2>3. ASSUME AcquireSlot(p) \/ RefreshReturns(p) \/ SlotFails(p)
        PROVE  /\ UNCHANGED <<queue, client>>
               /\ InHand(p)' => InHand(p) /\ worker'[p].job = worker[p].job
    BY <1>0, <2>3 DEF AcquireSlot, RefreshReturns, SlotFails, WorkerGoes, InHand, Threads
  <2>4. ASSUME ReleaseSlot(p) \/ ThreadEnds(p)
        PROVE  UNCHANGED <<queue, client>> /\ ~ InHand(p)'
    BY <1>0, <2>4 DEF ReleaseSlot, ThreadEnds, IdleWorker, InHand, Threads
  <2> QED BY <1>3, <2>1, <2>2, <2>3, <2>4, PlaceShrinks DEF Waits
<1> QED BY <1>1, <1>2, <1>3 DEF Local

LEMMA InitIsOnTheWay == Init => OnTheWay
BY DEF Init, OnTheWay, CarriedRecorded, Waiting, Waits, InHand, InOnePlace, LiveKnown, IdleClient,
       IdleWorker

\* A step of process p that settles the registry for all who run and puts no job
\* on its way.
LEMMA SettlingKeepsWay ==
    ASSUME IInv, OnTheWay, NEW p \in Procs, NEW live, Settles(registry, registry', live),
           \A q \in Procs : pid[q] # NoPid => pid[q] \in live,
           pid' = pid,
           InOnePlace(p)', \A j \in Jobs : Waiting(p, j)' => Waiting(p, j),
           \A q \in Procs : q # p => UNCHANGED <<client[q], queue[q], worker[q]>>,
           LiveKnown'
    PROVE  OnTheWay'
<1>1. \A q \in Procs : InOnePlace(q)' /\ \A j \in Jobs : Waiting(q, j)' => Waiting(q, j)
  BY PlaceFrame DEF OnTheWay
<1>2. CarriedRecorded'
  BY <1>1, CarriedSettles DEF OnTheWay
<1> QED BY <1>1, <1>2 DEF OnTheWay

LEMMA RunningAreAlive == \A p \in Procs : pid[p] # NoPid => pid[p] \in Alive
BY DEF Alive

LEMMA LocalKeepsWay ==
    ASSUME IInv, OnTheWay, NEW p \in Procs, Local(p)
    PROVE  OnTheWay'
<1>1. InOnePlace(p)' /\ \A j \in Jobs : Waiting(p, j)' => Waiting(p, j)
  BY LocalPlaces DEF OnTheWay
<1>2. UNCHANGED <<registry, pid, mutation>>
  BY DEF Local, Enqueue, EnsureWorker, RequestFails, TakeJob, AcquireSlot,
         RefreshReturns, ReleaseSlot, ThreadEnds, SlotFails
<1>3. \A q \in Procs : q # p => UNCHANGED <<client[q], queue[q], worker[q]>>
  <2>0. worker \in [Procs -> Threads] /\ client \in [Procs -> [Clients -> Requests]]
        /\ queue \in [Procs -> Seq(Jobs)]
    BY DEF IInv, TypeOK
  <2> SUFFICES ASSUME NEW q \in Procs, q # p PROVE UNCHANGED <<client[q], queue[q], worker[q]>>
    OBVIOUS
  <2>1. ASSUME NEW c \in Clients, Enqueue(p, c) \/ EnsureWorker(p, c) \/ RequestFails(p, c)
        PROVE UNCHANGED <<client[q], queue[q], worker[q]>>
    BY <2>0, <2>1 DEF Enqueue, EnsureWorker, RequestFails, ClientGoes
  <2>2. ASSUME TakeJob(p) \/ AcquireSlot(p) \/ RefreshReturns(p) \/ ReleaseSlot(p)
               \/ ThreadEnds(p) \/ SlotFails(p)
        PROVE UNCHANGED <<client[q], queue[q], worker[q]>>
    BY <2>0, <2>2 DEF TakeJob, AcquireSlot, RefreshReturns, ReleaseSlot, ThreadEnds, SlotFails,
                      WorkerGoes
  <2> QED BY <2>1, <2>2 DEF Local
<1>4. Settles(registry, registry', Alive)
  BY <1>2, EditSettles DEF IInv, TypeOK, Registries
<1>5. LiveKnown'
  BY <1>2 DEF OnTheWay, LiveKnown
<1> QED BY <1>1, <1>2, <1>3, <1>4, <1>5, RunningAreAlive, SettlingKeepsWay

\* Requests and their ends that edit the registry or begin or end a mutation.
LEMMA EditKeepsWay ==
    ASSUME IInv, OnTheWay, NEW p \in Procs, NEW c \in Clients,
           \/ \E s \in Scopes : Reuse(p, c, s) \/ BeginMutation(p, c, s)
           \/ PollStatus(p, c) \/ Reply(p, c) \/ EndMutation(p, c) \/ AbortMutation(p, c)
    PROVE  OnTheWay'
<1>0. client \in [Procs -> [Clients -> Requests]] /\ registry \in Registries
  BY DEF IInv, TypeOK, Registries
<1>1. /\ UNCHANGED <<pid, queue, worker>>
      /\ \/ UNCHANGED client
         \/ \E pc \in {"idle", "mutating"} : ClientGoes(p, c, pc, NoJob)
  BY DEF Reuse, BeginMutation, PollStatus, Reply, EndMutation, AbortMutation
<1>2. \A d \in Clients : Waits(p, d)' => Waits(p, d) /\ client'[p][d].job = client[p][d].job
  BY <1>0, <1>1 DEF Waits, ClientGoes, Requests
<1>3. \A q \in Procs : q # p => UNCHANGED <<client[q], queue[q], worker[q]>>
  BY <1>0, <1>1 DEF ClientGoes
<1>4. InOnePlace(p)' /\ \A j \in Jobs : Waiting(p, j)' => Waiting(p, j)
  <2>1. InHand(p)' <=> InHand(p)
    BY <1>1 DEF InHand
  <2> QED BY <1>1, <1>2, <2>1, PlaceShrinks DEF OnTheWay
<1>5. LiveKnown'
  <2>1. ASSUME NEW s \in Scopes, BeginMutation(p, c, s) PROVE LiveKnown'
    BY <1>1, <2>1, RunningAreAlive DEF BeginMutation, LiveKnown
  <2>2. ASSUME UNCHANGED mutation PROVE LiveKnown'
    BY <1>1, <2>2 DEF OnTheWay, LiveKnown
  <2>3. ASSUME mutation' = Nil PROVE LiveKnown'
    BY <2>3 DEF LiveKnown
  <2> QED BY <2>1, <2>2, <2>3 DEF Reuse, PollStatus, Reply, EndMutation, AbortMutation
<1>6. PICK live \in {Alive, mutation.live} :
        /\ Settles(registry, registry', live)
        /\ \A q \in Procs : pid[q] # NoPid => pid[q] \in live
  <2>1. ASSUME registry' \in {registry, Pruned(registry), Pruned(InterruptDead(registry, Alive))}
        PROVE  Settles(registry, registry', Alive)
    BY <1>0, <2>1, EditSettles
  <2>2. CASE EndMutation(p, c)
    <3>1. Settles(registry, registry', mutation.live)
      BY <1>0, <2>2, EditSettles DEF EndMutation
    <3>2. mutation # Nil
      BY <2>2 DEF EndMutation, Ready, IInv, MutationHeld
    <3> QED BY <3>1, <3>2 DEF OnTheWay, LiveKnown
  <2>3. ASSUME NEW s \in Scopes, Reuse(p, c, s) \/ BeginMutation(p, c, s)
        PROVE  Settles(registry, registry', Alive)
    BY <2>1, <2>3 DEF Reuse, BeginMutation, Edit
  <2>4. ASSUME PollStatus(p, c) \/ Reply(p, c) \/ AbortMutation(p, c)
        PROVE  Settles(registry, registry', Alive)
    BY <2>1, <2>4 DEF PollStatus, Reply, AbortMutation, ReadRecords
  <2> QED BY <2>2, <2>3, <2>4, RunningAreAlive
<1> QED BY <1>1, <1>3, <1>4, <1>5, <1>6, SettlingKeepsWay

LEMMA AcceptKeepsWay ==
    ASSUME IInv, OnTheWay, NEW p \in Procs, NEW c \in Clients, NEW s \in Scopes, Accept(p, c, s)
    PROVE  OnTheWay'
<1> DEFINE reg == InterruptDead(registry, Alive)
           record == [scope |-> s, status |-> "queued", owner |-> pid[p]]
           j == issued + 1
           added == [reg EXCEPT ![j] = record]
<1>1. /\ registry \in Registries /\ j \in Jobs /\ registry[j] = Nil /\ pid[p] # NoPid
      /\ record \in Records /\ record # Nil
      /\ client \in [Procs -> [Clients -> Requests]]
  BY BoundsAssumption, NullsAssumption
     DEF Accept, Ready, IInv, TypeOK, Registries, Jobs, UnissuedHaveNoRecord, Records,
         ActiveStatuses
<1>2. /\ reg \in Registries
      /\ \A k \in Jobs : Active(registry[k]) /\ registry[k].owner \in Alive =>
            reg[k] = registry[k]
  BY <1>1, InterruptedRecords, InterruptedActive
<1>3. registry' = Pruned(added) /\ UNCHANGED <<pid, queue, worker, mutation>>
  BY DEF Accept, Edit
<1>4. /\ client'[p][c].pc = "accepted" /\ client'[p][c].job = j
      /\ \A d \in Clients : d # c => client'[p][d] = client[p][d]
      /\ \A q \in Procs : q # p => client'[q] = client[q]
      /\ client[p][c].pc = "idle"
  BY <1>1 DEF Accept, Ready, ClientGoes
<1> HIDE DEF reg
<1>5. /\ added \in Registries /\ added[j] = record
      /\ \A k \in Jobs : k # j => added[k] = reg[k]
  BY <1>1, <1>2 DEF Registries
<1> HIDE DEF added
<1>6. \A k \in Jobs : registry'[k] = added[k] \/ (registry'[k] = Nil /\ Terminal(added[k]))
  BY <1>3, <1>5, PrunedRecords
<1>7. registry'[j] = record
  BY <1>1, <1>5, <1>6 DEF Terminal, TerminalStatuses
<1>8. \A q \in Procs : \A k \in Jobs : Waiting(q, k) => k # j
  BY <1>1 DEF OnTheWay, CarriedRecorded, OwnedBy
<1>9. \A q \in Procs : \A k \in Jobs : Waiting(q, k)' => Waiting(q, k) \/ (q = p /\ k = j)
  BY <1>3, <1>4 DEF Waiting, Waits, InHand
<1>10. CarriedRecorded'
  <2> SUFFICES ASSUME NEW q \in Procs, NEW k \in Jobs, Waiting(q, k)'
               PROVE  pid'[q] # NoPid /\ OwnedBy(q, k, "queued")'
    BY DEF CarriedRecorded
  <2>1. CASE q = p /\ k = j
    BY <1>1, <1>3, <1>7, <2>1 DEF OwnedBy
  <2>2. CASE Waiting(q, k)
    <3>1. k # j /\ pid[q] # NoPid /\ OwnedBy(q, k, "queued")
      BY <1>8, <2>2 DEF OnTheWay, CarriedRecorded
    <3>2. Active(registry[k]) /\ registry[k].owner \in Alive
      BY <3>1 DEF OwnedBy, Active, ActiveStatuses, Alive
    <3>3. registry'[k] = registry[k]
      BY <1>2, <1>5, <1>6, <3>1, <3>2
         DEF Terminal, TerminalStatuses, Active, ActiveStatuses
    <3> QED BY <1>3, <3>1, <3>3 DEF OwnedBy
  <2> QED BY <1>9, <2>1, <2>2
<1>11. InOnePlace(p)'
  <2>1. \A d \in Clients : Waits(p, d)' => d = c \/ (Waits(p, d) /\ client'[p][d] = client[p][d])
    BY <1>4 DEF Waits
  <2>2. \A d \in Clients : Waits(p, d) => client[p][d].job # j
    BY <1>1, <1>8 DEF Waiting
  <2>3. \A i \in 1 .. Len(queue[p]) : queue[p][i] # j
    BY <1>1, <1>8 DEF Waiting
  <2>4. InHand(p) => worker[p].job # j
    BY <1>1, <1>8 DEF Waiting
  <2>5. InOnePlace(p)
    BY DEF OnTheWay
  <2>6. \A d, e \in Clients :
          Waits(p, d)' /\ Waits(p, e)' /\ client'[p][d].job = client'[p][e].job => d = e
    BY <1>4, <2>1, <2>2, <2>5 DEF InOnePlace
  <2>7. \A d \in Clients : \A i \in 1 .. Len(queue[p]) :
          Waits(p, d)' => client'[p][d].job # queue[p][i]
    BY <1>4, <2>1, <2>3, <2>5 DEF InOnePlace
  <2>8. InHand(p) => \A d \in Clients : Waits(p, d)' => client'[p][d].job # worker[p].job
    BY <1>4, <2>1, <2>4, <2>5 DEF InOnePlace
  <2> QED BY <1>3, <2>5, <2>6, <2>7, <2>8 DEF InOnePlace, InHand
<1>12. \A q \in Procs : InOnePlace(q)'
  BY <1>3, <1>4, <1>11, PlaceFrame DEF OnTheWay
<1>13. LiveKnown'
  BY <1>3 DEF OnTheWay, LiveKnown
<1> QED BY <1>10, <1>12, <1>13 DEF OnTheWay

\* A worker that changes the status of its own record has the job in its hand
\* alone, and lets go of it as a job still to be started.
LEMMA MarkKeepsWay ==
    ASSUME IInv, OnTheWay, NEW p \in Procs, NEW from \in {"queued", "running"},
           NEW status \in ActiveStatuses \cup TerminalStatuses,
           NEW pc \in {"refreshing", "releasing", "unwinding"},
           OwnRecord(p, from),
           worker[p].pc = "marking" \/ (worker[p].pc \in RefreshPcs /\ from = "running"),
           registry' \in {registry, Pruned(SetStatus(registry, worker[p].job, status))},
           WorkerGoes(p, pc),
           UNCHANGED <<pid, queue, client, mutation>>
    PROVE  OnTheWay'
<1> DEFINE j == worker[p].job
           set == SetStatus(registry, j, status)
<1>1. /\ registry \in Registries /\ j \in Jobs /\ registry[j] # Nil /\ registry[j].owner = pid[p]
      /\ registry[j].status = from /\ worker \in [Procs -> Threads]
  BY DEF IInv, TypeOK, Registries, JobsInHand, OwnRecord, OwnedBy
<1>2. set \in Registries /\ \A k \in Jobs : k # j => set[k] = registry[k]
  <2> HIDE DEF j
  <2> QED BY <1>1, SetStatusRecords
<1>3. \A k \in Jobs : k # j /\ Active(registry[k]) => registry'[k] = registry[k]
  <2>1. CASE registry' = registry
    BY <2>1
  <2>2. CASE registry' = Pruned(set)
    <3> HIDE DEF set
    <3> QED BY <1>2, <2>2, PrunedRecords
               DEF Active, Terminal, ActiveStatuses, TerminalStatuses
  <2> QED BY <2>1, <2>2
<1>4. /\ worker'[p].pc = pc /\ ~ InHand(p)'
      /\ \A q \in Procs : q # p => worker'[q] = worker[q]
  BY <1>1 DEF WorkerGoes, Threads, InHand
<1>5. \A q \in Procs : InOnePlace(q)' /\ \A k \in Jobs : Waiting(q, k)' => Waiting(q, k)
  <2>1. \A c \in Clients : Waits(p, c)' <=> Waits(p, c)
    BY DEF Waits
  <2>2. InOnePlace(p)' /\ \A k \in Jobs : Waiting(p, k)' => Waiting(p, k)
    BY <1>4, <2>1, PlaceShrinks DEF OnTheWay
  <2> QED BY <1>4, <2>2, PlaceFrame DEF OnTheWay
<1>6. ASSUME NEW q \in Procs, NEW k \in Jobs, Waiting(q, k)' PROVE k # j
  <2>1. Waiting(q, k) /\ pid[q] # NoPid /\ OwnedBy(q, k, "queued")
    BY <1>5, <1>6 DEF OnTheWay, CarriedRecorded
  <2> SUFFICES ASSUME k = j PROVE FALSE
    OBVIOUS
  <2>2. q = p /\ from = "queued"
    BY <1>1, <2>1 DEF OwnedBy, IInv, PidsDiffer
  <2>3. InHand(p)
    BY <2>2 DEF InHand
  <2>4. /\ \A c \in Clients : Waits(p, c) => client[p][c].job # j
        /\ \A i \in 1 .. Len(queue[p]) : queue[p][i] # j
    BY <2>3 DEF OnTheWay, InOnePlace
  <2> QED BY <1>4, <1>6, <2>2, <2>4 DEF Waiting, Waits
<1>7. CarriedRecorded'
  <2> SUFFICES ASSUME NEW q \in Procs, NEW k \in Jobs, Waiting(q, k)'
               PROVE  pid'[q] # NoPid /\ OwnedBy(q, k, "queued")'
    BY DEF CarriedRecorded
  <2>1. k # j /\ pid[q] # NoPid /\ OwnedBy(q, k, "queued")
    BY <1>5, <1>6 DEF OnTheWay, CarriedRecorded
  <2>2. registry'[k] = registry[k]
    BY <1>3, <2>1 DEF OwnedBy, Active, ActiveStatuses
  <2> QED BY <2>1, <2>2 DEF OwnedBy
<1>8. LiveKnown'
  BY DEF OnTheWay, LiveKnown
<1> QED BY <1>5, <1>7, <1>8 DEF OnTheWay

\* The record a worker is about to mark, or to finish, is its own.
LEMMA MarksItsOwn ==
    ASSUME IInv, OnTheWay, NEW p \in Procs
    PROVE  /\ WorkerAt(p, "marking") => OwnRecord(p, "queued")
           /\ pid[p] # NoPid /\ worker[p].pc \in {"succeeded", "failed"} => OwnRecord(p, "running")
<1>1. WorkerAt(p, "marking") => OwnRecord(p, "queued")
  BY DEF WorkerAt, IInv, JobsInHand, OnTheWay, CarriedRecorded, Waiting, InHand, OwnRecord
<1>2. pid[p] # NoPid /\ worker[p].pc \in {"succeeded", "failed"} => OwnRecord(p, "running")
  BY DEF IInv, RefreshIsRecorded, Refreshing, RefreshPcs
<1> QED BY <1>1, <1>2

LEMMA WorkerMarksKeepWay ==
    ASSUME IInv, OnTheWay, NEW p \in Procs,
           MarkRunning(p) \/ MarkRunningFails(p) \/ MarkFinished(p) \/ MarkFinishedFails(p)
    PROVE  OnTheWay'
<1> USE DEF Edit, FaultyEdit
<1>1. CASE MarkRunning(p)
  <2>1. OwnRecord(p, "queued")
    BY <1>1, MarksItsOwn DEF MarkRunning
  <2>2. /\ registry' = Pruned(SetStatus(registry, worker[p].job, "running"))
        /\ WorkerGoes(p, "refreshing") /\ worker[p].pc = "marking"
        /\ UNCHANGED <<pid, queue, client, mutation>>
    BY <1>1, <2>1 DEF MarkRunning, WorkerAt
  <2> QED BY <2>1, <2>2, MarkKeepsWay DEF ActiveStatuses
<1>2. CASE MarkRunningFails(p)
  BY <1>2, MarkKeepsWay DEF MarkRunningFails, WorkerAt, ActiveStatuses
<1>3. CASE MarkFinished(p)
  <2>1. OwnRecord(p, "running")
    BY <1>3, MarksItsOwn DEF MarkFinished
  <2>2. PICK pc \in {"releasing", "unwinding"} : WorkerGoes(p, pc)
    BY <1>3 DEF MarkFinished
  <2>3. /\ registry' = Pruned(SetStatus(registry, worker[p].job, worker[p].pc))
        /\ worker[p].pc \in {"succeeded", "failed"}
        /\ UNCHANGED <<pid, queue, client, mutation>>
    BY <1>3, <2>1 DEF MarkFinished
  <2> QED BY <2>1, <2>2, <2>3, MarkKeepsWay DEF RefreshPcs, TerminalStatuses
<1>4. CASE MarkFinishedFails(p)
  BY <1>4, MarkKeepsWay DEF MarkFinishedFails, RefreshPcs, TerminalStatuses
<1> QED BY <1>1, <1>2, <1>3, <1>4

LEMMA CrashKeepsWay ==
    ASSUME IInv, OnTheWay, NEW p \in Procs, Crash(p)
    PROVE  OnTheWay'
<1>1. /\ worker'[p].pc = "none" /\ queue'[p] = <<>>
      /\ \A c \in Clients : client'[p][c].pc = "idle"
      /\ \A q \in Procs : q # p =>
           UNCHANGED <<client[q], queue[q], worker[q]>> /\ pid'[q] = pid[q]
      /\ \A q \in Procs : pid'[q] # NoPid => pid'[q] = pid[q]
      /\ registry' = registry
  BY DEF Crash, IInv, TypeOK, IdleWorker, IdleClient
<1>2. /\ \A c \in Clients : ~ Waits(p, c)'
      /\ ~ InHand(p)'
  BY <1>1 DEF Waits, InHand
<1>3. InOnePlace(p)' /\ \A j \in Jobs : ~ Waiting(p, j)'
  BY <1>1, <1>2 DEF InOnePlace, Waiting
<1>4. \A q \in Procs : InOnePlace(q)' /\ \A j \in Jobs :
         Waiting(q, j)' => Waiting(q, j) /\ pid'[q] = pid[q]
  BY <1>1, <1>3, PlaceFrame DEF OnTheWay
<1>5. Settles(registry, registry', Alive)
  BY <1>1, EditSettles DEF IInv, TypeOK, Registries
<1>6. CarriedRecorded'
  BY <1>4, <1>5, RunningAreAlive, CarriedSettles DEF OnTheWay
<1>7. LiveKnown'
  BY <1>1 DEF Crash, OnTheWay, LiveKnown
<1> QED BY <1>4, <1>6, <1>7 DEF OnTheWay

LEMMA StartKeepsWay ==
    ASSUME IInv, OnTheWay, NEW p \in Procs, Start(p)
    PROVE  OnTheWay'
<1>1. PICK q \in Pids \ Alive :
        /\ pid[p] = NoPid /\ pid' = [pid EXCEPT ![p] = q]
        /\ registry' = Pruned(InterruptDead(registry, Alive \cup {q}))
        /\ mutation = Nil
        /\ UNCHANGED <<queue, worker, client, mutation>>
  BY DEF Start, Edit, Unlocked
<1>2. \A o \in Procs : o # p => pid'[o] = pid[o]
  BY <1>1 DEF IInv, TypeOK
<1>3. \A o \in Procs : InOnePlace(o)' /\ \A j \in Jobs : Waiting(o, j)' <=> Waiting(o, j)
  BY <1>1, PlaceFrame DEF OnTheWay
<1>4. \A j \in Jobs : ~ Waiting(p, j)
  BY <1>1 DEF OnTheWay, CarriedRecorded
<1>5. \A o \in Procs : \A j \in Jobs : Waiting(o, j)' => Waiting(o, j) /\ pid'[o] = pid[o]
  BY <1>2, <1>3, <1>4
<1>6. Settles(registry, registry', Alive \cup {q})
  BY <1>1, EditSettles DEF IInv, TypeOK, Registries
<1>7. CarriedRecorded'
  <2>1. \A o \in Procs : pid[o] # NoPid => pid[o] \in Alive \cup {q}
    BY RunningAreAlive
  <2> QED BY <1>5, <1>6, <2>1, CarriedSettles DEF OnTheWay
<1>8. LiveKnown'
  BY <1>1 DEF LiveKnown
<1> QED BY <1>3, <1>7, <1>8 DEF OnTheWay

LEMMA StepKeepsWay == IInv /\ OnTheWay /\ [Next]_vars => OnTheWay'
<1> SUFFICES ASSUME IInv, OnTheWay, [Next]_vars PROVE OnTheWay'
  OBVIOUS
<1>1. ASSUME NEW p \in Procs, NEW c \in Clients, Request(p, c) PROVE OnTheWay'
  BY <1>1, EditKeepsWay, AcceptKeepsWay DEF Request
<1>2. ASSUME NEW p \in Procs, NEW c \in Clients, RequestStep(p, c) PROVE OnTheWay'
  <2>1. CASE EnsureWorker(p, c) \/ Enqueue(p, c)
    BY <2>1, LocalKeepsWay DEF Local
  <2>2. CASE Reply(p, c) \/ EndMutation(p, c) \/ AbortMutation(p, c)
    BY <2>2, EditKeepsWay
  <2> QED BY <1>2, <2>1, <2>2 DEF RequestStep
<1>3. ASSUME NEW p \in Procs, WorkerStep(p) PROVE OnTheWay'
  BY <1>3, LocalKeepsWay, WorkerMarksKeepWay DEF WorkerStep, Local
<1>4. ASSUME NEW p \in Procs, Fault(p) PROVE OnTheWay'
  BY <1>4, LocalKeepsWay, WorkerMarksKeepWay DEF Fault, Local
<1>5. ASSUME NEW p \in Procs, Crash(p) \/ Start(p) PROVE OnTheWay'
  BY <1>5, CrashKeepsWay, StartKeepsWay
<1>6. CASE UNCHANGED vars
  <2>1. UNCHANGED <<registry, pid, mutation, client, queue, worker>>
    BY <1>6 DEF vars
  <2>2. \A p \in Procs : InOnePlace(p)' /\ \A j \in Jobs : Waiting(p, j)' <=> Waiting(p, j)
    BY <2>1, PlaceFrame DEF OnTheWay
  <2> QED BY <2>1, <2>2 DEF OnTheWay, CarriedRecorded, LiveKnown, OwnedBy
<1> QED BY <1>1, <1>2, <1>3, <1>4, <1>5, <1>6 DEF Next

\* Process p still has job j to start or is refreshing for it.
Carries(p, j) == Waiting(p, j) \/ (worker[p].pc \in RefreshPcs /\ worker[p].job = j)

LEMMA CarriesIsCarried == \A p \in Procs : \A j \in Jobs : Carries(p, j) <=> j \in Carried(p)
BY DEF Carries, Carried, Waiting, Waits, InHand

\* No thread of a running process has let go of an unfinished job, and a worker is
\* there whenever a job is about to be queued or is queued.
NothingLost ==
    faults = 0 /\ ~ AllowPidReuse =>
        \A p \in Procs :
            /\ worker[p].pc \notin {"unwinding", "dying"}
            /\ queue[p] # <<>> \/ (\E c \in Clients : client[p][c].pc = "ensured") =>
                 worker[p].pc # "none"
            /\ \A j \in Jobs :
                 Active(registry[j]) /\ registry[j].owner = pid[p] => Carries(p, j)

\* What a step of process p must show.
LEMMA LossFrame ==
    ASSUME NothingLost, NEW p \in Procs, faults' = faults,
           \A q \in Procs : q # p => UNCHANGED <<client[q], queue[q], worker[q]>>,
           faults = 0 /\ ~ AllowPidReuse =>
             /\ worker'[p].pc \notin {"unwinding", "dying"}
             /\ queue'[p] # <<>> \/ (\E c \in Clients : client'[p][c].pc = "ensured") =>
                  worker'[p].pc # "none"
             /\ \A q \in Procs : \A j \in Jobs :
                  Active(registry'[j]) /\ registry'[j].owner = pid'[q] =>
                    \/ q = p /\ Carries(p, j)'
                    \/ /\ Active(registry[j]) /\ registry[j].owner = pid[q]
                       /\ q = p /\ Carries(p, j) => Carries(p, j)'
    PROVE  NothingLost'
<1> SUFFICES ASSUME faults = 0, ~ AllowPidReuse, NEW q \in Procs
             PROVE  /\ worker'[q].pc \notin {"unwinding", "dying"}
                    /\ queue'[q] # <<>> \/ (\E c \in Clients : client'[q][c].pc = "ensured") =>
                         worker'[q].pc # "none"
                    /\ \A j \in Jobs :
                         Active(registry'[j]) /\ registry'[j].owner = pid'[q] => Carries(q, j)'
  BY DEF NothingLost
<1>1. q # p => \A j \in Jobs : Carries(q, j)' <=> Carries(q, j)
  BY DEF Carries, Waiting, Waits, InHand
<1>2. CASE q = p
  BY <1>2 DEF NothingLost
<1>3. CASE q # p
  BY <1>1, <1>3 DEF NothingLost
<1> QED BY <1>2, <1>3

LEMMA InitLosesNothing == Init => NothingLost
BY DEF Init, NothingLost, IdleWorker, IdleClient, Active

\* A failing step: there is nothing to show any more.
LEMMA FaultsEndIt == ASSUME IInv, faults' = faults + 1 PROVE NothingLost'
BY BoundsAssumption DEF NothingLost, IInv, TypeOK

LEMMA RequestLosesNothing ==
    ASSUME IInv, OnTheWay, NothingLost, NEW p \in Procs, NEW c \in Clients,
           Request(p, c) \/ RequestStep(p, c)
    PROVE  NothingLost'
<1> USE DEF Ready, ClientGoes
<1>0. /\ client \in [Procs -> [Clients -> Requests]] /\ registry \in Registries
      /\ queue \in [Procs -> Seq(Jobs)] /\ worker \in [Procs -> Threads]
  BY DEF IInv, TypeOK, Registries
<1>1. ASSUME NEW live, Settles(registry, registry', live),
             UNCHANGED <<pid, queue, worker, faults>>,
             \A q \in Procs : q # p => client'[q] = client[q],
             \A d \in Clients :
               \/ client'[p][d] = client[p][d]
               \/ client'[p][d].pc # "ensured" /\ ~ Waits(p, d)
      PROVE  NothingLost'
  <2>1. \A j \in Jobs : Active(registry'[j]) => registry'[j] = registry[j]
    BY <1>1 DEF Settles
  <2>2. \A d \in Clients : Waits(p, d) => client'[p][d] = client[p][d]
    BY <1>1
  <2>3. \A j \in Jobs : Carries(p, j) => Carries(p, j)'
    BY <1>1, <2>2 DEF Carries, Waiting, Waits, InHand
  <2>4. (\E d \in Clients : client'[p][d].pc = "ensured") =>
           \E d \in Clients : client[p][d].pc = "ensured"
    BY <1>1
  <2> QED BY <1>1, <2>1, <2>3, <2>4, LossFrame DEF NothingLost
<1>2. ASSUME registry' \in {registry, Pruned(registry), Pruned(InterruptDead(registry, Alive))}
      PROVE  Settles(registry, registry', Alive)
  BY <1>0, <1>2, EditSettles
<1>3. ASSUME NEW s \in Scopes, Reuse(p, c, s) PROVE NothingLost'
  BY <1>1, <1>2, <1>3 DEF Reuse, Edit
<1>4. ASSUME NEW s \in Scopes, BeginMutation(p, c, s) PROVE NothingLost'
  <2>1. \A d \in Clients : \/ client'[p][d] = client[p][d]
                           \/ client'[p][d].pc # "ensured" /\ ~ Waits(p, d)
    BY <1>0, <1>4 DEF BeginMutation, Waits
  <2>2. \A q \in Procs : q # p => client'[q] = client[q]
    BY <1>0, <1>4 DEF BeginMutation
  <2> QED BY <1>1, <1>2, <1>4, <2>1, <2>2 DEF BeginMutation
<1>5. CASE PollStatus(p, c)
  BY <1>1, <1>2, <1>5 DEF PollStatus, ReadRecords
<1>6. CASE Reply(p, c) \/ EndMutation(p, c) \/ AbortMutation(p, c)
  <2>1. \A d \in Clients : \/ client'[p][d] = client[p][d]
                           \/ client'[p][d].pc # "ensured" /\ ~ Waits(p, d)
    BY <1>0, <1>6 DEF Reply, EndMutation, AbortMutation, Waits
  <2>2. \A q \in Procs : q # p => client'[q] = client[q]
    BY <1>0, <1>6 DEF Reply, EndMutation, AbortMutation
  <2>3. PICK live \in {Alive, mutation.live} : Settles(registry, registry', live)
    BY <1>0, <1>2, <1>6, EditSettles DEF Reply, EndMutation, AbortMutation, ReadRecords
  <2>4. UNCHANGED <<pid, queue, worker, faults>>
    BY <1>6 DEF Reply, EndMutation, AbortMutation
  <2> QED BY <1>1, <2>1, <2>2, <2>3, <2>4
<1>7. ASSUME NEW s \in Scopes, Accept(p, c, s) PROVE NothingLost'
  <2> DEFINE reg == InterruptDead(registry, Alive)
             record == [scope |-> s, status |-> "queued", owner |-> pid[p]]
             j == issued + 1
             added == [reg EXCEPT ![j] = record]
  <2>1. j \in Jobs /\ record \in Records
    BY <1>0, <1>7, BoundsAssumption
       DEF Accept, IInv, TypeOK, Jobs, Records, ActiveStatuses
  <2>2. reg \in Registries /\ \A k \in Jobs : Active(reg[k]) => reg[k] = registry[k]
    BY <1>0, InterruptedRecords, InterruptedActive
  <2>3. registry' = Pruned(added)
    BY <1>7 DEF Accept, Edit
  <2> HIDE DEF reg
  <2>4. added \in Registries /\ added[j] = record /\ \A k \in Jobs : k # j => added[k] = reg[k]
    BY <2>1, <2>2 DEF Registries
  <2> HIDE DEF added
  <2>5. Settles(added, registry', Alive)
    BY <2>3, <2>4, EditSettles
  <2>6. \A k \in Jobs : Active(registry'[k]) =>
           \/ k = j /\ registry'[k].owner = pid[p]
           \/ registry'[k] = registry[k]
    <3>1. \A k \in Jobs : Active(registry'[k]) => registry'[k] = added[k]
      BY <2>5 DEF Settles
    <3>2. \A k \in Jobs : Active(registry'[k]) /\ k # j => registry'[k] = registry[k]
      BY <3>1, <2>2, <2>4
    <3> QED BY <2>4, <3>1, <3>2
  <2>7. /\ client'[p][c].pc = "accepted" /\ client'[p][c].job = j /\ client[p][c].pc = "idle"
        /\ \A d \in Clients : d # c => client'[p][d] = client[p][d]
        /\ \A q \in Procs : q # p => client'[q] = client[q]
        /\ UNCHANGED <<pid, queue, worker, faults>>
    BY <1>0, <1>7 DEF Accept
  <2> HIDE DEF j
  <2>8. \A k \in Jobs : Carries(p, k) => Carries(p, k)'
    BY <2>7 DEF Carries, Waiting, Waits, InHand
  <2>9. \A k \in Jobs : k = j => Carries(p, k)'
    BY <2>7 DEF Carries, Waiting, Waits
  <2>10. \A q \in Procs : \A k \in Jobs :
           Active(registry'[k]) /\ registry'[k].owner = pid'[q] =>
             \/ q = p /\ Carries(p, k)'
             \/ /\ Active(registry[k]) /\ registry[k].owner = pid[q]
                /\ q = p /\ Carries(p, k) => Carries(p, k)'
    <3> SUFFICES ASSUME NEW q \in Procs, NEW k \in Jobs, Active(registry'[k]),
                        registry'[k].owner = pid'[q]
                 PROVE  \/ q = p /\ Carries(p, k)'
                        \/ /\ Active(registry[k]) /\ registry[k].owner = pid[q]
                           /\ q = p /\ Carries(p, k) => Carries(p, k)'
      OBVIOUS
    <3>1. CASE registry'[k] = registry[k]
      BY <2>7, <2>8, <3>1
    <3>2. CASE k = j /\ registry'[k].owner = pid[p]
      <4>1. pid[q] = pid[p] /\ pid[p] # NoPid
        BY <1>7, <2>7, <3>2 DEF Accept
      <4>2. q = p
        BY <4>1 DEF IInv, PidsDiffer
      <4> QED BY <2>9, <3>2, <4>2
    <3> QED BY <2>6, <3>1, <3>2
  <2>11. faults = 0 /\ ~ AllowPidReuse =>
           /\ worker'[p].pc \notin {"unwinding", "dying"}
           /\ queue'[p] # <<>> \/ (\E d \in Clients : client'[p][d].pc = "ensured") =>
                worker'[p].pc # "none"
    BY <2>7 DEF NothingLost
  <2> QED BY <2>7, <2>10, <2>11, LossFrame
<1>8. CASE EnsureWorker(p, c)
  <2>1. /\ \A q \in Procs : q # p => UNCHANGED <<client[q], queue[q], worker[q]>>
        /\ client'[p][c].pc = "ensured" /\ client'[p][c].job = client[p][c].job
        /\ \A d \in Clients : d # c => client'[p][d] = client[p][d]
        /\ UNCHANGED <<registry, pid, faults, queue>>
        /\ client[p][c].pc = "accepted"
    BY <1>0, <1>8 DEF EnsureWorker
  <2>2. /\ worker'[p].pc # "none"
        /\ worker'[p] = worker[p] \/ (worker'[p].pc = "idle" /\ worker[p].pc = "none")
    BY <1>0, <1>8 DEF EnsureWorker, IdleWorker
  <2>3. \A k \in Jobs : Carries(p, k) => Carries(p, k)'
    BY <2>1, <2>2 DEF Carries, Waiting, Waits, InHand, RefreshPcs
  <2> QED BY <2>1, <2>2, <2>3, LossFrame DEF NothingLost
<1>9. CASE Enqueue(p, c)
  <2> DEFINE k == client[p][c].job
             n == Len(queue[p])
  <2>1. /\ \A q \in Procs : q # p => UNCHANGED <<client[q], queue[q], worker[q]>>
        /\ client'[p][c].pc = "enqueued" /\ client[p][c].pc = "ensured"
        /\ \A d \in Clients : d # c => client'[p][d] = client[p][d]
        /\ UNCHANGED <<registry, pid, faults, worker>>
        /\ queue'[p] = Append(queue[p], k)
    BY <1>0, <1>9 DEF Enqueue
  <2>2. k \in Jobs /\ queue[p] \in Seq(Jobs)
    BY <1>0, <2>1 DEF IInv, JobsInHand
  <2>3. /\ Len(queue'[p]) = n + 1 /\ queue'[p][n + 1] = k /\ n \in Nat
        /\ \A i \in 1 .. n : queue'[p][i] = queue[p][i]
    BY <2>1, <2>2
  <2> HIDE DEF k, n
  <2>4. \A i \in 1 .. n : i \in 1 .. Len(queue'[p])
    BY <2>3
  <2>5. n + 1 \in 1 .. Len(queue'[p])
    BY <2>3
  <2>6. \A j \in Jobs : Carries(p, j) => Carries(p, j)'
    <3> SUFFICES ASSUME NEW j \in Jobs, Carries(p, j) PROVE Carries(p, j)'
      OBVIOUS
    <3>1. CASE j = k
      BY <2>3, <2>5, <3>1 DEF Carries, Waiting
    <3>2. ASSUME NEW d \in Clients, Waits(p, d), client[p][d].job = j, j # k
          PROVE Carries(p, j)'
      BY <2>1, <3>2 DEF Carries, Waiting, Waits, k
    <3>3. ASSUME NEW i \in 1 .. n, queue[p][i] = j PROVE Carries(p, j)'
      BY <2>3, <2>4, <3>3 DEF Carries, Waiting
    <3>4. ASSUME InHand(p) \/ worker[p].pc \in RefreshPcs, worker[p].job = j
          PROVE Carries(p, j)'
      BY <2>1, <3>4 DEF Carries, Waiting, InHand
    <3> QED BY <3>1, <3>2, <3>3, <3>4 DEF Carries, Waiting, n
  <2> QED BY <2>1, <2>6, LossFrame DEF NothingLost
<1> QED BY <1>3, <1>4, <1>5, <1>6, <1>7, <1>8, <1>9 DEF Request, RequestStep

LEMMA WorkerLosesNothing ==
    ASSUME IInv, OnTheWay, NothingLost, NEW p \in Procs, WorkerStep(p)
    PROVE  NothingLost'
<1> USE DEF WorkerAt
<1>0. /\ registry \in Registries /\ queue \in [Procs -> Seq(Jobs)]
      /\ worker \in [Procs -> Threads]
  BY DEF IInv, TypeOK, Registries
<1>1. ASSUME UNCHANGED <<registry, pid, faults, client, queue>>,
             NEW r \in Threads, worker' = [worker EXCEPT ![p] = r],
             r.pc \notin {"unwinding", "dying"},
             worker[p].pc # "none" /\ r.pc # "none",
             \/ ~ InHand(p) /\ worker[p].pc \notin RefreshPcs
             \/ r.job = worker[p].job /\ r.pc \in {"slot", "marking"} \cup RefreshPcs
      PROVE  NothingLost'
  <2>1. worker'[p] = r /\ \A q \in Procs : q # p => worker'[q] = worker[q]
    BY <1>0, <1>1
  <2>2. \A j \in Jobs : Carries(p, j) => Carries(p, j)'
    BY <1>1, <2>1 DEF Carries, Waiting, Waits, InHand
  <2> QED BY <1>1, <2>1, <2>2, LossFrame DEF NothingLost
<1>2. CASE TakeJob(p)
  <2> DEFINE k == Head(queue[p])
             n == Len(queue[p])
  <2>1. /\ queue[p] \in Seq(Jobs) /\ n \in Nat \ {0} /\ k = queue[p][1] /\ k \in Jobs
        /\ queue'[p] = Tail(queue[p])
        /\ worker'[p] = [pc |-> "slot", job |-> k]
        /\ \A q \in Procs : q # p => UNCHANGED <<client[q], queue[q], worker[q]>>
        /\ UNCHANGED <<registry, pid, faults, client>>
        /\ worker[p].pc = "idle"
    BY <1>0, <1>2 DEF TakeJob
  <2>2. /\ Len(queue'[p]) = n - 1
        /\ \A i \in 1 .. n - 1 : queue'[p][i] = queue[p][i + 1]
    BY <2>1
  <2> HIDE DEF k, n
  <2>3. \A i \in 1 .. n : i = 1 \/ (i - 1 \in 1 .. n - 1 /\ i = (i - 1) + 1)
    BY <2>1
  <2>4. \A j \in Jobs : Carries(p, j) => Carries(p, j)'
    <3> SUFFICES ASSUME NEW j \in Jobs, Carries(p, j) PROVE Carries(p, j)'
      OBVIOUS
    <3>1. CASE j = k
      BY <2>1, <3>1 DEF Carries, Waiting, InHand
    <3>2. ASSUME NEW d \in Clients, Waits(p, d), client[p][d].job = j PROVE Carries(p, j)'
      BY <2>1, <3>2 DEF Carries, Waiting, Waits
    <3>3. ASSUME NEW i \in 1 .. n, queue[p][i] = j, j # k PROVE Carries(p, j)'
      <4>1. i - 1 \in 1 .. n - 1 /\ queue'[p][i - 1] = j
        BY <2>1, <2>2, <2>3, <3>3
      <4> QED BY <2>2, <4>1 DEF Carries, Waiting
    <3>4. ~ InHand(p) /\ worker[p].pc \notin RefreshPcs
      BY <2>1 DEF InHand, RefreshPcs
    <3> QED BY <3>1, <3>2, <3>3, <3>4 DEF Carries, Waiting, n
  <2> QED BY <2>1, <2>4, LossFrame DEF NothingLost
<1>3. CASE AcquireSlot(p)
  <2> DEFINE r == [worker[p] EXCEPT !.pc = "marking"]
  <2>1. /\ r \in Threads /\ r.pc = "marking" /\ r.job = worker[p].job
        /\ worker' = [worker EXCEPT ![p] = r] /\ worker[p].pc = "slot"
        /\ UNCHANGED <<registry, pid, faults, client, queue>>
    BY <1>0, <1>3 DEF AcquireSlot, WorkerGoes, Threads, WorkerPcs
  <2> HIDE DEF r
  <2> QED BY <1>1, <2>1
<1>4. CASE RefreshReturns(p)
  <2>0. PICK outcome \in {"succeeded", "failed"} : WorkerGoes(p, outcome)
    BY <1>4 DEF RefreshReturns
  <2> DEFINE r == [worker[p] EXCEPT !.pc = outcome]
  <2>1. /\ r \in Threads /\ r.pc = outcome /\ r.job = worker[p].job
        /\ worker' = [worker EXCEPT ![p] = r] /\ worker[p].pc = "refreshing"
        /\ UNCHANGED <<registry, pid, faults, client, queue>>
    BY <1>0, <1>4, <2>0 DEF RefreshReturns, WorkerGoes, Threads, WorkerPcs
  <2> HIDE DEF r
  <2> QED BY <1>1, <2>1 DEF RefreshPcs
<1>5. CASE MarkRunning(p) \/ MarkFinished(p)
  <2> DEFINE j == worker[p].job
  <2>0. j \in Jobs /\ registry[j] # Nil /\ registry[j].owner = pid[p]
    BY <1>5, MarksItsOwn
       DEF MarkRunning, MarkFinished, IInv, JobsInHand, RefreshPcs, OwnRecord, OwnedBy
  <2>1. PICK status \in {"running", "succeeded", "failed"},
             pc \in {"refreshing", "releasing"} :
          /\ registry' = Pruned(SetStatus(registry, j, status))
          /\ WorkerGoes(p, pc)
          /\ status = "running" <=> pc = "refreshing"
          /\ UNCHANGED <<pid, faults, client, queue>>
          /\ worker[p].pc # "none"
    <3>1. CASE MarkRunning(p)
      <4>1. OwnRecord(p, "queued")
        BY <3>1, MarksItsOwn DEF MarkRunning
      <4> QED BY <3>1, <4>1 DEF MarkRunning, Edit
    <3>2. CASE MarkFinished(p)
      <4>1. OwnRecord(p, "running")
        BY <3>2, MarksItsOwn DEF MarkFinished
      <4> QED BY <2>0, <3>2, <4>1 DEF MarkFinished, Edit
    <3> QED BY <1>5, <3>1, <3>2
  <2> DEFINE set == SetStatus(registry, j, status)
  <2>2. /\ set \in Registries /\ set[j].status = status
        /\ \A k \in Jobs : k # j => set[k] = registry[k]
    <3>1. status \in ActiveStatuses \cup TerminalStatuses
      BY DEF ActiveStatuses, TerminalStatuses
    <3> HIDE DEF j
    <3> QED BY <1>0, <2>0, <3>1, SetStatusRecords
  <2>3. Settles(set, registry', Alive)
    <3> HIDE DEF set
    <3>1. registry' = Pruned(set)
      BY <2>1 DEF set
    <3> QED BY <2>2, <3>1, EditSettles
  <2> HIDE DEF set
  <2>4. /\ worker'[p].pc = pc /\ worker'[p].job = j
        /\ \A q \in Procs : q # p => worker'[q] = worker[q]
    BY <1>0, <2>1 DEF WorkerGoes, Threads
  <2>5. \A k \in Jobs : Active(registry'[k]) =>
           \/ k # j /\ registry'[k] = registry[k]
           \/ k = j /\ pc = "refreshing" /\ registry'[k].owner = pid[p]
    <3>1. \A k \in Jobs : Active(registry'[k]) => registry'[k] = set[k]
      BY <2>3 DEF Settles
    <3>2. \A k \in Jobs : Active(registry'[k]) /\ k # j => registry'[k] = registry[k]
      BY <2>2, <3>1
    <3>3. Active(registry'[j]) => status = "running"
      BY <2>0, <2>2, <3>1 DEF Active, ActiveStatuses
    <3>4. set[j].owner = registry[j].owner
      BY <1>0, <2>0 DEF set, SetStatus, Registries, Records
    <3> QED BY <2>0, <2>1, <3>1, <3>2, <3>3, <3>4
  <2> HIDE DEF j
  <2>6. \A k \in Jobs : k # j /\ Carries(p, k) => Carries(p, k)'
    <3> SUFFICES ASSUME NEW k \in Jobs, k # j, Carries(p, k) PROVE Carries(p, k)'
      OBVIOUS
    <3>1. \/ \E c \in Clients : Waits(p, c) /\ client[p][c].job = k
          \/ \E i \in 1 .. Len(queue[p]) : queue[p][i] = k
      BY DEF Carries, Waiting, j
    <3> QED BY <2>1, <3>1 DEF Carries, Waiting, Waits
  <2>7. pc = "refreshing" => \A k \in Jobs : k = j => Carries(p, k)'
    BY <2>4 DEF Carries, RefreshPcs
  <2>8. \A q \in Procs : \A k \in Jobs :
          Active(registry'[k]) /\ registry'[k].owner = pid'[q] =>
            \/ q = p /\ Carries(p, k)'
            \/ /\ Active(registry[k]) /\ registry[k].owner = pid[q]
               /\ q = p /\ Carries(p, k) => Carries(p, k)'
    <3> SUFFICES ASSUME NEW q \in Procs, NEW k \in Jobs, Active(registry'[k]),
                        registry'[k].owner = pid'[q]
                 PROVE  \/ q = p /\ Carries(p, k)'
                        \/ /\ Active(registry[k]) /\ registry[k].owner = pid[q]
                           /\ q = p /\ Carries(p, k) => Carries(p, k)'
      OBVIOUS
    <3>1. CASE k # j /\ registry'[k] = registry[k]
      BY <2>1, <2>6, <3>1
    <3>2. CASE k = j /\ pc = "refreshing" /\ registry'[k].owner = pid[p]
      <4>1. pid[p] = pid[q] /\ pid[p] # NoPid
        BY <1>5, <2>1, <3>2 DEF MarkRunning, MarkFinished
      <4>2. q = p
        BY <4>1 DEF IInv, PidsDiffer
      <4> QED BY <2>7, <3>2, <4>2
    <3> QED BY <2>5, <3>1, <3>2
  <2>9. faults = 0 /\ ~ AllowPidReuse =>
          /\ worker'[p].pc \notin {"unwinding", "dying"}
          /\ queue'[p] # <<>> \/ (\E c \in Clients : client'[p][c].pc = "ensured") =>
               worker'[p].pc # "none"
    BY <2>4
  <2>10. faults' = faults /\ \A q \in Procs : q # p => UNCHANGED <<client[q], queue[q], worker[q]>>
    BY <2>1, <2>4
  <2> QED BY <2>8, <2>9, <2>10, LossFrame
<1>6. CASE ReleaseSlot(p) \/ ThreadEnds(p)
  <2> SUFFICES ASSUME faults = 0, ~ AllowPidReuse PROVE NothingLost'
    BY <1>6 DEF NothingLost, ReleaseSlot, ThreadEnds
  <2>1. worker[p].pc = "releasing"
    BY <1>6 DEF ReleaseSlot, ThreadEnds, NothingLost
  <2> DEFINE r == IdleWorker("idle")
  <2>2. r \in Threads /\ r.pc = "idle"
    BY DEF IdleWorker, Threads, WorkerPcs, NoJob
  <2>3. worker' = [worker EXCEPT ![p] = r] /\ UNCHANGED <<registry, pid, faults, client, queue>>
    BY <1>6, <2>1 DEF ReleaseSlot, ThreadEnds
  <2> HIDE DEF r
  <2> QED BY <1>1, <2>1, <2>2, <2>3 DEF InHand, RefreshPcs
<1> QED BY <1>2, <1>3, <1>4, <1>5, <1>6 DEF WorkerStep

LEMMA ProcessLosesNothing ==
    ASSUME IInv, OnTheWay, NothingLost, NEW p \in Procs, Crash(p) \/ Start(p)
    PROVE  NothingLost'
<1>0. registry \in Registries
  BY DEF IInv, TypeOK, Registries
<1>1. CASE Crash(p)
  <2>1. /\ worker'[p].pc = "none" /\ queue'[p] = <<>> /\ pid'[p] = NoPid
        /\ \A c \in Clients : client'[p][c].pc = "idle"
        /\ \A q \in Procs : q # p =>
             UNCHANGED <<client[q], queue[q], worker[q]>> /\ pid'[q] = pid[q]
        /\ UNCHANGED <<registry, faults>>
    BY <1>1 DEF Crash, IInv, TypeOK, IdleWorker, IdleClient
  <2>2. \A j \in Jobs : Active(registry[j]) => registry[j].owner # NoPid
    BY <1>0, NullsAssumption DEF Registries, Records, Active
  <2> QED BY <2>1, <2>2, LossFrame
<1>2. CASE Start(p)
  <2>1. PICK q \in Pids \ Alive :
          /\ AllowPidReuse \/ \A j \in Jobs : Active(registry[j]) => registry[j].owner # q
          /\ pid' = [pid EXCEPT ![p] = q]
          /\ registry' = Pruned(InterruptDead(registry, Alive \cup {q}))
          /\ UNCHANGED <<queue, worker, client, faults>>
    BY <1>2 DEF Start, Edit
  <2>2. Settles(registry, registry', Alive \cup {q})
    BY <1>0, <2>1, EditSettles
  <2>3. \A j \in Jobs : Active(registry'[j]) => registry'[j] = registry[j]
    BY <2>2 DEF Settles
  <2>4. pid'[p] = q /\ \A o \in Procs : o # p => pid'[o] = pid[o]
    BY <2>1 DEF IInv, TypeOK
  <2>5. ~ AllowPidReuse => \A o \in Procs : \A j \in Jobs :
          Active(registry'[j]) /\ registry'[j].owner = pid'[o] =>
            Active(registry[j]) /\ registry[j].owner = pid[o] /\ o # p
    BY <2>1, <2>3, <2>4
  <2>6. faults = 0 /\ ~ AllowPidReuse =>
          /\ worker'[p].pc \notin {"unwinding", "dying"}
          /\ queue'[p] # <<>> \/ (\E c \in Clients : client'[p][c].pc = "ensured") =>
               worker'[p].pc # "none"
    BY <2>1 DEF NothingLost
  <2>7. \A o \in Procs : o # p => UNCHANGED <<client[o], queue[o], worker[o]>>
    BY <2>1
  <2> QED BY <2>1, <2>5, <2>6, <2>7, LossFrame
<1> QED BY <1>1, <1>2

LEMMA StepLosesNothing == IInv /\ OnTheWay /\ NothingLost /\ [Next]_vars => NothingLost'
<1> SUFFICES ASSUME IInv, OnTheWay, NothingLost, [Next]_vars PROVE NothingLost'
  OBVIOUS
<1>1. ASSUME NEW p \in Procs, Fault(p) PROVE NothingLost'
  BY <1>1, FaultsEndIt
     DEF Fault, RequestFails, SlotFails, MarkRunningFails, MarkFinishedFails, FaultyEdit
<1>2. CASE UNCHANGED vars
  BY <1>2 DEF vars, NothingLost, Carries, Waiting, Waits, InHand
<1> QED
  BY <1>1, <1>2, RequestLosesNothing, WorkerLosesNothing, ProcessLosesNothing DEF Next

\* A record disappears in an edit that ends with _pruned.
LEMMA ForgettingPrunes ==
    ASSUME IInv, [Next]_vars, NEW j \in Jobs, registry[j] # Nil, registry'[j] = Nil
    PROVE  \E reg \in Registries : registry' = Pruned(reg) /\ reg[j] # Nil
<1>1. registry \in Registries
  BY DEF IInv, TypeOK, Registries
<1>2. \A live : /\ InterruptDead(registry, live) \in Registries
                /\ InterruptDead(registry, live)[j] # Nil
  <2> TAKE live
  <2>1. InterruptDead(registry, live) \in Registries
    BY <1>1, InterruptedRecords
  <2>2. CASE Orphan(registry[j], live)
    <3>1. [registry[j] EXCEPT !.status = "interrupted"] \in Records
      BY <1>1 DEF Registries, Records, ActiveStatuses, TerminalStatuses
    <3>2. InterruptDead(registry, live)[j] = [registry[j] EXCEPT !.status = "interrupted"]
      BY <1>1, <2>2, InterruptedRecords
    <3> QED BY <2>1, <3>1, <3>2, NullsAssumption
  <2>3. CASE ~ Orphan(registry[j], live)
    <3>1. InterruptDead(registry, live)[j] = registry[j]
      BY <1>1, <2>3 DEF InterruptDead, Registries
    <3> QED BY <2>1, <3>1
  <2> QED BY <2>1, <2>2, <2>3
<1>3. ASSUME NEW live,
             registry' \in {registry, Pruned(registry), Pruned(InterruptDead(registry, live))}
      PROVE  \E reg \in Registries : registry' = Pruned(reg) /\ reg[j] # Nil
  BY <1>1, <1>2, <1>3
<1>4. ASSUME NEW p \in Procs, worker[p].pc \in {"marking"} \cup RefreshPcs,
             NEW status \in ActiveStatuses \cup TerminalStatuses,
             registry[worker[p].job] # Nil,
             registry' \in {registry, Pruned(SetStatus(registry, worker[p].job, status))}
      PROVE  \E reg \in Registries : registry' = Pruned(reg) /\ reg[j] # Nil
  <2> DEFINE k == worker[p].job
             set == SetStatus(registry, k, status)
  <2>1. k \in Jobs
    BY <1>4 DEF IInv, JobsInHand
  <2>2. set \in Registries /\ set[j] # Nil
    <3> HIDE DEF k
    <3> QED BY <1>1, <1>4, <2>1, SetStatusRecords DEF k
  <2> QED BY <1>4, <2>2
<1>5. ASSUME NEW p \in Procs, NEW c \in Clients, NEW s \in Scopes, Accept(p, c, s)
      PROVE  \E reg \in Registries : registry' = Pruned(reg) /\ reg[j] # Nil
  <2> DEFINE reg == InterruptDead(registry, Alive)
             record == [scope |-> s, status |-> "queued", owner |-> pid[p]]
             k == issued + 1
             added == [reg EXCEPT ![k] = record]
  <2>1. k \in Jobs /\ record \in Records /\ registry[k] = Nil
    BY <1>5, BoundsAssumption, NullsAssumption
       DEF Accept, Ready, IInv, TypeOK, Jobs, Records, ActiveStatuses, UnissuedHaveNoRecord
  <2>2. reg \in Registries /\ reg[j] # Nil
    BY <1>2
  <2>3. registry' = Pruned(added)
    BY <1>5 DEF Accept, Edit
  <2> HIDE DEF reg
  <2>4. added \in Registries /\ added[j] # Nil
    BY <2>1, <2>2 DEF Registries
  <2> QED BY <2>3, <2>4
<1>6. ASSUME NEW p \in Procs, NEW c \in Clients, Request(p, c) \/ RequestStep(p, c)
      PROVE  \E reg \in Registries : registry' = Pruned(reg) /\ reg[j] # Nil
  BY <1>3, <1>5, <1>6
     DEF Request, RequestStep, Reuse, BeginMutation, PollStatus, EnsureWorker, Enqueue, Reply,
         EndMutation, AbortMutation, Edit, ReadRecords
<1>7. ASSUME NEW p \in Procs, WorkerStep(p) \/ Fault(p)
      PROVE  \E reg \in Registries : registry' = Pruned(reg) /\ reg[j] # Nil
  <2>1. CASE MarkRunning(p)
    BY <1>3, <1>4, <2>1
       DEF MarkRunning, WorkerAt, Edit, OwnRecord, OwnedBy, ActiveStatuses
  <2>2. CASE MarkFinished(p)
    BY <1>3, <1>4, <2>2
       DEF MarkFinished, Edit, OwnRecord, OwnedBy, RefreshPcs, TerminalStatuses
  <2>3. CASE MarkRunningFails(p)
    BY <1>4, <2>3
       DEF MarkRunningFails, WorkerAt, FaultyEdit, OwnRecord, OwnedBy, ActiveStatuses
  <2>4. CASE MarkFinishedFails(p)
    BY <1>4, <2>4
       DEF MarkFinishedFails, FaultyEdit, OwnRecord, OwnedBy, RefreshPcs, TerminalStatuses
  <2>5. ASSUME UNCHANGED registry PROVE FALSE
    BY <2>5
  <2> QED BY <1>7, <2>1, <2>2, <2>3, <2>4, <2>5
          DEF WorkerStep, Fault, TakeJob, AcquireSlot, RefreshReturns, ReleaseSlot, ThreadEnds,
              RequestFails, SlotFails
<1>8. ASSUME NEW p \in Procs, Crash(p) \/ Start(p)
      PROVE  \E reg \in Registries : registry' = Pruned(reg) /\ reg[j] # Nil
  <2>1. CASE Crash(p)
    BY <2>1 DEF Crash
  <2>2. CASE Start(p)
    <3>1. PICK q \in Pids \ Alive : registry' = Pruned(InterruptDead(registry, Alive \cup {q}))
      BY <2>2 DEF Start, Edit
    <3> QED BY <1>3, <3>1
  <2> QED BY <1>8, <2>1, <2>2
<1>9. ~ UNCHANGED vars
  BY DEF vars
<1> QED BY <1>6, <1>7, <1>8, <1>9 DEF Next

LEMMA StepForgetsSuperseded ==
    ASSUME IInv, IInv', OnTheWay', [Next]_vars, NEW j \in Jobs, registry[j] # Nil, registry'[j] = Nil
    PROVE  /\ Terminal(registry[j]) \/ j \notin UNION {Carried(p)' : p \in Procs}
           /\ Cardinality({k \in Jobs : k > j /\ Terminal(registry'[k])}) >= MaxHistory
<1>1. j \notin UNION {Carried(p)' : p \in Procs}
  <2> SUFFICES ASSUME NEW p \in Procs, j \in Carried(p)' PROVE FALSE
    OBVIOUS
  <2>1. Waiting(p, j)' \/ (worker'[p].pc \in RefreshPcs /\ worker'[p].job = j)
    BY DEF Carried, Waiting, Waits, InHand
  <2>2. CASE Waiting(p, j)'
    BY <2>2 DEF OnTheWay, CarriedRecorded, OwnedBy
  <2>3. CASE worker'[p].pc \in RefreshPcs /\ worker'[p].job = j
    <3>1. Refreshing(p)'
      BY <2>3 DEF Refreshing, IInv, DownIsIdle, RefreshPcs
    <3> QED BY <2>3, <3>1 DEF IInv, RefreshIsRecorded, OwnRecord, OwnedBy
  <2> QED BY <2>1, <2>2, <2>3
<1>2. PICK reg \in Registries : registry' = Pruned(reg) /\ reg[j] # Nil
  BY ForgettingPrunes
<1>3. Terminal(reg[j])
  BY <1>2, PrunedRecords
<1>4. Cardinality({k \in Jobs : k > j /\ Terminal(Pruned(reg)[k])}) >= MaxHistory
  BY <1>2, <1>3, PruningKeepsHistory
<1> QED BY <1>1, <1>2, <1>4

-----------------------------------------------------------------------------
(* Theorems                                                                *)

THEOREM Invariance == Spec => []IInv
BY InitIsInvariant, StepKeepsInvariant, PTL DEF Spec

\* The jobs on their way are recorded, and none of them is lost.
LEMMA Carrying == Spec => [](OnTheWay /\ NothingLost)
<1>1. Init => OnTheWay /\ NothingLost
  BY InitIsOnTheWay, InitLosesNothing
<1>2. IInv /\ OnTheWay /\ NothingLost /\ [Next]_vars => (OnTheWay /\ NothingLost)'
  BY StepKeepsWay, StepLosesNothing
<1> QED BY <1>1, <1>2, InitIsInvariant, StepKeepsInvariant, PTL DEF Spec

\* Every variable stays within its type (the state of refresh_jobs.py and of the
\* registry file), whatever the sizes of the constants.
THEOREM TypeCorrect == Spec => []TypeOK
<1>1. IInv => TypeOK
  BY DEF IInv
<1> QED BY <1>1, Invariance, PTL

\* start_or_reuse never leaves a scope with two unfinished jobs.
THEOREM OneActivePerScope == Spec => []AtMostOneActivePerScope
<1>1. IInv => AtMostOneActivePerScope
  BY DEF IInv
<1> QED BY <1>1, Invariance, PTL

\* _worker_loop runs one refresh at a time over all processes.
THEOREM OneRefreshAtATime == Spec => []SingleRefresh
<1>1. IInv => SingleRefresh
  BY DEF IInv, SlotHeldByWorker, SingleRefresh, Refreshing, RefreshPcs, HoldingPcs
<1> QED BY <1>1, Invariance, PTL

\* A refresh under way keeps its running record: no request, start or mutation of
\* any process interrupts, finishes or drops it.
THEOREM RefreshStaysRecorded == Spec => []RefreshIsRecorded
<1>1. IInv => RefreshIsRecorded
  BY DEF IInv
<1> QED BY <1>1, Invariance, PTL

\* scope_mutation and the refresh of the same scope exclude one another.
THEOREM MutationIsExclusive == Spec => []MutationExcludesRefresh
<1>1. IInv => MutationExcludesRefresh
  <2> SUFFICES ASSUME IInv, mutation # Nil, NEW p \in Procs, Refreshing(p)
               PROVE  registry[worker[p].job].scope # mutation.scope
    BY DEF MutationExcludesRefresh
  <2>1. worker[p].job \in Jobs /\ OwnRecord(p, "running") /\ pid[p] \in mutation.live
    BY DEF IInv, JobsInHand, RefreshIsRecorded, MutationSnapshot, Refreshing
  <2> QED BY <2>1 DEF IInv, MutationSnapshot, OwnRecord, OwnedBy, Active, ActiveStatuses
<1> QED BY <1>1, Invariance, PTL

\* The registry as callers see it implements JobLedger: jobs move forward only, a
\* scope has one unfinished job, and only finished jobs, or jobs in the write that
\* finishes them, are forgotten.
THEOREM LedgerIsImplemented == Spec => ImplementsLedger
<1>1. Init => Ledger!Init
  BY DEF Init, Ledger!Init, StatusOf, ScopeOf, Jobs
<1> QED BY <1>1, StepFollowsLedger, Invariance, PTL DEF Spec, ImplementsLedger, Ledger!Spec

\* As long as nothing fails and no pid is reused, an unfinished job of a running
\* process is on its way in it, and a worker is there for what is queued: accept,
\* thread start, put, take and marks lose no job in any order.
THEOREM NoJobIsStranded == Spec => []NoStrandedJob
<1>1. IInv /\ OnTheWay /\ NothingLost => NoStrandedJob
  <2> SUFFICES ASSUME NothingLost, faults = 0, ~ AllowPidReuse, NEW j \in Jobs, NEW p \in Procs,
                      Active(registry[j]), registry[j].owner = pid[p]
               PROVE  /\ j \in Carried(p)
                      /\ queue[p] # <<>> => worker[p].pc \notin {"none", "dying"}
    BY DEF NoStrandedJob
  <2>1. Carries(p, j) /\ (queue[p] # <<>> => worker[p].pc \notin {"none", "dying"})
    BY DEF NothingLost
  <2> QED BY <2>1, CarriesIsCarried
<1> QED BY <1>1, Invariance, Carrying, PTL

\* _pruned drops no job that is on its way or being refreshed, and a dropped job
\* leaves max_history finished ones that were accepted after it.
THEOREM OnlySupersededAreForgotten == Spec => ForgottenOnlyWhenSuperseded
<1>1. IInv /\ IInv' /\ OnTheWay' /\ [Next]_vars =>
        [\A j \in Jobs :
           registry[j] # Nil /\ registry'[j] = Nil =>
             /\ Terminal(registry[j]) \/ j \notin UNION {Carried(p)' : p \in Procs}
             /\ Cardinality({k \in Jobs : k > j /\ Terminal(registry'[k])}) >= MaxHistory]_vars
  BY StepForgetsSuperseded
<1> QED BY <1>1, Invariance, Carrying, PTL DEF Spec, ForgottenOnlyWhenSuperseded

\* Only a start gives a process a pid.
LEMMA OnlyStartsStart ==
    ASSUME IInv, Next, NEW p \in Procs, pid[p] = NoPid, pid'[p] # NoPid
    PROVE  Start(p)
<1>1. pid \in [Procs -> Pids \cup {NoPid}]
  BY DEF IInv, TypeOK
<1>2. ASSUME NEW o \in Procs, o # p, Start(o)
      PROVE  FALSE
  <2>1. PICK q \in Pids : pid' = [pid EXCEPT ![o] = q]
    BY <1>2 DEF Start
  <2> QED BY <1>1, <1>2, <2>1
<1>3. ASSUME NEW o \in Procs, Crash(o)
      PROVE  FALSE
  BY <1>1, <1>3 DEF Crash
<1>4. ASSUME NEW o \in Procs, NEW c \in Clients, Request(o, c) \/ RequestStep(o, c)
      PROVE  UNCHANGED pid
  BY <1>4 DEF Request, RequestStep, Reuse, Accept, EnsureWorker, Enqueue, Reply, PollStatus,
              BeginMutation, EndMutation, AbortMutation
<1>5. ASSUME NEW o \in Procs, WorkerStep(o)
      PROVE  UNCHANGED pid
  BY <1>5 DEF WorkerStep, TakeJob, AcquireSlot, MarkRunning, RefreshReturns, MarkFinished,
              ReleaseSlot, ThreadEnds
<1>6. ASSUME NEW o \in Procs, Fault(o)
      PROVE  UNCHANGED pid
  BY <1>6 DEF Fault, RequestFails, SlotFails, MarkRunningFails, MarkFinishedFails
<1> QED
  BY <1>2, <1>3, <1>4, <1>5, <1>6 DEF Next

\* Where no pid is given out again, a process that starts finds the jobs of all that
\* are gone, its own earlier self included, and leaves none of them unfinished.
THEOREM OrphansAreSettledAtStart ==
    ASSUME ~ AllowPidReuse
    PROVE  Spec => StartupSettlesOrphans
<1>1. IInv /\ [Next]_vars =>
        [\A p \in Procs : pid[p] = NoPid /\ pid'[p] # NoPid =>
           \A j \in Jobs : Active(registry[j]) /\ registry[j].owner \notin Alive =>
               ~ Active(registry'[j])]_vars
  <2> SUFFICES ASSUME IInv, Next, NEW p \in Procs, pid[p] = NoPid, pid'[p] # NoPid,
                      NEW j \in Jobs, Active(registry[j]), registry[j].owner \notin Alive
               PROVE  ~ Active(registry'[j])
    BY DEF vars
  <2>1. Start(p)
    BY OnlyStartsStart
  <2>2. PICK q \in Pids :
          /\ \A k \in Jobs : Active(registry[k]) => registry[k].owner # q
          /\ registry' = Pruned(InterruptDead(registry, Alive \cup {q}))
    BY <2>1 DEF Start, Edit
  <2>3. Orphan(registry[j], Alive \cup {q})
    BY <2>2 DEF Orphan
  <2>4. ~ Active(InterruptDead(registry, Alive \cup {q})[j])
    BY <2>3 DEF InterruptDead, Active, ActiveStatuses, Orphan
  <2>5. registry'[j] \in {InterruptDead(registry, Alive \cup {q})[j], Nil}
    BY <2>2 DEF Pruned
  <2> QED BY <2>4, <2>5 DEF Active
<1> QED BY <1>1, Invariance, PTL DEF Spec, StartupSettlesOrphans
=============================================================================
