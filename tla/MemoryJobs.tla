------------------------------ MODULE MemoryJobs ------------------------------
(***************************************************************************)
(* The daily and weekly memory (crates/core/src/memory/service.rs,         *)
(* service_jobs.rs, jobs.rs, schedule.rs, store.rs): a job per period is   *)
(* reserved, claimed for one call of the provider, and committed once the  *)
(* summary it generated is saved.  The jobs and the summaries are files;   *)
(* the service that works through them may be preempted by a user, fail or *)
(* end with the program between any two of its writes.                     *)
(*                                                                         *)
(* One service runs at a time: the runtime owns it, and the command line   *)
(* takes the lock of the watch.  A text is what it was generated from; a   *)
(* source is a set of versions, empty when there is nothing to summarise.  *)
(* Left out: facts, retention, capacity in bytes, the hours of a day.      *)
(***************************************************************************)
EXTENDS Integers, Sequences, FiniteSets

CONSTANTS MaxMemoryDay,       \* bound: days that pass; the last is without a log
          DaysPerWeek,        \* days of a calendar week
          MaxVersions,        \* bound: changes of the log of one day
          MaxRuns,            \* bound: runs of the service
          MaxMemoryFaults     \* bound: crashes, I/O errors, failed calls, preemptions

ASSUME MemoryAssumption ==
    MaxMemoryDay \in Nat \ {0} /\ DaysPerWeek \in Nat \ {0} /\ MaxVersions \in Nat

VARIABLES day,        \* the local date
          dayLog,     \* version of the log of each day, 0 when there is none
          jobs,       \* the job file of each period
          summaries,  \* the summary file of each period
          consent,    \* memory.provider_consent
          memory,     \* the service: the stage of its run, the periods left, the job at hand
          bought,     \* history: calls by period and day but for those released, and the
                      \* answers neither saved nor found to be of an old source
          memoryBounds

memoryVars == <<day, dayLog, jobs, summaries, consent, memory, bought, memoryBounds>>

MemoryDays == 1 .. MaxMemoryDay
Week(d) == (d + DaysPerWeek - 1) \div DaysPerWeek
Weeks == 1 .. Week(MaxMemoryDay)
Periods == [kind : {"daily"}, of : MemoryDays] \cup [kind : {"weekly"}, of : Weeks]

\* The slot a job is counted in: its day, or the week of it.
Slot(kind, d) == IF kind = "daily" THEN d ELSE Week(d)

Versions == MemoryDays \X (1 .. MaxVersions)
NoJob == [phase |-> "none", day |-> 0, digest |-> {}, text |-> {}]
NoSummary == [digest |-> {}, text |-> {}, current |-> FALSE]
Asleep == [pc |-> "idle", stage |-> "none", todo |-> <<>>, source |-> {}, cancelled |-> FALSE]

MemoryTypeOK ==
    /\ day \in MemoryDays /\ dayLog \in [MemoryDays -> 0 .. MaxVersions]
    /\ \A p \in Periods :
          /\ jobs[p].phase \in {"none", "reserved", "calling", "generated", "committed", "failed"}
          /\ jobs[p].day \in 0 .. MaxMemoryDay
          /\ jobs[p].digest \subseteq Versions /\ jobs[p].text \subseteq Versions
          /\ summaries[p].digest \subseteq Versions /\ summaries[p].current \in BOOLEAN
    /\ consent \in BOOLEAN
    /\ memory.pc \in {"idle", "next", "reserve", "generate", "calling", "save", "commit"}
    /\ memory.stage \in {"none", "generated", "reserved", "scheduled", "consolidate"}

MemoryInit ==
    /\ day = 1
    /\ dayLog = [d \in MemoryDays |-> 0]
    /\ jobs = [p \in Periods |-> NoJob]
    /\ summaries = [p \in Periods |-> NoSummary]
    /\ consent = TRUE
    /\ memory = Asleep
    /\ bought = [calls |-> [p \in Periods |-> [d \in MemoryDays |-> 0]], unused |-> {}]
    /\ memoryBounds = [runs |-> 0, faults |-> 0]

MemoryFault ==
    /\ memoryBounds.faults < MaxMemoryFaults
    /\ memoryBounds' = [memoryBounds EXCEPT !.faults = @ + 1]

----------------------------------------------------------------------------
(* daily_source, canonical_weekly_source, refresh_freshness                *)

SourceIn(p, held) ==
    IF p.kind = "daily" THEN IF dayLog[p.of] = 0 THEN {} ELSE {<<p.of, dayLog[p.of]>>}
    ELSE UNION {held[q].text : q \in {q \in Periods : /\ q.kind = "daily" /\ Week(q.of) = p.of
                                                       /\ held[q].current}}
Source(p) == SourceIn(p, summaries)

\* A summary whose source has changed is stale; the log of a daily one must still
\* be there.  The weekly ones are looked at after the daily ones.
Refreshed ==
    LET Stale(p, held) == [held[p] EXCEPT !.current = @ /\ held[p].digest = SourceIn(p, held)]
        daily == [p \in Periods |-> IF p.kind = "daily" /\ dayLog[p.of] # 0
                                    THEN Stale(p, summaries) ELSE summaries[p]]
    IN [p \in Periods |-> IF p.kind = "weekly" THEN Stale(p, daily) ELSE daily[p]]

\* select_schedule: yesterday and the oldest day still missing, last week and the
\* first week that is stale, each without a job in the slot of today.
Unrun(kind, S) == {n \in S : LET job == jobs[[kind |-> kind, of |-> n]]
                             IN job.phase = "none" \/ Slot(kind, job.day) # Slot(kind, day)}
First(S) == {n \in S : \A m \in S : n <= m}
Missing(held) == {d \in MemoryDays : d < day /\ dayLog[d] # 0 /\ ~held[[kind |-> "daily", of |-> d]].current}
LastWeek == Weeks \cap {Week(day) - 1}
StaleWeeks(held) == {w \in Weeks : LET s == held[[kind |-> "weekly", of |-> w]]
                                   IN s # NoSummary /\ ~s.current}
Scheduled(kind, S) == IF Unrun(kind, S) = {} THEN <<>>
                      ELSE <<[kind |-> kind, of |-> CHOOSE n \in Unrun(kind, S) : TRUE]>>
Schedule(held) ==
    LET missing == Missing(held)
        weekly == Unrun("weekly", LastWeek)
    IN Scheduled("daily", missing \cap {day - 1}) \o Scheduled("daily", First(missing \ {day - 1}))
       \o Scheduled("weekly", weekly) \o Scheduled("weekly", First(StaleWeeks(held) \ weekly))

\* Jobs in the order of their files.
Earlier(p, q) == \/ p.kind = "daily" /\ q.kind = "weekly"
                 \/ p.kind = q.kind /\ p.of < q.of
Jobs(ps) ==
    LET Place(p) == Cardinality({q \in ps : Earlier(q, p)}) + 1
    IN [i \in 1 .. Cardinality(ps) |-> CHOOSE p \in ps : Place(p) = i]

----------------------------------------------------------------------------
(* Outside the service.                                                    *)

\* The log of today grows; a part or all of an earlier day is deleted.
LogDay(d) ==
    /\ d <= day /\ d < MaxMemoryDay
    /\ \/ dayLog[d] < MaxVersions /\ (d = day \/ dayLog[d] > 0) /\ dayLog' = [dayLog EXCEPT ![d] = @ + 1]
       \/ d < day /\ dayLog[d] > 0 /\ dayLog' = [dayLog EXCEPT ![d] = 0]
    /\ UNCHANGED <<day, jobs, summaries, consent, memory, bought, memoryBounds>>

NextDay ==
    /\ day < MaxMemoryDay /\ memory.pc = "idle"
    /\ day' = day + 1
    /\ UNCHANGED <<dayLog, jobs, summaries, consent, memory, bought, memoryBounds>>

\* update_config needs the service, so it waits for the run to end.
Consent ==
    /\ memory.pc = "idle" /\ MemoryFault
    /\ consent' = ~consent
    /\ UNCHANGED <<day, dayLog, jobs, summaries, memory, bought>>

\* A user comes first: the token of the run is cancelled.
Preempt ==
    /\ memory.pc # "idle" /\ ~memory.cancelled /\ MemoryFault
    /\ memory' = [memory EXCEPT !.cancelled = TRUE]
    /\ UNCHANGED <<day, dayLog, jobs, summaries, consent, bought>>

MemoryCrash ==
    /\ memory.pc # "idle" /\ MemoryFault
    /\ memory' = Asleep
    /\ UNCHANGED <<day, dayLog, jobs, summaries, consent, bought>>

----------------------------------------------------------------------------
(* run_due, consolidate                                                    *)

\* Mutant: it is made again.
RecoveredForRetry(job) == IF job.phase = "calling" THEN [job EXCEPT !.phase = "reserved"] ELSE job

\* recover_after_crash: a call whose end is not known is not made again.
Recovered(job) ==
    IF job.phase = "calling" \/ (job.phase = "reserved" /\ job.day < day)
    THEN [job EXCEPT !.phase = "failed"] ELSE job
JobsReconciled == jobs' = [p \in Periods |-> Recovered(jobs[p])]

MayRun ==
    /\ memory.pc = "idle" /\ memoryBounds.runs < MaxRuns
    /\ memoryBounds' = [memoryBounds EXCEPT !.runs = @ + 1]

IsGenerated(job) == job.phase = "generated"
RunDue ==
    /\ MayRun
    /\ JobsReconciled
    /\ summaries' = Refreshed
    /\ memory' = [Asleep EXCEPT !.pc = "next", !.stage = "generated", !.todo = Jobs({p \in Periods : IsGenerated(jobs[p])})]
    /\ UNCHANGED <<day, dayLog, consent, bought>>

\* Asked for on the command line.
Consolidate(p) ==
    /\ consent /\ MayRun
    /\ JobsReconciled
    /\ memory' = [Asleep EXCEPT !.pc = "next", !.stage = "consolidate", !.todo = <<p>>]
    /\ UNCHANGED <<day, dayLog, summaries, consent, bought>>

\* What is left is done: the jobs reserved today, then the schedule.  Without
\* consent the jobs not yet answered fail instead.
IsReservedToday(job) == job.phase = "reserved" /\ job.day = day
StageEnds ==
    /\ memory.pc = "next" /\ memory.todo = <<>>
    /\ summaries' = IF memory.stage \in {"generated", "reserved"} THEN Refreshed ELSE summaries
    /\ jobs' = IF memory.stage = "generated" /\ ~consent
               THEN [p \in Periods |-> IF jobs[p].phase \in {"reserved", "calling"}
                                       THEN [jobs[p] EXCEPT !.phase = "failed"] ELSE jobs[p]]
               ELSE jobs
    /\ memory' = IF memory.stage = "consolidate" \/ memory.stage = "scheduled"
                    \/ (memory.stage = "generated" /\ ~consent)
                 THEN Asleep
                 ELSE [memory EXCEPT
                          !.stage = IF @ = "generated" THEN "reserved" ELSE "scheduled",
                          !.todo = IF memory.stage = "generated" THEN Jobs({p \in Periods : IsReservedToday(jobs[p])})
                                   ELSE Schedule(summaries')]
    /\ UNCHANGED <<day, dayLog, consent, bought, memoryBounds>>

Job == jobs[memory.todo[1]]
Continue == memory' = [memory EXCEPT !.pc = "next", !.todo = Tail(@)]
SetJob(job) == jobs' = [jobs EXCEPT ![memory.todo[1]] = job]

\* run_daily, run_weekly: the source is read; without one the job is left as it is.
ReadSource ==
    /\ memory.pc = "next" /\ memory.todo # <<>>
    /\ IF Source(memory.todo[1]) = {} THEN Continue
       ELSE memory' = [memory EXCEPT !.pc = "reserve", !.source = Source(memory.todo[1])]
    /\ UNCHANGED <<day, dayLog, jobs, summaries, consent, bought, memoryBounds>>

\* reserve_job: a job of today or an answer not yet used is kept; a new one needs a
\* place in the slot, of which there are two.  A job whose source changed fails.
\* Mutant: a job that failed does not count.
UsedUnfailed(kind) == Cardinality({p \in Periods : /\ p.kind = kind /\ jobs[p].phase \notin {"none", "failed"}
                                                   /\ Slot(kind, jobs[p].day) = Slot(kind, day)})

Used(kind) == Cardinality({p \in Periods : /\ p.kind = kind /\ jobs[p].phase # "none"
                                           /\ Slot(kind, jobs[p].day) = Slot(kind, day)})
\* Mutant: only a job of today is kept.
KeptToday(job) == job.phase # "none" /\ job.day = day

KeptJob(job) == job.phase # "none" /\ (job.day = day \/ job.phase = "generated")

ReserveJob ==
    LET kind == memory.todo[1].kind
        fresh == [phase |-> "reserved", day |-> day, digest |-> memory.source, text |-> {}]
    IN
    /\ memory.pc = "reserve"
    /\ \/ /\ KeptJob(Job) /\ Job.phase = "reserved" /\ Job.digest # memory.source
          /\ SetJob([Job EXCEPT !.phase = "failed"])
          /\ Continue
       \/ /\ KeptJob(Job) /\ (Job.phase = "reserved" => Job.digest = memory.source)
          /\ IF Job.phase \in {"committed", "failed"} THEN Continue
             ELSE memory' = [memory EXCEPT !.pc = "generate"]
          /\ UNCHANGED jobs
       \/ /\ ~KeptJob(Job) /\ Used(kind) >= 2
          /\ Continue
          /\ UNCHANGED jobs
       \/ /\ ~KeptJob(Job) /\ Used(kind) < 2
          /\ SetJob(fresh)
          /\ memory' = [memory EXCEPT !.pc = "generate"]
    /\ UNCHANGED <<day, dayLog, summaries, consent, bought, memoryBounds>>

\* generate: an answer that is there is used; otherwise the job is claimed for the
\* call, which needs the consent.
Generate ==
    /\ memory.pc = "generate"
    /\ \/ /\ Job.text # {}
          /\ memory' = [memory EXCEPT !.pc = "save"]
          /\ UNCHANGED <<jobs, bought>>
       \/ /\ Job.text = {} /\ ~consent
          /\ SetJob([Job EXCEPT !.phase = "failed"])
          /\ Continue
          /\ UNCHANGED bought
       \/ /\ Job.text = {} /\ consent /\ Job.phase = "reserved"
          /\ SetJob([Job EXCEPT !.phase = "calling"])
          /\ bought' = [bought EXCEPT !.calls[memory.todo[1]][Job.day] = @ + 1]
          /\ memory' = [memory EXCEPT !.pc = "calling"]
    /\ UNCHANGED <<day, dayLog, summaries, consent, memoryBounds>>

\* mark_generated: the answer is kept before anything is done with it.
Paid(p, source) == [period |-> p, source |-> source]
AnswerKept ==
    /\ memory.pc = "calling" /\ ~memory.cancelled
    /\ SetJob([Job EXCEPT !.phase = "generated", !.text = memory.source])
    /\ bought' = [bought EXCEPT !.unused = @ \cup {Paid(memory.todo[1], memory.source)}]
    /\ memory' = [memory EXCEPT !.pc = "save"]
    /\ UNCHANGED <<day, dayLog, summaries, consent, memoryBounds>>

CallFails ==
    /\ memory.pc = "calling" /\ ~memory.cancelled /\ MemoryFault
    /\ SetJob([Job EXCEPT !.phase = "failed"])
    /\ Continue
    /\ UNCHANGED <<day, dayLog, summaries, consent, bought>>

\* release_job_after_preemption
ReleaseJob ==
    /\ memory.pc = "calling" /\ memory.cancelled
    /\ SetJob([Job EXCEPT !.phase = "reserved"])
    /\ bought' = [bought EXCEPT !.calls[memory.todo[1]][Job.day] = @ - 1]
    /\ Continue
    /\ UNCHANGED <<day, dayLog, summaries, consent, memoryBounds>>

\* The source is read again; the summary is saved when it has not changed.
SaveSummary ==
    LET p == memory.todo[1]
    IN
    /\ memory.pc = "save"
    /\ IF Source(p) # Job.digest
       THEN SetJob([Job EXCEPT !.phase = "failed"]) /\ Continue /\ UNCHANGED summaries
       ELSE /\ summaries' = [summaries EXCEPT ![p] = [digest |-> Job.digest, text |-> Job.text,
                                                      current |-> TRUE]]
            /\ memory' = [memory EXCEPT !.pc = "commit"]
            /\ UNCHANGED jobs
    /\ bought' = [bought EXCEPT !.unused = @ \ {Paid(p, Job.text)}]
    /\ UNCHANGED <<day, dayLog, consent, memoryBounds>>

CommitJob ==
    /\ memory.pc = "commit"
    /\ SetJob([Job EXCEPT !.phase = "committed"])
    /\ Continue
    /\ UNCHANGED <<day, dayLog, summaries, consent, bought, memoryBounds>>

\* An I/O error of a period is recorded, and the next period is worked on.
PeriodFails ==
    /\ memory.pc \in {"reserve", "generate", "save", "commit"} /\ MemoryFault
    /\ Continue
    /\ UNCHANGED <<day, dayLog, jobs, summaries, consent, bought>>

MemoryStep ==
    StageEnds \/ ReadSource \/ ReserveJob \/ Generate \/ AnswerKept \/ ReleaseJob \/ SaveSummary \/ CommitJob

MemoryNext ==
    \/ \E d \in MemoryDays : LogDay(d)
    \/ NextDay \/ Consent \/ Preempt \/ MemoryCrash
    \/ RunDue \/ \E p \in Periods : Consolidate(p)
    \/ MemoryStep \/ CallFails \/ PeriodFails

MemorySpec == MemoryInit /\ [][MemoryNext]_memoryVars

----------------------------------------------------------------------------
NeverCalled == [d \in MemoryDays |-> 0]

\* The periods called for, ever and in a slot.
EverCalled == {p \in Periods : bought.calls[p] # NeverCalled}
CalledIn(kind, slot) ==
    {p \in Periods : p.kind = kind /\ \E d \in MemoryDays : Slot(kind, d) = slot /\ bought.calls[p][d] > 0}

(* However its runs end, the calls of one day, or of one week, are for two  *)
(* periods at most, a period is called for once a day but for the calls     *)
(* given up for a user, and an answer that was paid for stays in its job    *)
(* until it is saved or its source has changed.                             *)
CallsWellSpent ==
    /\ \A p \in EverCalled, d \in MemoryDays :
          bought.calls[p][d] # 0 => /\ bought.calls[p][d] = 1
                                    /\ Cardinality(CalledIn(p.kind, Slot(p.kind, d))) <= 2
    /\ \A a \in bought.unused : jobs[a.period].phase = "generated" /\ jobs[a.period].text = a.source
=============================================================================
