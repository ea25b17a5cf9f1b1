------------------------------- MODULE Turns -------------------------------
(***************************************************************************)
(* One chat session of the assistant: messages arrive, turns are scheduled *)
(* as jobs, a pool of worker threads runs them, and replies go out through *)
(* ReplyDesk. Workers may fail, be taken for dead, or die with the process *)
(* (assistant_platform: ingest, jobs, conversation).                       *)
(***************************************************************************)
EXTENDS ReplyDesk, FiniteSets

CONSTANTS
  NMsg,         \* messages the user sends
  Interactive,  \* workers for session.process and reply.send
  Background,   \* workers for session.close
  Keeper,       \* the interactive worker that also does the maintenance
  Pools,        \* the sets of threads the configuration may start
  NoWorkerJob,  \* what an idle worker is working on
  MaxAttempts,  \* _DEFAULT_JOB_MAX_ATTEMPTS
  Faults,       \* the kinds of fault that may happen
  MaxFaults     \* how many faults in all

Msg == 1..NMsg
Worker == Interactive \cup Background

\* A reply is the n-th final message a trigger got; there should be one.
Replies == Msg \X (1..2)

Process(m) == <<"process", m>>
Send(r) == <<"reply", r>>
Close == <<"close">>
ProcessJobs == {Process(m) : m \in Msg}
Job == ProcessJobs \cup {Send(r) : r \in Replies} \cup {Close}

FaultKinds == {"run", "teardown", "commit", "wake", "orphan", "crash", "stall",
               "unreachable", "answer", "timeout", "send", "unsure", "weblost",
               "forget", "restart", "tokenless", "buried"}

ASSUME TurnsAssumption ==
  /\ NMsg \in Nat /\ MaxAttempts \in Nat \ {0} /\ MaxFaults \in Nat
  /\ Keeper \in Interactive /\ Interactive \cap Background = {}
  /\ Pools \subseteq SUBSET Worker /\ \A pool \in Pools : Keeper \in pool
  /\ NoWorkerJob \notin Job
  /\ Faults \subseteq FaultKinds /\ Reply = Replies

VARIABLES
  arrived,   \* messages 1..arrived are in the session
  owner,     \* owner[m]: the trigger whose turn handled m (0: handled_at is NULL)
  open,      \* the session's status is "open"
  running,   \* the session's turn is "running"
  job,       \* status of each job row ("none": no row)
  attempts,  \* BackgroundJobRow.attempts
  worker,    \* what each worker thread is doing, and its snapshot of `active`
  active,    \* the session is in _active_sessions
  finals,    \* final replies persisted per trigger
  heard,     \* messages the model was asked with, in the last run of their turn
  spent,     \* faults so far
  marks      \* history: which rare things have happened

turnVars == <<arrived, owner, open, running, job, attempts, worker, active,
              finals, heard, spent, marks>>
vars == <<deskVars, turnVars>>

Statuses == {"none", "pending", "processing", "done", "failed"}
Phases == {"absent", "idle", "looking", "claimed", "thinking", "asked", "answered", "wake",
           "posting", "told", "refused", "leaving"}
MarkKinds == {"overtaken", "buried", "cut", "doubled", "lapsed", "unheard",
              "assumed", "unsaved", "skipped"}
Idle == [phase |-> "idle", job |-> NoWorkerJob, blocked |-> FALSE]
Absent == [Idle EXCEPT !.phase = "absent"]

TurnsTypeOK ==
  /\ DeskTypeOK
  /\ arrived \in 0..NMsg /\ owner \in [Msg -> 0..NMsg]
  /\ open \in BOOLEAN /\ running \in BOOLEAN /\ active \in BOOLEAN
  /\ job \in [Job -> Statuses] /\ attempts \in [Job -> 0..MaxAttempts + 1]
  /\ worker \in [Worker -> [phase : Phases, job : Job \cup {NoWorkerJob},
                            blocked : BOOLEAN]]
  /\ finals \in [Msg -> 0..2] /\ heard \subseteq Msg
  /\ spent \in 0..MaxFaults
  /\ marks \subseteq MarkKinds

\* A session before its first message, with jobs that have failed n times.
FreshSession(n) ==
  /\ DeskInit
  /\ arrived = 0 /\ owner = [m \in Msg |-> 0]
  /\ open = TRUE /\ running = FALSE /\ active = FALSE
  /\ job = [j \in Job |-> "none"] /\ attempts = [j \in Job |-> n]
  /\ \E pool \in Pools :
       worker = [w \in Worker |-> IF w \in pool THEN Idle ELSE Absent]
  /\ finals = [m \in Msg |-> 0] /\ heard = {}
  /\ spent = 0 /\ marks = {}

Init == FreshSession(0)

Fault(kind) ==
  /\ kind \in Faults /\ spent < MaxFaults
  /\ spent' = spent + 1

NoFault == UNCHANGED spent
-----------------------------------------------------------------------------
(* Scheduling a turn *)

WithStatus(jobs, status) == {j \in jobs : job[j] = status}
Working(w) == worker[w].job
Handled(m) == owner[m] # 0
Waiting(n) == {m \in 1..n : ~Handled(m)}

\* try_schedule_next_turn, given what it sees of the session and of its own
\* transaction: the status of a waiting job is "pending", which the check for
\* an active process job does not look for.
ScheduleFrom(isOpen, isRunning, present, marks0) ==
  LET eligible == isOpen /\ ~isRunning /\ Waiting(present) # {}
                  /\ WithStatus(ProcessJobs, "processing") = {}
      first == CHOOSE m \in Waiting(present) : \A n \in Waiting(present) : m <= n
  IN IF eligible
     THEN /\ running' = TRUE
          /\ owner' = [owner EXCEPT ![first] = first]
          /\ marks' = marks0 \cup (IF WithStatus(ProcessJobs, "pending") # {}
                                   THEN {"doubled"} ELSE {})
     ELSE /\ running' = isRunning
          /\ marks' = marks0
          /\ UNCHANGED owner

\* The job rows after it, on top of the rows `jobs`.
Enqueued(jobs) ==
  [j \in Job |-> IF \E m \in Msg : j = Process(m) /\ owner[m] = 0 /\ owner'[m] = m
                 THEN "pending" ELSE jobs[j]]

\* Slip: a turn is never found stale.
NeverStale == FALSE

\* recover_stale_turn_if_needed: the turn has run for longer than
\* turn_timeout_seconds (any time may have passed) and nothing of the session is
\* being processed.
TurnIsStale == running /\ WithStatus(Job, "processing") = {}
-----------------------------------------------------------------------------
(* The world: messages, closing *)

\* EventIngestService.ingest of a new message.
Arrive ==
  /\ open /\ arrived < NMsg
  /\ arrived' = arrived + 1
  /\ \E reset \in {FALSE, TurnIsStale} :
       ScheduleFrom(TRUE, running /\ ~reset, arrived + 1, marks)
  /\ job' = Enqueued(job)
  /\ NoFault
  /\ UNCHANGED <<deskVars, open, attempts, worker, active, finals, heard>>

\* close_session, by the API at any time or by the next message after an idle
\* half hour (which then opens another session).
CloseSession ==
  /\ open /\ arrived > 0
  /\ open' = FALSE
  /\ job' = [job EXCEPT ![Close] = "pending"]
  /\ NoFault
  /\ UNCHANGED <<deskVars, arrived, owner, running, attempts, worker, active,
                 finals, heard, marks>>
-----------------------------------------------------------------------------
(* The worker loop *)

Becomes(w, phase) == worker' = [worker EXCEPT ![w].phase = phase]
Rows == <<arrived, owner, open, running, finals, heard>>

\* recover_stale_turns, in the keeper's maintenance.
RecoverTurn(w) ==
  /\ w = Keeper /\ worker[w].phase = "idle"
  /\ open /\ TurnIsStale
  /\ ScheduleFrom(TRUE, FALSE, arrived, marks)
  /\ job' = Enqueued(job)
  /\ NoFault
  /\ UNCHANGED <<deskVars, arrived, open, attempts, worker, active, finals, heard>>

Owned(j) == \E w \in Worker : Working(w) = j

\* recover_stale_processing_jobs: no heartbeat for job_processing_timeout_seconds,
\* by when no delivery of the job's is under way any more.
RecoverJob(w, j) ==
  /\ w = Keeper /\ worker[w].phase = "idle"
  /\ job[j] = "processing" /\ j \notin {Send(r) : r \in sending}
  /\ IF Owned(j) THEN Fault("stall") /\ marks' = marks \cup {"overtaken"}
                 ELSE NoFault /\ UNCHANGED marks
  /\ job' = [job EXCEPT ![j] = "pending"]
  /\ UNCHANGED <<deskVars, Rows, attempts, worker, active>>

\* The copy of _active_sessions, taken before the claim. (A round that begins with
\* nothing pending is left out: a later copy shows the same.)
Look(w) ==
  /\ worker[w].phase = "idle" /\ WithStatus(Job, "pending") # {}
  /\ worker' = [worker EXCEPT ![w].phase = "looking", ![w].blocked = active]
  /\ NoFault
  /\ UNCHANGED <<deskVars, Rows, job, attempts, active, marks>>

IsSend(j) == j \in {Send(r) : r \in Replies}

\* Slip: a claim without the condition on the status.
ClaimableTaken(w) ==
  {j \in Job : job[j] \in {"pending", "processing"} /\ (w \in Background <=> j = Close)
               /\ (worker[w].blocked => IsSend(j))}

\* claim_next_job's candidates: of the types the worker takes, not of a session
\* in its snapshot (replies excepted), replies first.
Claimable(w) ==
  LET pending == WithStatus(Job, "pending")
      sends == {j \in pending : IsSend(j)}
      turns == IF worker[w].blocked THEN {} ELSE pending \cap ProcessJobs
  IN IF w \in Background THEN IF worker[w].blocked THEN {} ELSE pending \cap {Close}
     ELSE IF sends # {} THEN sends ELSE turns

Claim(w, j) ==
  /\ worker[w].phase = "looking" /\ j \in Claimable(w)
  /\ job' = [job EXCEPT ![j] = "processing"]
  /\ worker' = [worker EXCEPT ![w].phase = "claimed", ![w].job = j]
  /\ active' = (active \/ ~IsSend(j))
  /\ NoFault
  /\ UNCHANGED <<deskVars, Rows, attempts, marks>>

NothingToDo(w) ==
  /\ worker[w].phase = "looking" /\ Claimable(w) = {}
  /\ Becomes(w, "idle")
  /\ NoFault
  /\ UNCHANGED <<deskVars, Rows, job, attempts, active, marks>>

\* The end of the loop body: _active_sessions.discard, for tracked jobs.
Leave(w) ==
  /\ worker[w].phase = "leaving"
  /\ active' = (active /\ IsSend(Working(w)))
  /\ worker' = [worker EXCEPT ![w] = Idle]
  /\ NoFault
  /\ UNCHANGED <<deskVars, Rows, job, attempts, marks>>

OneMore(n) == IF n > MaxAttempts THEN n ELSE n + 1

\* job.status = "done" and the commit.
Finish(w, jobs) ==
  /\ job' = [jobs EXCEPT ![Working(w)] = "done"]
  /\ attempts' = [attempts EXCEPT ![Working(w)] = OneMore(@)]

\* finalize_job_after_failure: the three types of job here are all resumable.
Finalize(w) ==
  LET n == OneMore(attempts[Working(w)])
  IN /\ attempts' = [attempts EXCEPT ![Working(w)] = n]
     /\ job' = [job EXCEPT ![Working(w)] =
                  IF n < MaxAttempts THEN "pending" ELSE "failed"]
     /\ Becomes(w, "leaving")

\* The failure is recorded, or recording it fails as well and the row stays
\* "processing" with nobody's heartbeat.
Fails(w) ==
  \/ Finalize(w)
  \/ /\ "orphan" \in Faults
     /\ Becomes(w, "leaving")
     /\ UNCHANGED <<job, attempts>>

\* History: the row has come to rest while no turn is running, so that nothing
\* looks for waiting messages any more.
CutOff(w) ==
  IF ~running /\ job'[Working(w)] \in {"done", "failed"} THEN {"cut"} ELSE {}
-----------------------------------------------------------------------------
(* session.process *)

Turning(w, m, phase) == worker[w].phase = phase /\ Working(w) = Process(m)

\* Slip: without the check for a final reply.
StartTurnUnchecked(w, m) ==
  /\ Turning(w, m, "claimed")
  /\ Becomes(w, "thinking")
  /\ NoFault
  /\ UNCHANGED <<deskVars, Rows, job, attempts, active, marks>>

\* Slip: the messages are drained once the model has been asked, not before.
ConsumeAsked(w, m, n) ==
  /\ Turning(w, m, "asked") /\ n \in Waiting(arrived)
  /\ owner' = [owner EXCEPT ![n] = m]
  /\ NoFault
  /\ UNCHANGED <<deskVars, arrived, open, running, job, attempts, worker, active,
                 finals, heard, marks>>

\* The messages that are m's turn to answer.
Own(m) == {n \in Msg : owner[n] = m}

\* process_session_job up to its check for a final reply of the same trigger, which looks
\* at the last 40 replies of the session: an older one is buried. A run asks anew.
StartTurn(w, m) ==
  /\ Turning(w, m, "claimed")
  /\ \/ finals[m] > 0 /\ NoFault /\ Becomes(w, "answered") /\ UNCHANGED <<heard, marks>>
     \/ finals[m] = 0 /\ NoFault /\ Becomes(w, "thinking")
        /\ heard' = heard \ Own(m) /\ UNCHANGED marks
     \/ finals[m] > 0 /\ Fault("buried") /\ Becomes(w, "thinking")
        /\ heard' = heard \ Own(m) /\ marks' = marks \cup {"buried"}
  /\ UNCHANGED <<deskVars, arrived, owner, open, running, finals, job, attempts, active>>

\* TurnInbox, before a round of the agent and after each of its tools: a message that
\* came in meanwhile joins the turn, in a commit of its own.
Consume(w, m, n) ==
  /\ Turning(w, m, "thinking") /\ n \in Waiting(arrived)
  /\ \A k \in Waiting(arrived) : n <= k
  /\ owner' = [owner EXCEPT ![n] = m]
  /\ NoFault
  /\ UNCHANGED <<deskVars, arrived, open, running, job, attempts, worker, active,
                 finals, heard, marks>>

\* A round of the agent: the model gets all messages of the turn.
Ask(w, m) ==
  /\ Turning(w, m, "thinking")
  /\ Becomes(w, "asked")
  /\ heard' = heard \cup Own(m)
  /\ NoFault
  /\ UNCHANGED <<deskVars, arrived, owner, open, running, finals, job, attempts, active, marks>>

\* The model calls for tools, or says no more than that it will begin: what follows is
\* another round, or the end of the loop.
UseTools(w, m) ==
  /\ Turning(w, m, "asked")
  /\ Becomes(w, "thinking")
  /\ NoFault
  /\ UNCHANGED <<deskVars, Rows, job, attempts, active, marks>>

\* _persist_and_queue_reply and its commit. The reply is what the model said; or a tool's
\* own text, the notice that the rounds are over or that the model is not available,
\* which are returned without asking with what was consumed since.
PersistFinal(w, m) ==
  /\ \/ Turning(w, m, "asked") /\ UNCHANGED marks
     \/ Turning(w, m, "thinking")
        /\ marks' = marks \cup (IF Own(m) \subseteq heard THEN {} ELSE {"unheard"})
  /\ finals[m] < 2
  /\ finals' = [finals EXCEPT ![m] = @ + 1]
  /\ job' = [job EXCEPT ![Send(<<m, finals[m] + 1>>)] = "pending"]
  /\ Becomes(w, "answered")
  /\ NoFault
  /\ UNCHANGED <<deskVars, arrived, owner, open, running, attempts, active, heard>>

\* The agent, or a commit before the final's, fails.
RunFails(w, m) ==
  /\ Turning(w, m, "thinking") \/ Turning(w, m, "asked")
  /\ Fault("run")
  /\ Fails(w) /\ marks' = marks \cup CutOff(w)
  /\ UNCHANGED <<deskVars, Rows, active>>

\* _safe_end_turn and the commit that makes the job done. The worker may have
\* read the session while it was still open.
EndTurn(w, m) ==
  /\ Turning(w, m, "answered")
  /\ \E seen \in {open, TRUE} : ScheduleFrom(seen, FALSE, arrived, marks)
  /\ Finish(w, Enqueued(job))
  /\ Becomes(w, "wake")
  /\ NoFault
  /\ UNCHANGED <<deskVars, arrived, open, active, finals, heard>>

\* end_turn fails twice: swallowed, and the turn stays "running".
TeardownFails(w, m) ==
  /\ Turning(w, m, "answered") /\ Fault("teardown")
  /\ Finish(w, job)
  /\ Becomes(w, "wake")
  /\ UNCHANGED <<deskVars, Rows, active, marks>>

\* The commit of the teardown and the job's status fails.
CommitFails(w, m) ==
  /\ Turning(w, m, "answered") /\ Fault("commit")
  /\ Fails(w) /\ marks' = marks \cup CutOff(w)
  /\ UNCHANGED <<deskVars, Rows, active>>

\* Slip: without the post-commit look.
NotRescheduled(w, m) ==
  /\ Turning(w, m, "wake")
  /\ Becomes(w, "leaving")
  /\ NoFault
  /\ UNCHANGED <<deskVars, Rows, job, attempts, active, marks>>

\* reschedule_session_after_turn, after the commit, in a session of its own.
Reschedule(w, m) ==
  /\ Turning(w, m, "wake")
  /\ ScheduleFrom(open, running, arrived, marks)
  /\ job' = Enqueued(job)
  /\ Becomes(w, "leaving")
  /\ NoFault
  /\ UNCHANGED <<deskVars, arrived, open, attempts, active, finals, heard>>

\* It raises; the handler takes it for a failure of the job.
RescheduleFails(w, m) ==
  /\ Turning(w, m, "wake") /\ Fault("wake")
  /\ Fails(w)
  /\ marks' = marks \cup CutOff(w)
                    \cup (IF WithStatus(ProcessJobs, "pending") # {} \/
                             WithStatus(ProcessJobs, "processing") # {}
                          THEN {"doubled"} ELSE {})
  /\ UNCHANGED <<deskVars, Rows, active>>
-----------------------------------------------------------------------------
(* session.close and reply.send *)

\* process_session_close_job: archive and review, which change nothing here.
CloseDone(w) ==
  /\ worker[w].phase = "claimed" /\ Working(w) = Close
  /\ \/ NoFault /\ Finish(w, job) /\ Becomes(w, "leaving")
     \/ Fault("run") /\ Fails(w)
  /\ UNCHANGED <<deskVars, Rows, active, marks>>

Sending(w, r, phase) == worker[w].phase = phase /\ Working(w) = Send(r)

\* send_channel_reply: the post reaches Pulse Web.
Post(w, r) ==
  /\ Sending(w, r, "claimed")
  /\ \/ Receive(r) /\ Becomes(w, "posting")
     \/ Deduplicate(r) /\ Becomes(w, "told")
  /\ marks' = marks \cup (IF r \in sending THEN {"assumed"} ELSE {})
  /\ NoFault
  /\ UNCHANGED <<Rows, job, attempts, active>>

\* Without PULSE_INTERNAL_TOKEN nothing is sent, and the job is done.
Skip(w, r) ==
  /\ Sending(w, r, "claimed") /\ Fault("tokenless")
  /\ Becomes(w, "told")
  /\ marks' = marks \cup {"skipped"}
  /\ UNCHANGED <<deskVars, Rows, job, attempts, active>>

\* The delivery ends and the waiting worker gets the answer.
Answer(r, phase) ==
  worker' = [w \in Worker |-> IF Sending(w, r, "posting")
                              THEN [worker[w] EXCEPT !.phase = phase] ELSE worker[w]]

Deliver(r) ==
  /\ Sent(r)
  /\ \/ NoFault /\ Answer(r, "told")
     \/ Fault("answer") /\ Answer(r, "refused")
  /\ UNCHANGED <<Rows, job, attempts, active, marks>>

DeliveryFails(r) ==
  /\ \/ NotSent(r) /\ Fault("send") /\ UNCHANGED marks
     \/ SentUnawares(r) /\ Fault("unsure") /\ marks' = marks \cup {"lapsed"}
     \/ CommitLost(r) /\ Fault("weblost") /\ marks' = marks \cup {"unsaved"}
  /\ Answer(r, "refused")
  /\ UNCHANGED <<Rows, job, attempts, active>>

\* The HTTP client's 30 seconds are over while Web still delivers.
StopWaiting(w, r) ==
  /\ Sending(w, r, "posting") /\ Fault("timeout")
  /\ Becomes(w, "refused")
  /\ UNCHANGED <<deskVars, Rows, job, attempts, active, marks>>

Unreachable(w, r) ==
  /\ Sending(w, r, "claimed") /\ Fault("unreachable")
  /\ Becomes(w, "refused")
  /\ UNCHANGED <<deskVars, Rows, job, attempts, active, marks>>

\* _handle_reply_send returns, or raises.
SendDone(w, r) ==
  /\ \/ Sending(w, r, "told") /\ Finish(w, job) /\ Becomes(w, "leaving")
     \/ Sending(w, r, "refused") /\ Finalize(w)
  /\ NoFault
  /\ UNCHANGED <<deskVars, Rows, active, marks>>
-----------------------------------------------------------------------------
(* Processes *)

\* The assistant dies and is started again. Before the reschedule of a turn that
\* has been committed this cuts the wake-up off.
Crash ==
  /\ Fault("crash")
  /\ worker' = [w \in Worker |-> IF worker[w] = Absent THEN Absent ELSE Idle]
  /\ active' = FALSE
  /\ marks' = IF \E w \in Worker : worker[w].phase = "wake"
              THEN marks \cup {"cut"} ELSE marks
  /\ UNCHANGED <<deskVars, Rows, job, attempts>>

WebRestart ==
  /\ Fault("restart")
  /\ DeskRestart
  /\ marks' = marks \cup (IF slot # {} THEN {"lapsed"} ELSE {})
  /\ worker' = [w \in Worker |-> IF worker[w].phase = "posting"
                                 THEN [worker[w] EXCEPT !.phase = "refused"]
                                 ELSE worker[w]]
  /\ UNCHANGED <<Rows, job, attempts, active>>

SlotExpires(r) ==
  /\ Fault("forget")
  /\ Forget(r)
  /\ marks' = marks \cup {"lapsed"}
  /\ UNCHANGED <<Rows, job, attempts, worker, active>>

\* What a thread does by itself.
WorkerStep(w) ==
  \/ Look(w) \/ (\E j \in Job : Claim(w, j)) \/ NothingToDo(w) \/ Leave(w)
  \/ \E m \in Msg : StartTurn(w, m) \/ Ask(w, m) \/ PersistFinal(w, m) \/ EndTurn(w, m)
                    \/ Reschedule(w, m)
  \/ CloseDone(w)
  \/ \E r \in Replies : Post(w, r) \/ SendDone(w, r)

Next ==
  \/ Arrive
  \/ CloseSession
  \/ \E w \in Worker :
       \/ WorkerStep(w)
       \/ RecoverTurn(w)
       \/ \E j \in Job : RecoverJob(w, j)
       \/ \E m \in Msg : \/ \E n \in Msg : Consume(w, m, n)
                         \/ UseTools(w, m) \/ RunFails(w, m) \/ TeardownFails(w, m)
                         \/ CommitFails(w, m) \/ RescheduleFails(w, m)
       \/ \E r \in Replies : StopWaiting(w, r) \/ Unreachable(w, r) \/ Skip(w, r)
  \/ \E r \in Replies : Deliver(r) \/ DeliveryFails(r) \/ SlotExpires(r)
  \/ Crash
  \/ WebRestart

Spec == Init /\ [][Next]_vars
-----------------------------------------------------------------------------
(* What must hold *)

\* A trigger gets one final reply (the idempotence check of process_session_job
\* "must not generate a second user-visible final") however often its job runs
\* again after failures and crashes; a second needs a running worker taken for dead, or a
\* first that forty later replies of the session have buried.
OneFinal == \A m \in Msg : finals[m] > 1 => {"overtaken", "buried"} \cap marks # {}

\* A message waiting in an open session has something that will pick it up: a turn
\* marked running, a process job, or a worker about to look; except where a crash (or
\* the last failure of a job) has cut the look off after the turn was committed.
NotStranded ==
  Waiting(arrived) # {} /\ open /\ "cut" \notin marks =>
    \/ running
    \/ WithStatus(ProcessJobs, "processing") # {}
    \/ WithStatus(ProcessJobs, "pending") # {}
    \/ \E w \in Worker : worker[w].phase = "wake"

\* The turns of a session are worked on one at a time, whatever workers saw when
\* they copied the set of active sessions; unless a job came beside one still pending, which
\* the status check of try_schedule_next_turn does not see, or came back after a failed wake-up.
TurnsSerial ==
  {"doubled", "overtaken"} \cap marks = {} =>
    Cardinality({w \in Worker : \E m \in Msg, p \in {"claimed", "thinking", "asked", "answered"} :
                                  Turning(w, m, p)}) <= 1

\* Stated of the worker (worker.py:110): a reply job is marked done only for a reply
\* that has reached the user or is on its way; a failed delivery is not taken for a sent
\* one by its retry.
NoSilentLoss ==
  \A r \in Replies : job[Send(r)] = "done" => delivered[r] > 0 \/ r \in sending

\* A reply job is done without its reply having reached the user only if a retry was
\* told "sent" while the first delivery was still running (internal_channel_api.py:65),
\* Web lost a commit after delivering to its own channel, or nothing is ever sent.
NoOtherLoss ==
  \A r \in Replies : job[Send(r)] = "done" =>
    delivered[r] > 0 \/ {"assumed", "unsaved", "skipped"} \cap marks # {}

\* A reply reaches the user twice only if Web lost its memory of it, by a restart,
\* by age, or by a channel that delivers and reports failure.
DeliveredOnce == \A r \in Replies : delivered[r] > 1 => "lapsed" \in marks

\* The model wrote its reply with every message of the turn before it, across drains,
\* tools, failures and retries: none is marked as handled by a turn that did not hear it.
\* It is not so where the reply is a tool's own text, or says that the rounds are over or
\* the model not available (agent_runtime.py:318-328): the marks tell when one was missed.
NothingSwallowed ==
  \A m \in Msg : finals[m] > 0 /\ {"overtaken", "buried", "unheard"} \cap marks = {} =>
    Own(m) \subseteq heard

-----------------------------------------------------------------------------
(* Liveness *)

\* Threads and request handlers go on, and the rounds of an agent are limited. Stale
\* jobs and turns are looked for in every round of the keeper, and time passes, so a
\* recovery that stays possible round after round is made: strong fairness. Nobody need
\* send anything or close.
Fairness ==
  /\ \A w \in Worker : WF_vars(WorkerStep(w)) /\ WF_vars(\E m \in Msg : PersistFinal(w, m))
  /\ WF_vars(\E r \in Replies : Deliver(r))
  /\ SF_vars(\E j \in Job : RecoverJob(Keeper, j) /\ ~Owned(j))
  /\ SF_vars(RecoverTurn(Keeper))

FairSpec == Spec /\ Fairness

\* The turn that took the message in has failed for good, or its final reply has been
\* sent or given up after the last attempt.
Settled(m) ==
  /\ Handled(m)
  /\ \/ job[Process(owner[m])] = "failed"
     \/ job[Send(<<owner[m], 1>>)] \in {"done", "failed"}

\* The turn of every message comes to its end, with a reply sent or given up or a job
\* that failed for good, through failing runs, commits and
\* deliveries, lost answers and crashes, unless its session closes or its wake-up
\* was cut off.
EveryMessageSettles ==
  \A m \in Msg : m <= arrived ~> Settled(m) \/ ~open \/ "cut" \in marks
=============================================================================
