---------------------------- MODULE TurnsProofs ----------------------------
(***************************************************************************)
(* What holds of a chat session for every number of messages, workers,     *)
(* retries and faults: its types, and the invariants behind one final      *)
(* reply per trigger, one turn at a time, no message stranded, none        *)
(* answered unheard but where the agent loop returns without asking,       *)
(* replies that arrive once, and the three ways a reply gets lost.         *)
(***************************************************************************)
EXTENDS Turns, FiniteSetTheorems, TLAPS

USE TurnsAssumption

\* Every set of naturals with an element has a smallest one.
LEMMA LeastElement ==
  ASSUME NEW T \in SUBSET Nat, NEW n \in T
  PROVE  \E x \in T : \A y \in T : x <= y
<1> DEFINE Less == {s \in Nat \X Nat : s[1] < s[2]}
<1>1. IsWellFoundedOn(Less, Nat)
  BY NatLessThanWellFounded DEF OpToRel
<1>2. \A x, y \in Nat : y < x => <<y, x>> \in Less
  OBVIOUS
<1> HIDE DEF Less
<1>3. PICK x \in T : \A y \in T : ~(<<y, x>> \in Less)
  BY <1>1, WFMin
<1>4. \A y \in T : ~(y < x)
  BY <1>2, <1>3, Zenon
<1> QED BY <1>4

\* Jobs of messages, of replies and of the closing are different jobs.
LEMMA JobFacts ==
  /\ \A m \in Msg : Process(m) \in Job /\ Process(m) \in ProcessJobs /\ ~IsSend(Process(m))
  /\ \A r \in Replies : Send(r) \in Job /\ IsSend(Send(r)) /\ Send(r) \notin ProcessJobs
  /\ Close \in Job /\ Close \notin ProcessJobs /\ ~IsSend(Close)
  /\ \A m, n \in Msg : Process(m) = Process(n) => m = n
  /\ \A r, s \in Replies : Send(r) = Send(s) => r = s
  /\ \A j \in ProcessJobs : \E m \in Msg : j = Process(m)
  /\ \A j \in Job : IsSend(j) => \E r \in Replies : j = Send(r)
  /\ \A j \in Job : j \in ProcessJobs \/ IsSend(j) \/ j = Close
  /\ ProcessJobs \subseteq Job
  /\ \A m \in Msg, n \in 1..2 : <<m, n>> \in Replies
BY DEF Process, Send, Close, ProcessJobs, IsSend, Job, Replies

\* try_schedule_next_turn either changes nothing but the turn's status, or makes one
\* pending job for one message nobody had taken.
LEMMA Scheduling ==
  ASSUME TurnsTypeOK, NEW o \in BOOLEAN, NEW r \in BOOLEAN, NEW n \in 0..NMsg,
         ScheduleFrom(o, r, n, marks)
  PROVE  \/ /\ ~o \/ r \/ Waiting(n) = {} \/ WithStatus(ProcessJobs, "processing") # {}
            /\ running' = r /\ owner' = owner /\ marks' = marks
            /\ Enqueued(job) = job
         \/ \E m \in Msg :
            /\ o /\ ~r /\ m \in 1..n /\ owner[m] = 0
            /\ WithStatus(ProcessJobs, "processing") = {}
            /\ running' = TRUE /\ owner' = [owner EXCEPT ![m] = m]
            /\ marks' = marks \cup (IF WithStatus(ProcessJobs, "pending") # {}
                                THEN {"doubled"} ELSE {})
            /\ Enqueued(job) = [job EXCEPT ![Process(m)] = "pending"]
<1>1. owner \in [Msg -> 0..NMsg] /\ job \in [Job -> Statuses]
  BY DEF TurnsTypeOK
<1> DEFINE eligible == o /\ ~r /\ Waiting(n) # {} /\ WithStatus(ProcessJobs, "processing") = {}
           first == CHOOSE m \in Waiting(n) : \A i \in Waiting(n) : m <= i
<1>2. CASE ~eligible
  <2>1. running' = r /\ owner' = owner /\ marks' = marks
    BY <1>2 DEF ScheduleFrom
  <2>2. \A j \in Job : ~\E m \in Msg : j = Process(m) /\ owner[m] = 0 /\ owner'[m] = m
    BY <2>1 DEF Msg
  <2>3. Enqueued(job) = job
    BY <1>1, <2>2 DEF Enqueued
  <2> QED BY <1>2, <2>1, <2>3
<1>3. CASE eligible
  <2>1. Waiting(n) \in SUBSET Nat /\ Waiting(n) \subseteq Msg /\ Waiting(n) \subseteq 1..n
    BY DEF Waiting, Msg
  <2>2. first \in Waiting(n)
    <3>1. PICK w \in Waiting(n) : TRUE
      BY <1>3
    <3>2. \E m \in Waiting(n) : \A i \in Waiting(n) : m <= i
      BY <2>1, <3>1, LeastElement
    <3> QED BY <3>2
  <2>3. /\ running' = TRUE /\ owner' = [owner EXCEPT ![first] = first]
        /\ marks' = marks \cup (IF WithStatus(ProcessJobs, "pending") # {} THEN {"doubled"} ELSE {})
    BY <1>3 DEF ScheduleFrom
  <2> HIDE DEF first
  <2>4. first \in Msg /\ first \in 1..n /\ owner[first] = 0
    BY <2>1, <2>2 DEF Waiting, Handled
  <2>5. \A m \in Msg : owner[m] = 0 /\ owner'[m] = m <=> m = first
    BY <1>1, <2>3, <2>4 DEF Msg
  <2>6. \A j \in Job : (\E m \in Msg : j = Process(m) /\ owner[m] = 0 /\ owner'[m] = m)
                          <=> j = Process(first)
    BY <2>5, <2>4
  <2>7. Enqueued(job) = [job EXCEPT ![Process(first)] = "pending"]
    BY <1>1, <2>6 DEF Enqueued
  <2> QED BY <1>3, <2>3, <2>4, <2>7
<1> QED BY <1>2, <1>3

\* What it writes is well typed.
LEMMA ScheduleTypes ==
  ASSUME TurnsTypeOK, NEW o \in BOOLEAN, NEW r \in BOOLEAN, NEW n \in 0..NMsg,
         ScheduleFrom(o, r, n, marks)
  PROVE  /\ owner' \in [Msg -> 0..NMsg] /\ running' \in BOOLEAN
         /\ marks' \subseteq MarkKinds
         /\ Enqueued(job) \in [Job -> Statuses]
<1>1. /\ owner \in [Msg -> 0..NMsg] /\ job \in [Job -> Statuses] /\ "pending" \in Statuses
      /\ marks \subseteq MarkKinds /\ "doubled" \in MarkKinds
  BY DEF TurnsTypeOK, Statuses, MarkKinds
<1>2. CASE running' = r /\ owner' = owner /\ marks' = marks /\ Enqueued(job) = job
  BY <1>1, <1>2
<1>3. ASSUME NEW m \in Msg, running' = TRUE, owner' = [owner EXCEPT ![m] = m],
             marks' = marks \cup (IF WithStatus(ProcessJobs, "pending") # {}
                                  THEN {"doubled"} ELSE {}),
             Enqueued(job) = [job EXCEPT ![Process(m)] = "pending"]
      PROVE  /\ owner' \in [Msg -> 0..NMsg] /\ running' \in BOOLEAN
             /\ marks' \subseteq MarkKinds
             /\ Enqueued(job) \in [Job -> Statuses]
  <2>1. m \in 0..NMsg
    BY DEF Msg
  <2> QED BY <1>1, <1>3, <2>1
<1> QED BY <1>2, <1>3, Scheduling

\* What a worker is doing, and for which job.
Thread == [phase : Phases, job : Job \cup {NoWorkerJob}, blocked : BOOLEAN]

\* Workers stay workers when they go from one phase to another.
LEMMA ThreadTypes ==
  ASSUME TurnsTypeOK
  PROVE  /\ worker \in [Worker -> Thread]
         /\ \A w \in Worker : worker[w] \in Thread /\ Working(w) \in Job \cup {NoWorkerJob}
         /\ Idle \in Thread /\ Absent \in Thread
         /\ \A w \in Worker, phase \in Phases :
              Becomes(w, phase) => worker' \in [Worker -> Thread]
<1>1. worker \in [Worker -> Thread]
  BY DEF TurnsTypeOK, Thread
<1>2. \A w \in Worker : worker[w] \in Thread /\ Working(w) \in Job \cup {NoWorkerJob}
  BY <1>1 DEF Thread, Working
<1>3. Idle \in Thread /\ Absent \in Thread
  BY DEF Idle, Absent, Thread, Phases
<1>4. ASSUME NEW w \in Worker, NEW phase \in Phases, Becomes(w, phase)
      PROVE  worker' \in [Worker -> Thread]
  <2> DEFINE t == [worker[w] EXCEPT !.phase = phase]
  <2>1. t \in Thread
    BY <1>2 DEF Thread
  <2>2. worker' = [worker EXCEPT ![w] = t]
    BY <1>4 DEF Becomes
  <2> HIDE DEF t
  <2> QED BY <1>1, <2>1, <2>2
<1> QED BY <1>1, <1>2, <1>3, <1>4

\* A job that ends or goes back is well typed.
LEMMA FinishTypes ==
  ASSUME TurnsTypeOK, NEW w \in Worker, NEW jobs \in [Job -> Statuses]
  PROVE  /\ Finish(w, jobs) => job' \in [Job -> Statuses] /\ attempts' \in [Job -> 0..MaxAttempts + 1]
         /\ Finalize(w) => /\ job' \in [Job -> Statuses] /\ attempts' \in [Job -> 0..MaxAttempts + 1]
                           /\ worker' \in [Worker -> Thread]
         /\ Fails(w) => /\ job' \in [Job -> Statuses] /\ attempts' \in [Job -> 0..MaxAttempts + 1]
                        /\ worker' \in [Worker -> Thread]
<1>1. \A n \in 0..MaxAttempts + 1 : OneMore(n) \in 0..MaxAttempts + 1
  BY DEF OneMore
<1>2. /\ job \in [Job -> Statuses] /\ attempts \in [Job -> 0..MaxAttempts + 1]
      /\ "leaving" \in Phases /\ {"done", "pending", "failed"} \subseteq Statuses
  BY DEF TurnsTypeOK, Phases, Statuses
<1>3. Finish(w, jobs) => job' \in [Job -> Statuses] /\ attempts' \in [Job -> 0..MaxAttempts + 1]
  <2>1. CASE Working(w) \in Job
    <3>1. OneMore(attempts[Working(w)]) \in 0..MaxAttempts + 1
      BY <1>1, <1>2, <2>1
    <3> QED BY <1>2, <3>1 DEF Finish
  <2>2. CASE Working(w) \notin Job
    BY ZenonT(40), <1>2, <2>2 DEF Finish
  <2> QED BY <2>1, <2>2
<1>4. ASSUME Finalize(w)
      PROVE  /\ job' \in [Job -> Statuses] /\ attempts' \in [Job -> 0..MaxAttempts + 1]
             /\ worker' \in [Worker -> Thread]
  <2>1. CASE Working(w) \in Job
    <3>1. OneMore(attempts[Working(w)]) \in 0..MaxAttempts + 1
      BY <1>1, <1>2, <2>1
    <3> QED BY <1>2, <1>4, <3>1, ThreadTypes DEF Finalize
  <2>2. CASE Working(w) \notin Job
    BY <1>2, <1>4, <2>2, ThreadTypes DEF Finalize
  <2> QED BY <2>1, <2>2
<1>5. ASSUME Fails(w)
      PROVE  /\ job' \in [Job -> Statuses] /\ attempts' \in [Job -> 0..MaxAttempts + 1]
             /\ worker' \in [Worker -> Thread]
  BY <1>2, <1>4, <1>5, ThreadTypes DEF Fails
<1> QED BY <1>3, <1>4, <1>5

\* A fresh session is well typed.
LEMMA InitTypes == Init => TurnsTypeOK
<1> SUFFICES ASSUME Init PROVE TurnsTypeOK
  OBVIOUS
<1>1. DeskTypeOK
  BY DEF Init, FreshSession, DeskInit, DeskTypeOK
<1>2. PICK pool \in Pools : worker = [w \in Worker |-> IF w \in pool THEN Idle ELSE Absent]
  BY DEF Init, FreshSession
<1>3. Idle \in Thread /\ Absent \in Thread
  BY DEF Idle, Absent, Thread, Phases
<1>4. worker \in [Worker -> Thread]
  BY <1>2, <1>3
<1>5. /\ "none" \in Statuses /\ arrived = 0 /\ spent = 0 /\ marks = {} /\ open = TRUE
      /\ running = FALSE /\ active = FALSE /\ finals = [m \in Msg |-> 0] /\ heard = {}
      /\ owner = [m \in Msg |-> 0] /\ job = [j \in Job |-> "none"] /\ attempts = [j \in Job |-> 0]
  BY DEF Init, FreshSession, Statuses
<1>6. /\ finals \in [Msg -> 0..2] /\ owner \in [Msg -> 0..NMsg]
      /\ job \in [Job -> Statuses] /\ attempts \in [Job -> 0..MaxAttempts + 1]
  BY <1>5
<1>7. 0 \in 0..NMsg /\ 0 \in 0..MaxFaults
  OBVIOUS
<1> QED BY <1>1, <1>4, <1>5, <1>6, <1>7 DEF TurnsTypeOK, Thread

\* Every step keeps the types.
LEMMA TypeStep == TurnsTypeOK /\ [Next]_vars => TurnsTypeOK'
<1> SUFFICES ASSUME TurnsTypeOK, [Next]_vars PROVE TurnsTypeOK'
  OBVIOUS
<1> DEFINE JobTypes(j) == j \in [Job -> Statuses]
           AttemptTypes(a) == a \in [Job -> 0..MaxAttempts + 1]
           RowTypes == /\ arrived' \in 0..NMsg /\ owner' \in [Msg -> 0..NMsg]
                       /\ open' \in BOOLEAN /\ running' \in BOOLEAN
                       /\ finals' \in [Msg -> 0..2] /\ heard' \subseteq Msg
           MarkTypes == marks' \subseteq MarkKinds
           Schedule == /\ owner' \in [Msg -> 0..NMsg] /\ running' \in BOOLEAN /\ MarkTypes
                       /\ JobTypes(Enqueued(job))
<1>1. /\ worker \in [Worker -> Thread] /\ JobTypes(job) /\ AttemptTypes(attempts)
      /\ arrived \in 0..NMsg /\ owner \in [Msg -> 0..NMsg] /\ open \in BOOLEAN
      /\ running \in BOOLEAN /\ active \in BOOLEAN /\ finals \in [Msg -> 0..2]
      /\ heard \subseteq Msg /\ spent \in 0..MaxFaults /\ DeskTypeOK
      /\ marks \subseteq MarkKinds
  BY ThreadTypes DEF TurnsTypeOK
<1>2. ASSUME worker' \in [Worker -> Thread], JobTypes(job'), AttemptTypes(attempts'),
             RowTypes, active' \in BOOLEAN, MarkTypes, spent' \in 0..MaxFaults, DeskTypeOK'
      PROVE  TurnsTypeOK'
  BY <1>2 DEF TurnsTypeOK, Thread
<1>3. ASSUME NEW o \in BOOLEAN, NEW r \in BOOLEAN, NEW n \in 0..NMsg, ScheduleFrom(o, r, n, marks)
      PROVE  Schedule
  BY <1>3, ScheduleTypes
<1>4. (UNCHANGED Rows => RowTypes) /\ (UNCHANGED deskVars => DeskTypeOK')
  BY <1>1 DEF Rows, deskVars, DeskTypeOK
<1>5. (NoFault => spent' \in 0..MaxFaults) /\ \A kind : Fault(kind) => spent' \in 0..MaxFaults
  BY <1>1 DEF NoFault, Fault
<1>6. /\ \A w \in Worker : CutOff(w) \subseteq {"cut"}
      /\ {"cut"} \subseteq MarkKinds /\ {"overtaken"} \subseteq MarkKinds
      /\ {"buried"} \subseteq MarkKinds /\ {"unheard"} \subseteq MarkKinds
      /\ {"lapsed"} \subseteq MarkKinds /\ {"doubled"} \subseteq MarkKinds
      /\ {"assumed"} \subseteq MarkKinds /\ {"unsaved"} \subseteq MarkKinds
      /\ {"skipped"} \subseteq MarkKinds
  BY DEF CutOff, MarkKinds
<1>7. CASE Arrive
  <2>1. PICK reset \in {FALSE, TurnIsStale} : ScheduleFrom(TRUE, running /\ ~reset, arrived + 1, marks)
    BY <1>7 DEF Arrive
  <2>2. arrived + 1 \in 0..NMsg /\ (running /\ ~reset) \in BOOLEAN
    BY <1>1, <1>7 DEF Arrive
  <2>3. Schedule
    BY <1>3, <2>1, <2>2
  <2> QED BY <1>1, <1>2, <1>4, <1>5, <1>7, <2>2, <2>3 DEF Arrive
<1>8. CASE CloseSession
  <2>1. "pending" \in Statuses
    BY DEF Statuses
  <2> QED BY <1>1, <1>2, <1>4, <1>5, <1>8, <2>1 DEF CloseSession
<1>9. ASSUME NEW w \in Worker, WorkerStep(w) PROVE TurnsTypeOK'
  <2>0. /\ {"idle", "looking", "claimed", "thinking", "asked", "answered", "wake", "leaving",
            "posting", "told"} \subseteq Phases
        /\ {"pending", "processing"} \subseteq Statuses
    BY DEF Phases, Statuses
  <2>1. CASE Look(w)
    <3> DEFINE t == [worker[w] EXCEPT !.phase = "looking", !.blocked = active]
    <3>1. t \in Thread
      <4>1. "looking" \in Phases /\ worker[w] \in Thread
        BY ThreadTypes DEF Phases
      <4> QED BY <1>1, <4>1 DEF Thread
    <3>2. worker' = [worker EXCEPT ![w] = t]
      BY <2>1 DEF Look
    <3> HIDE DEF t
    <3>3. worker' \in [Worker -> Thread]
      BY <1>1, <3>1, <3>2
    <3> QED BY <1>1, <1>2, <1>4, <1>5, <2>1, <3>3 DEF Look
  <2>2. ASSUME NEW j \in Job, Claim(w, j) PROVE TurnsTypeOK'
    <3>1. active' \in BOOLEAN
      BY <1>1, <2>2 DEF Claim
    <3>2. JobTypes(job') /\ worker' \in [Worker -> Thread]
      <4> DEFINE t == [worker[w] EXCEPT !.phase = "claimed", !.job = j]
      <4>1. t \in Thread
        <5>1. "claimed" \in Phases /\ worker[w] \in Thread
          BY ThreadTypes DEF Phases
        <5> QED BY <5>1 DEF Thread
      <4>2. worker' = [worker EXCEPT ![w] = t]
        BY <2>2 DEF Claim
      <4> HIDE DEF t
      <4>3. job' = [job EXCEPT ![j] = "processing"] /\ "processing" \in Statuses
        BY <2>2 DEF Claim, Statuses
      <4> QED BY <1>1, <4>1, <4>2, <4>3
    <3> QED BY <1>1, <1>2, <1>4, <1>5, <2>2, <3>1, <3>2 DEF Claim
  <2>3. CASE NothingToDo(w)
    BY <1>1, <1>2, <1>4, <1>5, <2>0, <2>3, ThreadTypes DEF NothingToDo
  <2>4. CASE Leave(w)
    <3>1. active' \in BOOLEAN
      BY <1>1, <2>4 DEF Leave
    <3>2. worker' \in [Worker -> Thread]
      BY <1>1, <2>4, ThreadTypes DEF Leave
    <3> QED BY <1>1, <1>2, <1>4, <1>5, <2>4, <3>1, <3>2 DEF Leave
  <2>5. ASSUME NEW m \in Msg, StartTurn(w, m) PROVE TurnsTypeOK'
    <3>1. worker' \in [Worker -> Thread]
      BY <2>0, <2>5, ThreadTypes DEF StartTurn
    <3>2. RowTypes /\ spent' \in 0..MaxFaults
      BY <1>1, <1>5, <2>5 DEF StartTurn
    <3>3. MarkTypes
      BY <1>1, <1>6, <2>5 DEF StartTurn
    <3> QED BY <1>1, <1>2, <1>4, <2>5, <3>1, <3>2, <3>3 DEF StartTurn
  <2>12. ASSUME NEW m \in Msg, Ask(w, m) PROVE TurnsTypeOK'
    <3>1. worker' \in [Worker -> Thread]
      BY <2>0, <2>12, ThreadTypes DEF Ask
    <3>2. RowTypes
      BY <1>1, <2>12 DEF Ask, Own
    <3> QED BY <1>1, <1>2, <1>4, <1>5, <2>12, <3>1, <3>2 DEF Ask
  <2>6. ASSUME NEW m \in Msg, PersistFinal(w, m) PROVE TurnsTypeOK'
    <3>1. RowTypes
      BY <1>1, <2>6 DEF PersistFinal
    <3>2. JobTypes(job') /\ worker' \in [Worker -> Thread]
      BY <1>1, <2>0, <2>6, ThreadTypes DEF PersistFinal
    <3>3. MarkTypes
      BY <1>1, <1>6, <2>6 DEF PersistFinal
    <3> QED BY <1>1, <1>2, <1>4, <1>5, <2>6, <3>1, <3>2, <3>3 DEF PersistFinal
  <2>7. ASSUME NEW m \in Msg, EndTurn(w, m) PROVE TurnsTypeOK'
    <3>1. Schedule
      <4>1. PICK seen \in {open, TRUE} : ScheduleFrom(seen, FALSE, arrived, marks)
        BY <2>7 DEF EndTurn
      <4>2. seen \in BOOLEAN /\ FALSE \in BOOLEAN /\ arrived \in 0..NMsg
        BY <1>1
      <4> HIDE DEF Schedule
      <4> QED BY <1>3, <4>1, <4>2
    <3>2. JobTypes(job') /\ AttemptTypes(attempts')
      BY <2>7, <3>1, FinishTypes DEF EndTurn
    <3> QED BY <1>1, <1>2, <1>4, <1>5, <2>0, <2>7, <3>1, <3>2, ThreadTypes DEF EndTurn
  <2>8. ASSUME NEW m \in Msg, Reschedule(w, m) PROVE TurnsTypeOK'
    <3>1. Schedule
      BY <1>1, <1>3, <2>8 DEF Reschedule
    <3> QED BY <1>1, <1>2, <1>4, <1>5, <2>0, <2>8, <3>1, ThreadTypes DEF Reschedule
  <2>9. CASE CloseDone(w)
    <3>1. JobTypes(job') /\ AttemptTypes(attempts') /\ worker' \in [Worker -> Thread]
      BY <1>1, <2>0, <2>9, FinishTypes, ThreadTypes DEF CloseDone
    <3> QED BY <1>1, <1>2, <1>4, <1>5, <2>9, <3>1 DEF CloseDone
  <2>10. ASSUME NEW r \in Replies, Post(w, r) PROVE TurnsTypeOK'
    <3>1. DeskTypeOK'
      BY <1>1, <1>4, <2>10 DEF Post, Receive, Deduplicate, DeskTypeOK
    <3>2. worker' \in [Worker -> Thread]
      BY <2>0, <2>10, ThreadTypes DEF Post
    <3>3. MarkTypes
      BY <1>1, <1>6, <2>10 DEF Post
    <3> QED BY <1>1, <1>2, <1>4, <1>5, <2>10, <3>1, <3>2, <3>3 DEF Post
  <2>11. ASSUME NEW r \in Replies, SendDone(w, r) PROVE TurnsTypeOK'
    <3>1. JobTypes(job') /\ AttemptTypes(attempts') /\ worker' \in [Worker -> Thread]
      BY <1>1, <2>0, <2>11, FinishTypes, ThreadTypes DEF SendDone
    <3> QED BY <1>1, <1>2, <1>4, <1>5, <2>11, <3>1 DEF SendDone
  <2> QED BY <1>9, <2>1, <2>2, <2>3, <2>4, <2>5, <2>6, <2>7, <2>8, <2>9, <2>10, <2>11, <2>12
          DEF WorkerStep
<1>10. ASSUME NEW w \in Worker, RecoverTurn(w) PROVE TurnsTypeOK'
  <2>1. Schedule
    BY <1>1, <1>3, <1>10 DEF RecoverTurn
  <2> QED BY <1>1, <1>2, <1>4, <1>5, <1>10, <2>1 DEF RecoverTurn
<1>11. ASSUME NEW w \in Worker, NEW j \in Job, RecoverJob(w, j) PROVE TurnsTypeOK'
  <2>1. "pending" \in Statuses
    BY DEF Statuses
  <2>2. JobTypes(job') /\ MarkTypes /\ spent' \in 0..MaxFaults
    BY <1>1, <1>5, <1>6, <1>11, <2>1 DEF RecoverJob
  <2> QED BY <1>1, <1>2, <1>4, <1>11, <2>2 DEF RecoverJob
<1>12. ASSUME NEW w \in Worker, NEW m \in Msg, NEW n \in Msg, Consume(w, m, n) PROVE TurnsTypeOK'
  <2>1. owner' \in [Msg -> 0..NMsg]
    BY <1>1, <1>12 DEF Consume, Msg
  <2> QED BY <1>1, <1>2, <1>4, <1>5, <1>12, <2>1 DEF Consume
<1>13. ASSUME NEW w \in Worker, NEW m \in Msg, RunFails(w, m) \/ CommitFails(w, m) \/ RescheduleFails(w, m)
       PROVE TurnsTypeOK'
  <2>1. Fails(w) /\ UNCHANGED <<deskVars, Rows, active>> /\ spent' \in 0..MaxFaults
    BY <1>5, <1>13 DEF RunFails, CommitFails, RescheduleFails
  <2>2. MarkTypes
    BY <1>1, <1>6, <1>13 DEF RunFails, CommitFails, RescheduleFails
  <2>3. JobTypes(job') /\ AttemptTypes(attempts') /\ worker' \in [Worker -> Thread]
    BY <1>1, <2>1, FinishTypes
  <2> QED BY <1>1, <1>2, <1>4, <2>1, <2>2, <2>3
<1>14. ASSUME NEW w \in Worker, NEW m \in Msg, TeardownFails(w, m) PROVE TurnsTypeOK'
  <2>1. "wake" \in Phases
    BY DEF Phases
  <2>2. JobTypes(job') /\ AttemptTypes(attempts') /\ worker' \in [Worker -> Thread]
    BY <1>1, <1>14, <2>1, FinishTypes, ThreadTypes DEF TeardownFails
  <2> QED BY <1>1, <1>2, <1>4, <1>5, <1>14, <2>2 DEF TeardownFails
<1>15. ASSUME NEW w \in Worker, NEW r \in Replies, StopWaiting(w, r) \/ Unreachable(w, r) \/ Skip(w, r)
       PROVE TurnsTypeOK'
  <2>1. "refused" \in Phases /\ "told" \in Phases
    BY DEF Phases
  <2>2. worker' \in [Worker -> Thread] /\ MarkTypes
    BY <1>1, <1>6, <1>15, <2>1, ThreadTypes DEF StopWaiting, Unreachable, Skip
  <2> QED BY <1>1, <1>2, <1>4, <1>5, <1>15, <2>2 DEF StopWaiting, Unreachable, Skip
<1>22. ASSUME NEW w \in Worker, NEW m \in Msg, UseTools(w, m) PROVE TurnsTypeOK'
  <2>1. "thinking" \in Phases
    BY DEF Phases
  <2> QED BY <1>1, <1>2, <1>4, <1>5, <1>22, <2>1, ThreadTypes DEF UseTools
<1>16. ASSUME NEW r \in Replies, NEW phase \in Phases, Answer(r, phase)
       PROVE worker' \in [Worker -> Thread]
  BY <1>1, <1>16 DEF Answer, Thread
<1>17. ASSUME NEW r \in Replies, Deliver(r) \/ DeliveryFails(r) PROVE TurnsTypeOK'
  <2>1. {"refused", "told"} \subseteq Phases
    BY DEF Phases
  <2>2. DeskTypeOK'
    BY <1>1, <1>17 DEF Deliver, DeliveryFails, DeskTypeOK, Sent, NotSent, SentUnawares, CommitLost
  <2>3. worker' \in [Worker -> Thread]
    BY <1>16, <1>17, <2>1 DEF Deliver, DeliveryFails
  <2>4. spent' \in 0..MaxFaults /\ MarkTypes
    BY <1>1, <1>5, <1>6, <1>17 DEF Deliver, DeliveryFails
  <2> QED BY <1>1, <1>2, <1>4, <1>17, <2>2, <2>3, <2>4 DEF Deliver, DeliveryFails
<1>18. ASSUME NEW r \in Replies, SlotExpires(r) PROVE TurnsTypeOK'
  <2>1. DeskTypeOK'
    BY <1>1, <1>18 DEF SlotExpires, DeskTypeOK, Forget
  <2> QED BY <1>1, <1>2, <1>4, <1>5, <1>6, <1>18, <2>1 DEF SlotExpires
<1>19. CASE Crash
  <2>1. worker' \in [Worker -> Thread]
    BY <1>1, <1>19, ThreadTypes DEF Crash
  <2>2. MarkTypes
    BY <1>1, <1>6, <1>19 DEF Crash
  <2> QED BY <1>1, <1>2, <1>4, <1>5, <1>19, <2>1, <2>2 DEF Crash
<1>20. CASE WebRestart
  <2>1. DeskTypeOK'
    BY <1>1, <1>20 DEF WebRestart, DeskTypeOK, DeskRestart
  <2>2. "refused" \in Phases
    BY DEF Phases
  <2>3. worker' \in [Worker -> Thread]
    BY <1>1, <1>20, <2>2 DEF WebRestart, Thread
  <2>4. MarkTypes
    BY <1>1, <1>6, <1>20 DEF WebRestart
  <2> QED BY <1>1, <1>2, <1>4, <1>5, <1>20, <2>1, <2>3, <2>4 DEF WebRestart
<1>21. CASE UNCHANGED vars
  BY <1>1, <1>2, <1>4, <1>21 DEF vars, turnVars
<1> QED BY <1>7, <1>8, <1>9, <1>10, <1>11, <1>12, <1>13, <1>14, <1>15, <1>17, <1>18, <1>19,
           <1>20, <1>21, <1>22 DEF Next

\* Type correctness of the session, the job table, its workers and Web's delivery slots.
THEOREM TypeCorrect == Spec => []TurnsTypeOK
BY InitTypes, TypeStep, PTL DEF Spec

-----------------------------------------------------------------------------

\* A worker has a job exactly while it works on one, of the kind its phase is about.
Fit(t) ==
  /\ (t.phase \in {"absent", "idle", "looking"}) <=> (t.job = NoWorkerJob)
  /\ t.phase \in {"thinking", "asked", "answered", "wake"} => t.job \in ProcessJobs
  /\ t.phase \in {"posting", "told", "refused"} => IsSend(t.job)

\* Nobody works on a row that does not exist.
WorkersFit ==
  \A w \in Worker : /\ Fit(worker[w])
                    /\ Working(w) # NoWorkerJob => job[Working(w)] # "none"

\* Rows come into being in order: a process job with the message it was scheduled for, a
\* final reply after it, the job that sends it with the reply; the closing job once the
\* session is closed.
RowsFit ==
  /\ open => job[Close] = "none"
  /\ \A m \in Msg : /\ owner[m] = 0 => job[Process(m)] = "none"
                    /\ job[Process(m)] = "none" => finals[m] = 0
                    /\ \A n \in 1..2 : finals[m] < n => job[Send(<<m, n>>)] = "none"

\* Workers, job rows, messages and replies agree.
Coherent == WorkersFit /\ RowsFit

\* Steps that make no row keep the rows coherent.
LEMMA RowsKept ==
  ASSUME RowsFit, UNCHANGED Rows, \A j \in Job : job'[j] = "none" <=> job[j] = "none"
  PROVE  RowsFit'
BY JobFacts DEF RowsFit, Rows

\* So do steps that write none of what the rows are about.
LEMMA RowsStay ==
  ASSUME RowsFit, UNCHANGED <<owner, open, finals, job>>
  PROVE  RowsFit'
BY DEF RowsFit

\* Workers that keep or drop their job stay coherent with rows that are never deleted.
LEMMA WorkersKept ==
  ASSUME TurnsTypeOK, WorkersFit, \A j \in Job : job[j] # "none" => job'[j] # "none",
         \A w \in Worker : Fit(worker'[w]) /\ worker'[w].job \in {NoWorkerJob, Working(w)}
  PROVE  WorkersFit'
<1> SUFFICES ASSUME NEW w \in Worker, worker'[w].job # NoWorkerJob
             PROVE  job'[worker'[w].job] # "none"
  BY DEF WorkersFit, Working
<1>1. worker'[w].job = Working(w) /\ Working(w) \in Job /\ job[Working(w)] # "none"
  BY ThreadTypes DEF WorkersFit
<1> QED BY <1>1

\* One thread goes to another phase.
LEMMA Moved ==
  ASSUME TurnsTypeOK, NEW w \in Worker, NEW phase \in Phases, Becomes(w, phase)
  PROVE  /\ worker'[w].phase = phase /\ worker'[w].job = Working(w)
         /\ \A v \in Worker : v # w => worker'[v] = worker[v]
         /\ \A v \in Worker : worker'[v].job = Working(v)
BY ThreadTypes DEF Becomes, Working, Thread

\* Ending a job changes its row alone, and to a status it can have next.
LEMMA Closed ==
  ASSUME TurnsTypeOK, NEW w \in Worker, Working(w) \in Job,
         Finish(w, job) \/ Finalize(w) \/ Fails(w)
  PROVE  /\ \A j \in Job : j # Working(w) => job'[j] = job[j]
         /\ \/ job'[Working(w)] = job[Working(w)] /\ "orphan" \in Faults
            \/ job'[Working(w)] \in {"done", "pending", "failed"}
         /\ Finish(w, job) => job'[Working(w)] = "done"
         /\ Fails(w) \/ Finalize(w) => Becomes(w, "leaving")
<1>1. job \in [Job -> Statuses]
  BY DEF TurnsTypeOK
<1> QED BY <1>1 DEF Finish, Finalize, Fails

\* What a schedule does to the rows.
LEMMA ScheduledRows ==
  ASSUME TurnsTypeOK, RowsFit, NEW o \in BOOLEAN, NEW r \in BOOLEAN, NEW n \in 0..NMsg,
         ScheduleFrom(o, r, n, marks), open' = open, finals' = finals,
         job' \in [Job -> Statuses], \A j \in Job : job'[j] = "none" <=> Enqueued(job)[j] = "none"
  PROVE  RowsFit' /\ \A j \in Job : job[j] # "none" => job'[j] # "none"
<1>1. /\ job \in [Job -> Statuses] /\ owner \in [Msg -> 0..NMsg]
  BY DEF TurnsTypeOK
<1>2. CASE owner' = owner /\ Enqueued(job) = job
  BY <1>2, JobFacts DEF RowsFit
<1>3. ASSUME NEW m \in Msg, owner[m] = 0, owner' = [owner EXCEPT ![m] = m],
             Enqueued(job) = [job EXCEPT ![Process(m)] = "pending"]
      PROVE  RowsFit' /\ \A j \in Job : job[j] # "none" => job'[j] # "none"
  <2>1. \A j \in Job : job'[j] = "none" <=> j # Process(m) /\ job[j] = "none"
    BY <1>1, <1>3
  <2>2. \A k \in Msg : owner'[k] = 0 <=> k # m /\ owner[k] = 0
    BY <1>1, <1>3 DEF Msg
  <2>3. RowsFit'
    BY <2>1, <2>2, JobFacts DEF RowsFit
  <2> QED BY <2>1, <2>3
<1> QED BY <1>2, <1>3, Scheduling

\* Every step keeps workers and rows coherent.
LEMMA CoherentStep == TurnsTypeOK /\ TurnsTypeOK' /\ Coherent /\ [Next]_vars => Coherent'
<1> SUFFICES ASSUME TurnsTypeOK, TurnsTypeOK', Coherent, [Next]_vars PROVE Coherent'
  OBVIOUS
<1>1. /\ WorkersFit /\ RowsFit /\ worker \in [Worker -> Thread]
      /\ job \in [Job -> Statuses] /\ job' \in [Job -> Statuses]
  BY ThreadTypes DEF Coherent, TurnsTypeOK
<1>2. \A w \in Worker : Fit(worker[w]) /\ worker[w].job = Working(w)
  BY <1>1 DEF WorkersFit, Working
<1>3. ASSUME UNCHANGED Rows, \A j \in Job : job'[j] = "none" <=> job[j] = "none",
             \A v \in Worker : Fit(worker'[v]) /\ worker'[v].job \in {NoWorkerJob, Working(v)}
      PROVE  Coherent'
  BY <1>1, <1>3, RowsKept, WorkersKept DEF Coherent
<1>4. ASSUME NEW w \in Worker, Working(w) \in Job, UNCHANGED Rows,
             (Finish(w, job) /\ Becomes(w, "leaving")) \/ Finalize(w) \/ Fails(w)
      PROVE  Coherent'
  <2>1. job[Working(w)] # "none"
    BY <1>1, <1>4 DEF WorkersFit, TurnsAssumption
  <2>2. Becomes(w, "leaving") /\ "leaving" \in Phases
    BY <1>4, Closed DEF Phases
  <2>3. \A v \in Worker : Fit(worker'[v]) /\ worker'[v].job \in {NoWorkerJob, Working(v)}
    BY <1>2, <1>4, <2>2, Moved DEF Fit, TurnsAssumption
  <2>4. \A j \in Job : job'[j] = "none" <=> job[j] = "none"
    BY <1>1, <1>4, <2>1, Closed
  <2> QED BY <1>3, <1>4, <2>3, <2>4
<1>5. CASE Arrive
  <2>1. PICK reset \in {FALSE, TurnIsStale} : ScheduleFrom(TRUE, running /\ ~reset, arrived + 1, marks)
    BY <1>5 DEF Arrive
  <2>2. arrived + 1 \in 0..NMsg /\ (running /\ ~reset) \in BOOLEAN
    BY <1>5 DEF Arrive, TurnsTypeOK
  <2>3. RowsFit' /\ \A j \in Job : job[j] # "none" => job'[j] # "none"
    BY <1>1, <1>5, <2>1, <2>2, ScheduledRows DEF Arrive
  <2> QED BY <1>1, <1>2, <1>5, <2>3, WorkersKept DEF Arrive, Coherent
<1>6. CASE CloseSession
  <2>1. \A j \in Job : j # Close => job'[j] = job[j]
    BY <1>1, <1>6 DEF CloseSession
  <2>2. job'[Close] = "pending"
    BY <1>1, <1>6, JobFacts DEF CloseSession
  <2>3. RowsFit'
    BY <1>1, <1>6, <2>1, JobFacts DEF RowsFit, CloseSession
  <2> QED BY <1>1, <1>2, <1>6, <2>1, <2>2, <2>3, WorkersKept DEF CloseSession, Coherent
<1>7. ASSUME NEW w \in Worker, WorkerStep(w) PROVE Coherent'
  <2>1. CASE Look(w)
    <3>1. worker'[w].phase = "looking" /\ worker'[w].job = Working(w) /\ \A v \in Worker : v # w => worker'[v] = worker[v]
      BY <1>1, <2>1 DEF Look, Working, Thread
    <3> QED BY <1>2, <1>3, <2>1, <3>1 DEF Look, Fit
  <2>2. ASSUME NEW j \in Job, Claim(w, j) PROVE Coherent'
    <3>1. /\ worker'[w].phase = "claimed" /\ worker'[w].job = j
          /\ \A v \in Worker : v # w => worker'[v] = worker[v]
      BY <1>1, <2>2 DEF Claim, Thread
    <3>2. job[j] = "pending"
      BY <2>2 DEF Claim, Claimable, WithStatus
    <3>3. \A i \in Job : job'[i] = IF i = j THEN "processing" ELSE job[i]
      BY <1>1, <2>2 DEF Claim
    <3>4. RowsFit'
      BY <1>1, <2>2, <3>2, <3>3, RowsKept DEF Claim
    <3>5. WorkersFit'
      BY <1>1, <1>2, <3>1, <3>3, ThreadTypes DEF WorkersFit, Working, Fit, TurnsAssumption
    <3> QED BY <3>4, <3>5 DEF Coherent
  <2>3. CASE NothingToDo(w)
    <3>1. "idle" \in Phases
      BY DEF Phases
    <3> QED BY <1>2, <1>3, <2>3, <3>1, Moved DEF NothingToDo, Fit
  <2>4. CASE Leave(w)
    <3>1. worker'[w] = Idle /\ \A v \in Worker : v # w => worker'[v] = worker[v]
      BY <1>1, <2>4 DEF Leave
    <3> QED BY <1>2, <1>3, <2>4, <3>1 DEF Leave, Fit, Idle
  <2>5. ASSUME NEW m \in Msg, StartTurn(w, m) PROVE Coherent'
    <3>1. Working(w) \in ProcessJobs /\ Working(w) # NoWorkerJob
      BY <2>5, JobFacts DEF StartTurn, Turning, TurnsAssumption
    <3>2. \E phase \in {"answered", "thinking"} : phase \in Phases /\ Becomes(w, phase)
      BY <2>5 DEF StartTurn, Phases
    <3>3. \A v \in Worker : Fit(worker'[v]) /\ worker'[v].job \in {NoWorkerJob, Working(v)}
      BY <1>2, <3>1, <3>2, Moved DEF Fit
    <3> QED BY <1>1, <2>5, <3>3, RowsStay, WorkersKept DEF StartTurn, Coherent
  <2>12. ASSUME NEW m \in Msg, Ask(w, m) PROVE Coherent'
    <3>1. Working(w) \in ProcessJobs /\ Working(w) # NoWorkerJob /\ "asked" \in Phases
      BY <2>12, JobFacts DEF Ask, Turning, TurnsAssumption, Phases
    <3>2. \A v \in Worker : Fit(worker'[v]) /\ worker'[v].job \in {NoWorkerJob, Working(v)}
      BY <1>2, <2>12, <3>1, Moved DEF Ask, Fit
    <3> QED BY <1>1, <2>12, <3>2, RowsStay, WorkersKept DEF Ask, Coherent
  <2>6. ASSUME NEW m \in Msg, PersistFinal(w, m) PROVE Coherent'
    <3>1. /\ Working(w) = Process(m) /\ Working(w) \in ProcessJobs /\ Working(w) # NoWorkerJob
          /\ job[Process(m)] # "none"
      BY <1>1, <2>6, JobFacts DEF PersistFinal, Turning, TurnsAssumption, WorkersFit
    <3>2. "answered" \in Phases /\ finals \in [Msg -> 0..2] /\ finals[m] + 1 \in 1..2
      BY <2>6 DEF Phases, TurnsTypeOK, PersistFinal
    <3>3. \A k \in Msg : finals'[k] = IF k = m THEN finals[m] + 1 ELSE finals[k]
      BY <2>6, <3>2 DEF PersistFinal
    <3> DEFINE s == Send(<<m, finals[m] + 1>>)
    <3>4. s \in Job /\ \A i \in Job : job'[i] = IF i = s THEN "pending" ELSE job[i]
      BY <1>1, <2>6, <3>2, JobFacts DEF PersistFinal
    <3>5. \A k \in Msg, n \in 1..2 : Send(<<k, n>>) = s => k = m /\ n = finals[m] + 1
      BY <3>2, JobFacts
    <3> HIDE DEF s
    <3>6. \A k \in Msg, n \in 1..2 : finals'[k] < n => job'[Send(<<k, n>>)] = "none"
      <4> SUFFICES ASSUME NEW k \in Msg, NEW n \in 1..2, finals'[k] < n
                   PROVE  job'[Send(<<k, n>>)] = "none"
        OBVIOUS
      <4>1. <<k, n>> \in Replies /\ Send(<<k, n>>) \in Job
        BY JobFacts
      <4>2. finals[k] \in 0..2 /\ finals[m] \in 0..2
        BY <3>2
      <4>3. finals[k] < n /\ ~(k = m /\ n = finals[m] + 1)
        BY <3>3, <4>2
      <4>4. Send(<<k, n>>) # s
        BY <3>5, <4>3
      <4> QED BY <1>1, <3>4, <4>1, <4>3, <4>4 DEF RowsFit
    <3>7. \A k \in Msg : Process(k) # s /\ Process(k) \in Job
      <4>1. IsSend(s)
        BY <3>2, JobFacts DEF s
      <4> QED BY <4>1, JobFacts
    <3>8. Close # s /\ Close \in Job
      <4>1. IsSend(s)
        BY <3>2, JobFacts DEF s
      <4> QED BY <4>1, JobFacts
    <3>9. RowsFit'
      BY <1>1, <2>6, <3>1, <3>3, <3>4, <3>6, <3>7, <3>8 DEF RowsFit, PersistFinal
    <3>10. \A v \in Worker : Fit(worker'[v]) /\ worker'[v].job \in {NoWorkerJob, Working(v)}
      BY <1>2, <2>6, <3>1, <3>2, Moved DEF PersistFinal, Fit
    <3> QED BY <1>1, <3>4, <3>9, <3>10, WorkersKept DEF Coherent
  <2>7. ASSUME NEW m \in Msg, EndTurn(w, m) PROVE Coherent'
    <3>1. /\ Working(w) = Process(m) /\ Working(w) \in ProcessJobs /\ Working(w) # NoWorkerJob
          /\ job[Process(m)] # "none" /\ Process(m) \in Job
      BY <1>1, <2>7, JobFacts DEF EndTurn, Turning, TurnsAssumption, WorkersFit
    <3>2. PICK seen \in {open, TRUE} : ScheduleFrom(seen, FALSE, arrived, marks)
      BY <2>7 DEF EndTurn
    <3>3. seen \in BOOLEAN /\ FALSE \in BOOLEAN /\ arrived \in 0..NMsg /\ "wake" \in Phases
      BY DEF TurnsTypeOK, Phases
    <3>4. Enqueued(job) \in [Job -> Statuses]
      BY <3>2, <3>3, ScheduleTypes
    <3>5. Enqueued(job)[Process(m)] # "none"
      BY <3>1 DEF Enqueued
    <3>6. \A j \in Job : job'[j] = "none" <=> Enqueued(job)[j] = "none"
      BY <2>7, <3>1, <3>4, <3>5 DEF EndTurn, Finish
    <3>7. RowsFit' /\ \A j \in Job : job[j] # "none" => job'[j] # "none"
      BY <1>1, <2>7, <3>2, <3>3, <3>6, ScheduledRows DEF EndTurn
    <3>8. \A v \in Worker : Fit(worker'[v]) /\ worker'[v].job \in {NoWorkerJob, Working(v)}
      BY <1>2, <2>7, <3>1, <3>3, Moved DEF EndTurn, Fit
    <3> QED BY <1>1, <3>7, <3>8, WorkersKept DEF Coherent
  <2>8. ASSUME NEW m \in Msg, Reschedule(w, m) PROVE Coherent'
    <3>1. Working(w) # NoWorkerJob
      BY <2>8, JobFacts DEF Reschedule, Turning, TurnsAssumption
    <3>2. open \in BOOLEAN /\ running \in BOOLEAN /\ arrived \in 0..NMsg /\ "leaving" \in Phases
      BY DEF TurnsTypeOK, Phases
    <3>3. RowsFit' /\ \A j \in Job : job[j] # "none" => job'[j] # "none"
      BY <1>1, <2>8, <3>2, ScheduledRows DEF Reschedule
    <3>4. \A v \in Worker : Fit(worker'[v]) /\ worker'[v].job \in {NoWorkerJob, Working(v)}
      BY <1>2, <2>8, <3>1, <3>2, Moved DEF Reschedule, Fit
    <3> QED BY <1>1, <3>3, <3>4, WorkersKept DEF Coherent
  <2>9. CASE CloseDone(w)
    <3>1. Working(w) \in Job /\ UNCHANGED Rows
      BY <2>9, JobFacts DEF CloseDone
    <3> QED BY <1>4, <2>9, <3>1 DEF CloseDone
  <2>10. ASSUME NEW r \in Replies, Post(w, r) PROVE Coherent'
    <3>1. IsSend(Working(w)) /\ Working(w) # NoWorkerJob
      BY <2>10, JobFacts DEF Post, Sending, TurnsAssumption
    <3>2. \E phase \in {"posting", "told"} : phase \in Phases /\ Becomes(w, phase)
      BY <2>10 DEF Post, Phases
    <3> QED BY <1>2, <1>3, <2>10, <3>1, <3>2, Moved DEF Post, Fit
  <2>11. ASSUME NEW r \in Replies, SendDone(w, r) PROVE Coherent'
    <3>1. Working(w) \in Job /\ UNCHANGED Rows
      BY <2>11, JobFacts DEF SendDone, Sending
    <3> QED BY <1>4, <2>11, <3>1 DEF SendDone
  <2> QED BY <1>7, <2>1, <2>2, <2>3, <2>4, <2>5, <2>6, <2>7, <2>8, <2>9, <2>10, <2>11, <2>12
          DEF WorkerStep
<1>8. ASSUME NEW w \in Worker, RecoverTurn(w) PROVE Coherent'
  <2>1. arrived \in 0..NMsg
    BY DEF TurnsTypeOK
  <2>2. RowsFit' /\ \A j \in Job : job[j] # "none" => job'[j] # "none"
    BY <1>1, <1>8, <2>1, ScheduledRows DEF RecoverTurn
  <2> QED BY <1>1, <1>2, <1>8, <2>2, WorkersKept DEF RecoverTurn, Coherent
<1>9. ASSUME NEW w \in Worker, NEW j \in Job, RecoverJob(w, j) PROVE Coherent'
  <2>1. job[j] = "processing" /\ \A i \in Job : job'[i] = IF i = j THEN "pending" ELSE job[i]
    BY <1>1, <1>9 DEF RecoverJob
  <2> QED BY <1>2, <1>3, <1>9, <2>1 DEF RecoverJob
<1>10. ASSUME NEW w \in Worker, NEW m \in Msg, NEW n \in Msg, Consume(w, m, n) PROVE Coherent'
  <2>1. \A k \in Msg : owner'[k] = 0 => owner[k] = 0
    <3>1. owner \in [Msg -> 0..NMsg] /\ m # 0
      BY DEF TurnsTypeOK, Msg
    <3> QED BY <1>10, <3>1 DEF Consume
  <2>2. RowsFit'
    BY <1>1, <1>10, <2>1 DEF RowsFit, Consume
  <2> QED BY <1>1, <1>2, <1>10, <2>2, WorkersKept DEF Consume, Coherent
<1>11. ASSUME NEW w \in Worker, NEW m \in Msg, RunFails(w, m) \/ CommitFails(w, m) \/ RescheduleFails(w, m)
       PROVE Coherent'
  <2>1. Working(w) \in Job /\ UNCHANGED Rows /\ Fails(w)
    BY <1>11, JobFacts DEF RunFails, CommitFails, RescheduleFails, Turning
  <2> QED BY <1>4, <2>1
<1>12. ASSUME NEW w \in Worker, NEW m \in Msg, TeardownFails(w, m) PROVE Coherent'
  <2>1. /\ Working(w) \in ProcessJobs /\ Working(w) \in Job /\ Working(w) # NoWorkerJob
        /\ job[Working(w)] # "none"
    BY <1>1, <1>12, JobFacts DEF TeardownFails, Turning, TurnsAssumption, WorkersFit
  <2>2. "wake" \in Phases /\ Finish(w, job)
    BY <1>12 DEF Phases, TeardownFails
  <2>3. \A j \in Job : job'[j] = "none" <=> job[j] = "none"
    BY <1>1, <2>1, <2>2, Closed
  <2>4. \A v \in Worker : Fit(worker'[v]) /\ worker'[v].job \in {NoWorkerJob, Working(v)}
    BY <1>2, <1>12, <2>1, <2>2, Moved DEF TeardownFails, Fit
  <2> QED BY <1>3, <1>12, <2>3, <2>4 DEF TeardownFails
<1>13. ASSUME NEW w \in Worker, NEW r \in Replies, StopWaiting(w, r) \/ Unreachable(w, r) \/ Skip(w, r)
       PROVE Coherent'
  <2>1. IsSend(Working(w)) /\ Working(w) # NoWorkerJob /\ "refused" \in Phases /\ "told" \in Phases
    BY <1>13, JobFacts DEF StopWaiting, Unreachable, Skip, Sending, TurnsAssumption, Phases
  <2>2. (Becomes(w, "refused") \/ Becomes(w, "told")) /\ UNCHANGED <<Rows, job>>
    BY <1>13 DEF StopWaiting, Unreachable, Skip
  <2> QED BY <1>2, <1>3, <2>1, <2>2, Moved DEF Fit
<1>19. ASSUME NEW w \in Worker, NEW m \in Msg, UseTools(w, m) PROVE Coherent'
  <2>1. Working(w) \in ProcessJobs /\ Working(w) # NoWorkerJob /\ "thinking" \in Phases
    BY <1>19, JobFacts DEF UseTools, Turning, TurnsAssumption, Phases
  <2>2. Becomes(w, "thinking") /\ UNCHANGED <<Rows, job>>
    BY <1>19 DEF UseTools
  <2> QED BY <1>2, <1>3, <2>1, <2>2, Moved DEF Fit
<1>14. ASSUME NEW r \in Replies, Deliver(r) \/ DeliveryFails(r) PROVE Coherent'
  <2>1. PICK phase \in {"told", "refused"} : Answer(r, phase)
    BY <1>14 DEF Deliver, DeliveryFails
  <2>2. \A v \in Worker : Fit(worker'[v]) /\ worker'[v].job \in {NoWorkerJob, Working(v)}
    <3> SUFFICES ASSUME NEW v \in Worker
                 PROVE  Fit(worker'[v]) /\ worker'[v].job \in {NoWorkerJob, Working(v)}
      OBVIOUS
    <3>1. CASE Sending(v, r, "posting")
      <4>1. worker'[v].phase = phase /\ worker'[v].job = Working(v)
        BY <1>1, <2>1, <3>1 DEF Answer, Thread, Working
      <4>2. IsSend(Working(v)) /\ Working(v) # NoWorkerJob
        BY <3>1, JobFacts DEF Sending, TurnsAssumption
      <4> QED BY <4>1, <4>2 DEF Fit
    <3>2. CASE ~Sending(v, r, "posting")
      BY <1>2, <2>1, <3>2 DEF Answer
    <3> QED BY <3>1, <3>2
  <2> QED BY <1>3, <1>14, <2>2 DEF Deliver, DeliveryFails
<1>15. ASSUME NEW r \in Replies, SlotExpires(r) PROVE Coherent'
  BY <1>2, <1>3, <1>15 DEF SlotExpires
<1>16. CASE Crash
  <2>1. \A v \in Worker : worker'[v] \in {Idle, Absent}
    BY <1>16 DEF Crash
  <2> QED BY <1>2, <1>3, <1>16, <2>1 DEF Crash, Fit, Idle, Absent
<1>17. CASE WebRestart
  <2>1. \A v \in Worker : Fit(worker'[v]) /\ worker'[v].job \in {NoWorkerJob, Working(v)}
    <3> SUFFICES ASSUME NEW v \in Worker
                 PROVE  Fit(worker'[v]) /\ worker'[v].job \in {NoWorkerJob, Working(v)}
      OBVIOUS
    <3>1. CASE worker[v].phase = "posting"
      <4>1. worker'[v].phase = "refused" /\ worker'[v].job = Working(v)
        BY <1>1, <1>17, <3>1 DEF WebRestart, Thread, Working
      <4> QED BY <1>2, <3>1, <4>1 DEF Fit
    <3>2. CASE worker[v].phase # "posting"
      BY <1>2, <1>17, <3>2 DEF WebRestart
    <3> QED BY <3>1, <3>2
  <2> QED BY <1>3, <1>17, <2>1 DEF WebRestart
<1>18. CASE UNCHANGED vars
  BY <1>2, <1>3, <1>18 DEF vars, turnVars, Rows
<1> QED BY <1>5, <1>6, <1>7, <1>8, <1>9, <1>10, <1>11, <1>12, <1>13, <1>14, <1>15, <1>16,
           <1>17, <1>18, <1>19 DEF Next
-----------------------------------------------------------------------------

\* The phases in which a worker's job is being processed, and those before its reply.
Busy == {"claimed", "thinking", "asked", "answered", "posting", "told", "refused"}
Drafting == {"thinking", "asked"}
\* The worker has a job on its hands: processing it, or about to look for the next.
Engaged(w) == worker[w].phase \in Busy \cup {"wake"}

\* A worker's row says what the worker is doing, and no two work on one job.
Alone ==
  /\ \A w \in Worker : /\ worker[w].phase \in Busy => job[Working(w)] = "processing"
                       /\ worker[w].phase = "wake" => job[Working(w)] = "done"
  /\ \A v, w \in Worker : Engaged(v) /\ Engaged(w) /\ Working(v) = Working(w) => v = w

\* A trigger has at most one final reply, and none while a worker thinks about it, unless
\* the check for a final has overlooked one.
Once ==
  "buried" \notin marks =>
    \A m \in Msg : /\ finals[m] <= 1
                   /\ \A w \in Worker : worker[w].phase \in Drafting /\ Working(w) = Process(m)
                                         => finals[m] = 0

\* Both hold until a running worker is taken for dead (recover_stale_processing_jobs).
Exclusive == "overtaken" \notin marks => Alone /\ Once

\* History is not forgotten.
LEMMA MarksGrow == TurnsTypeOK /\ [Next]_vars => marks \subseteq marks'
<1> SUFFICES ASSUME TurnsTypeOK, [Next]_vars PROVE marks \subseteq marks'
  OBVIOUS
<1>1. ASSUME NEW o \in BOOLEAN, NEW r \in BOOLEAN, NEW n \in 0..NMsg, ScheduleFrom(o, r, n, marks)
      PROVE  marks \subseteq marks'
  BY <1>1 DEF ScheduleFrom
<1>2. CASE Arrive
  BY <1>2 DEF Arrive, ScheduleFrom
<1>3. CASE CloseSession \/ Crash \/ WebRestart
  BY <1>3 DEF CloseSession, Crash, WebRestart
<1>4. ASSUME NEW w \in Worker, WorkerStep(w) PROVE marks \subseteq marks'
  <2>1. CASE Look(w) \/ NothingToDo(w) \/ Leave(w) \/ CloseDone(w)
    BY <2>1 DEF Look, NothingToDo, Leave, CloseDone
  <2>2. ASSUME NEW j \in Job, Claim(w, j) PROVE marks \subseteq marks'
    BY <2>2 DEF Claim
  <2>3. ASSUME NEW m \in Msg, StartTurn(w, m) \/ Ask(w, m) \/ PersistFinal(w, m)
        PROVE  marks \subseteq marks'
    BY <2>3 DEF StartTurn, Ask, PersistFinal
  <2>4. ASSUME NEW m \in Msg, EndTurn(w, m) \/ Reschedule(w, m) PROVE marks \subseteq marks'
    BY <2>4 DEF EndTurn, Reschedule, ScheduleFrom
  <2>5. ASSUME NEW r \in Replies, Post(w, r) \/ SendDone(w, r) PROVE marks \subseteq marks'
    BY <2>5 DEF Post, SendDone
  <2> QED BY <1>4, <2>1, <2>2, <2>3, <2>4, <2>5 DEF WorkerStep
<1>5. ASSUME NEW w \in Worker, NEW j \in Job, RecoverTurn(w) \/ RecoverJob(w, j) PROVE marks \subseteq marks'
  BY <1>5 DEF RecoverTurn, RecoverJob, ScheduleFrom
<1>6. ASSUME NEW w \in Worker, NEW m \in Msg, NEW n \in Msg,
             \/ Consume(w, m, n) \/ UseTools(w, m)
             \/ RunFails(w, m) \/ TeardownFails(w, m) \/ CommitFails(w, m) \/ RescheduleFails(w, m)
      PROVE  marks \subseteq marks'
  BY <1>6 DEF Consume, UseTools, RunFails, TeardownFails, CommitFails, RescheduleFails
<1>7. ASSUME NEW w \in Worker, NEW r \in Replies, StopWaiting(w, r) \/ Unreachable(w, r) \/ Skip(w, r)
      PROVE  marks \subseteq marks'
  BY <1>7 DEF StopWaiting, Unreachable, Skip
<1>8. ASSUME NEW r \in Replies, Deliver(r) \/ DeliveryFails(r) \/ SlotExpires(r)
      PROVE  marks \subseteq marks'
  BY <1>8 DEF Deliver, DeliveryFails, SlotExpires
<1>9. CASE UNCHANGED vars
  BY <1>9 DEF vars, turnVars
<1>10. \A w \in Worker : RecoverTurn(w) => marks \subseteq marks'
  BY DEF RecoverTurn, ScheduleFrom
<1> QED BY <1>2, <1>3, <1>4, <1>5, <1>6, <1>7, <1>8, <1>9, <1>10 DEF Next

\* Threads that go on keep their jobs to themselves.
LEMMA AloneKept ==
  ASSUME TurnsTypeOK, Alone,
         \A v \in Worker :
           \/ worker'[v].phase \notin Busy \cup {"wake"}
           \/ /\ worker'[v].job = Working(v)
              /\ \/ worker[v].phase \in Busy /\ worker'[v].phase \in Busy
                    /\ job'[Working(v)] = job[Working(v)]
                 \/ worker[v].phase = "wake" /\ worker'[v].phase = "wake"
                    /\ job'[Working(v)] = job[Working(v)]
                 \/ worker[v].phase \in Busy /\ worker'[v].phase = "wake"
                    /\ job'[Working(v)] = "done"
  PROVE  Alone'
<1>1. "wake" \notin Busy
  BY DEF Busy
<1>2. \A v \in Worker : Engaged(v)' => Engaged(v) /\ worker'[v].job = Working(v)
  BY DEF Engaged
<1>3. \A v \in Worker : /\ worker'[v].phase \in Busy => job'[worker'[v].job] = "processing"
                        /\ worker'[v].phase = "wake" => job'[worker'[v].job] = "done"
  BY <1>1 DEF Alone
<1>4. \A v, w \in Worker : Engaged(v)' /\ Engaged(w)' /\ worker'[v].job = worker'[w].job => v = w
  BY <1>2 DEF Alone
<1> QED BY <1>3, <1>4 DEF Alone, Working

\* Steps that write no final reply and start no turn keep the finals single.
LEMMA OnceKept ==
  ASSUME Once, finals' = finals, marks \subseteq marks',
         \A v \in Worker : worker'[v].phase \in Drafting =>
                             worker[v].phase \in Drafting /\ worker'[v].job = Working(v)
  PROVE  Once'
BY DEF Once, Working

\* Whoever is engaged has a row.
LEMMA EngagedJobs ==
  ASSUME TurnsTypeOK, Coherent
  PROVE  \A v \in Worker : Engaged(v) => Working(v) \in Job /\ job[Working(v)] # "none"
BY ThreadTypes DEF Coherent, WorkersFit, Fit, Engaged, Busy, Working

\* A row nobody works on may change at will.
LEMMA Untouched ==
  ASSUME TurnsTypeOK, Coherent, Alone, Once, worker' = worker, finals' = finals,
         marks \subseteq marks', \A j \in Job : job[j] # "none" => job'[j] = job[j]
  PROVE  Alone' /\ Once'
<1>1. \A v \in Worker : Engaged(v) => Working(v) \in Job /\ job[Working(v)] # "none"
  BY EngagedJobs
<1>2. \A v \in Worker : worker'[v] = worker[v] /\ worker[v].job = Working(v)
  BY DEF Working
<1>3. Alone'
  BY <1>1, <1>2, AloneKept DEF Engaged
<1> QED BY <1>2, <1>3, OnceKept

\* One thread leaves its job.
LEMMA Left ==
  ASSUME TurnsTypeOK, Coherent, Alone, Once, NEW w \in Worker, Engaged(w), Becomes(w, "leaving"),
         finals' = finals, marks \subseteq marks', \A j \in Job : j # Working(w) => job'[j] = job[j]
  PROVE  Alone' /\ Once'
<1>1. "leaving" \in Phases /\ "leaving" \notin Busy \cup {"wake"} /\ "leaving" \notin Drafting
  BY DEF Phases, Busy, Drafting
<1>2. /\ worker'[w].phase = "leaving"
      /\ \A v \in Worker : v # w => worker'[v] = worker[v]
  BY <1>1, Moved
<1>3. \A v \in Worker : v # w /\ Engaged(v) => Working(v) # Working(w)
  BY DEF Alone
<1>4. \A v \in Worker : v # w /\ Engaged(v) => job'[Working(v)] = job[Working(v)] /\ worker'[v] = worker[v]
  BY <1>2, <1>3, EngagedJobs
<1>5. Alone'
  BY <1>1, <1>2, <1>4, AloneKept DEF Engaged, Working
<1>6. Once'
  BY <1>1, <1>2, OnceKept DEF Working
<1> QED BY <1>5, <1>6

\* Every step keeps jobs exclusive, unless it takes a running worker for dead.
LEMMA ExclusiveStep ==
  TurnsTypeOK /\ TurnsTypeOK' /\ Coherent /\ Exclusive /\ [Next]_vars => Exclusive'
<1> SUFFICES ASSUME TurnsTypeOK, TurnsTypeOK', Coherent, Exclusive, [Next]_vars, "overtaken" \notin marks'
             PROVE  Alone' /\ Once'
  BY DEF Exclusive
<1>1. /\ Alone /\ Once /\ marks \subseteq marks'
      /\ job \in [Job -> Statuses] /\ job' \in [Job -> Statuses]
      /\ worker \in [Worker -> Thread] /\ WorkersFit /\ RowsFit
      /\ \A v \in Worker : Engaged(v) => Working(v) \in Job /\ job[Working(v)] # "none"
      /\ \A v \in Worker : worker[v].job = Working(v)
  BY MarksGrow, EngagedJobs, ThreadTypes DEF Exclusive, TurnsTypeOK, Coherent, Working
<1>2. ASSUME NEW w \in Worker, Engaged(w), finals' = finals,
             (Finish(w, job) /\ Becomes(w, "leaving")) \/ Finalize(w) \/ Fails(w)
      PROVE  Alone' /\ Once'
  BY <1>1, <1>2, Closed, Left
<1>3. ASSUME NEW w \in Worker, NEW phase \in Phases, Becomes(w, phase), finals' = finals, job' = job,
             phase \notin Busy \cup {"wake"} \/ (worker[w].phase \in Busy /\ phase \in Busy),
             phase \notin Drafting \/ worker[w].phase \in Drafting
      PROVE  Alone' /\ Once'
  <2>1. /\ worker'[w].phase = phase /\ worker'[w].job = Working(w)
        /\ \A v \in Worker : v # w => worker'[v] = worker[v]
    BY <1>3, Moved
  <2>2. Alone'
    BY <1>1, <1>3, <2>1, AloneKept DEF Engaged
  <2>3. Once'
    BY <1>1, <1>3, <2>1, OnceKept
  <2> QED BY <2>2, <2>3
<1>4. ASSUME NEW o \in BOOLEAN, NEW r \in BOOLEAN, NEW n \in 0..NMsg, ScheduleFrom(o, r, n, marks)
      PROVE  \A j \in Job : job[j] # "none" => Enqueued(job)[j] = job[j]
  <2>1. CASE Enqueued(job) = job
    BY <2>1
  <2>2. ASSUME NEW m \in Msg, owner[m] = 0, Enqueued(job) = [job EXCEPT ![Process(m)] = "pending"]
        PROVE  \A j \in Job : job[j] # "none" => Enqueued(job)[j] = job[j]
    <3>1. job[Process(m)] = "none"
      BY <1>1, <2>2 DEF RowsFit
    <3> QED BY <1>1, <2>2, <3>1
  <2> QED BY <1>4, <2>1, <2>2, Scheduling
<1>5. CASE Arrive
  <2>1. PICK reset \in {FALSE, TurnIsStale} : ScheduleFrom(TRUE, running /\ ~reset, arrived + 1, marks)
    BY <1>5 DEF Arrive
  <2>2. arrived + 1 \in 0..NMsg /\ (running /\ ~reset) \in BOOLEAN
    BY <1>5 DEF Arrive, TurnsTypeOK
  <2>3. \A j \in Job : job[j] # "none" => job'[j] = job[j]
    BY <1>4, <1>5, <2>1, <2>2 DEF Arrive
  <2> QED BY <1>1, <1>5, <2>3, Untouched DEF Arrive
<1>6. CASE CloseSession
  BY <1>1, <1>6, Untouched DEF CloseSession, RowsFit
<1>7. ASSUME NEW w \in Worker, WorkerStep(w) PROVE Alone' /\ Once'
  <2>1. CASE Look(w)
    <3>1. /\ worker'[w].phase = "looking"
          /\ \A v \in Worker : v # w => worker'[v] = worker[v]
      BY <1>1, <2>1 DEF Look, Thread
    <3>2. Alone'
      BY <1>1, <2>1, <3>1, AloneKept DEF Look, Engaged, Busy
    <3>3. Once'
      BY <1>1, <2>1, <3>1, OnceKept DEF Look, Rows, Drafting
    <3> QED BY <3>2, <3>3
  <2>2. ASSUME NEW j \in Job, Claim(w, j) PROVE Alone' /\ Once'
    <3>1. /\ worker'[w].phase = "claimed" /\ worker'[w].job = j
          /\ \A v \in Worker : v # w => worker'[v] = worker[v]
      BY <1>1, <2>2 DEF Claim, Thread
    <3>2. job[j] = "pending"
      BY <2>2 DEF Claim, Claimable, WithStatus
    <3>3. \A i \in Job : job'[i] = IF i = j THEN "processing" ELSE job[i]
      BY <1>1, <2>2 DEF Claim
    <3>4. \A v \in Worker : Engaged(v) => Working(v) # j
      BY <1>1, <3>2 DEF Alone, Engaged
    <3>5. \A v \in Worker : Engaged(v)' => v = w \/ Engaged(v)
      BY <3>1 DEF Engaged
    <3>6. \A v, u \in Worker : Engaged(v)' /\ Engaged(u)' /\ worker'[v].job = worker'[u].job => v = u
      BY <1>1, <3>1, <3>4, <3>5 DEF Alone
    <3>7. \A v \in Worker : /\ worker'[v].phase \in Busy => job'[worker'[v].job] = "processing"
                            /\ worker'[v].phase = "wake" => job'[worker'[v].job] = "done"
      <4> SUFFICES ASSUME NEW v \in Worker
                   PROVE  /\ worker'[v].phase \in Busy => job'[worker'[v].job] = "processing"
                          /\ worker'[v].phase = "wake" => job'[worker'[v].job] = "done"
        OBVIOUS
      <4>1. CASE v = w
        BY <3>1, <3>3, <4>1
      <4>2. CASE v # w
        BY <1>1, <3>1, <3>3, <3>4, <4>2 DEF Alone, Engaged
      <4> QED BY <4>1, <4>2
    <3>8. Alone'
      BY <3>6, <3>7 DEF Alone, Working
    <3>9. Once'
      BY <1>1, <2>2, <3>1, OnceKept DEF Claim, Rows, Drafting
    <3> QED BY <3>8, <3>9
  <2>3. CASE NothingToDo(w)
    <3>1. "idle" \in Phases /\ "idle" \notin Busy \cup {"wake"} /\ "idle" \notin Drafting
      BY DEF Phases, Busy, Drafting
    <3> QED BY <1>3, <2>3, <3>1 DEF NothingToDo, Rows
  <2>4. CASE Leave(w)
    <3>1. worker'[w] = Idle /\ \A v \in Worker : v # w => worker'[v] = worker[v]
      BY <1>1, <2>4 DEF Leave
    <3>2. Alone'
      BY <1>1, <2>4, <3>1, AloneKept DEF Leave, Idle, Engaged, Busy
    <3>3. Once'
      BY <1>1, <2>4, <3>1, OnceKept DEF Leave, Idle, Rows, Drafting
    <3> QED BY <3>2, <3>3
  <2>5. ASSUME NEW m \in Msg, StartTurn(w, m) PROVE Alone' /\ Once'
    <3>1. CASE Becomes(w, "answered")
      <4>1. /\ "answered" \in Phases /\ "answered" \in Busy /\ "claimed" \in Busy
            /\ "answered" \notin Drafting
        BY DEF Phases, Busy, Drafting
      <4> QED BY <1>3, <2>5, <3>1, <4>1 DEF StartTurn, Turning
    <3>2. CASE Becomes(w, "thinking") /\ (finals[m] = 0 \/ "buried" \in marks')
      <4>1. /\ "thinking" \in Phases /\ "thinking" \in Busy /\ "claimed" \in Busy
            /\ Becomes(w, "thinking") /\ worker[w].phase = "claimed" /\ Working(w) = Process(m)
            /\ finals' = finals /\ job' = job
        BY <2>5, <3>2 DEF Phases, Busy, StartTurn, Turning
      <4>2. /\ worker'[w].phase = "thinking" /\ worker'[w].job = Working(w)
            /\ \A v \in Worker : v # w => worker'[v] = worker[v]
        BY <4>1, Moved
      <4>3. Alone'
        BY <1>1, <4>1, <4>2, AloneKept DEF Engaged
      <4>4. \A k \in Msg : Process(k) = Process(m) => k = m
        BY JobFacts
      <4>5. Once'
        BY <1>1, <3>2, <4>1, <4>2, <4>4 DEF Once, Working
      <4> QED BY <4>3, <4>5
    <3> QED BY <2>5, <3>1, <3>2 DEF StartTurn
  <2>13. ASSUME NEW m \in Msg, Ask(w, m) PROVE Alone' /\ Once'
    <3>1. /\ "asked" \in Phases /\ "asked" \in Busy /\ "thinking" \in Busy
          /\ "asked" \in Drafting /\ "thinking" \in Drafting
      BY DEF Phases, Busy, Drafting
    <3> QED BY <1>3, <2>13, <3>1 DEF Ask, Turning
  <2>6. ASSUME NEW m \in Msg, PersistFinal(w, m) PROVE Alone' /\ Once'
    <3>1. /\ worker[w].phase \in Drafting /\ worker[w].phase \in Busy /\ Working(w) = Process(m)
          /\ Becomes(w, "answered") /\ "answered" \in Phases
          /\ "answered" \notin Drafting /\ "answered" \in Busy /\ Drafting \subseteq Busy
      BY <2>6 DEF PersistFinal, Turning, Phases, Busy, Drafting
    <3>2. finals \in [Msg -> 0..2] /\ finals[m] + 1 \in 1..2
      BY <2>6 DEF TurnsTypeOK, PersistFinal
    <3>3. \A k \in Msg : finals'[k] = IF k = m THEN finals[m] + 1 ELSE finals[k]
      BY <2>6, <3>2 DEF PersistFinal
    <3>4. /\ worker'[w].phase = "answered" /\ worker'[w].job = Working(w)
          /\ \A v \in Worker : v # w => worker'[v] = worker[v]
      BY <3>1, Moved
    <3> DEFINE s == Send(<<m, finals[m] + 1>>)
    <3>5. s \in Job /\ job[s] = "none" /\ \A i \in Job : job'[i] = IF i = s THEN "pending" ELSE job[i]
      <4>1. job' = [job EXCEPT ![s] = "pending"]
        BY <2>6 DEF PersistFinal
      <4>2. finals[m] < finals[m] + 1
        BY <3>2
      <4>3. s \in Job
        BY <3>2, JobFacts
      <4>4. job[s] = "none"
        BY <1>1, <3>2, <4>2 DEF RowsFit
      <4> QED BY <1>1, <4>1, <4>3, <4>4
    <3> HIDE DEF s
    <3>6. \A v \in Worker : Engaged(v) => job'[Working(v)] = job[Working(v)]
      BY <1>1, <3>5
    <3>7. Alone'
      BY <1>1, <3>1, <3>4, <3>6, AloneKept DEF Engaged
    <3>8. \A v \in Worker : Engaged(v) /\ Working(v) = Process(m) => v = w
      BY <1>1, <3>1 DEF Alone, Engaged
    <3>9. ASSUME "buried" \notin marks, NEW k \in Msg PROVE finals'[k] <= 1
      <4>1. finals[k] <= 1 /\ finals[m] = 0
        BY <1>1, <3>1, <3>9 DEF Once
      <4> QED BY <3>3, <4>1
    <3>10. ASSUME "buried" \notin marks, NEW k \in Msg, NEW v \in Worker,
                  worker'[v].phase \in Drafting, worker'[v].job = Process(k)
           PROVE  finals'[k] = 0
      <4>1. v # w /\ worker[v].phase \in Drafting /\ Working(v) = Process(k)
        BY <1>1, <3>1, <3>4, <3>10
      <4>2. k # m
        BY <3>1, <3>8, <4>1 DEF Engaged
      <4> QED BY <1>1, <3>3, <3>10, <4>1, <4>2 DEF Once
    <3>11. Once'
      BY <1>1, <3>9, <3>10 DEF Once, Working
    <3> QED BY <3>7, <3>11
  <2>7. ASSUME NEW m \in Msg, Turning(w, m, "answered"), Becomes(w, "wake"), finals' = finals,
               \A j \in Job : job[j] # "none" /\ j # Working(w) => job'[j] = job[j],
               job'[Working(w)] = "done"
        PROVE Alone' /\ Once'
    <3>1. Engaged(w) /\ worker[w].phase = "answered" /\ "answered" \in Busy /\ "wake" \in Phases
      BY <2>7 DEF Turning, Engaged, Busy, Phases
    <3>2. /\ worker'[w].phase = "wake" /\ worker'[w].job = Working(w)
          /\ \A v \in Worker : v # w => worker'[v] = worker[v]
      BY <2>7, <3>1, Moved
    <3>3. \A v \in Worker : v # w /\ Engaged(v) => job'[Working(v)] = job[Working(v)]
      BY <1>1, <2>7, <3>1 DEF Alone
    <3>4. Alone'
      BY <1>1, <2>7, <3>1, <3>2, <3>3, AloneKept DEF Engaged
    <3>5. Once'
      BY <1>1, <2>7, <3>2, OnceKept DEF Drafting
    <3> QED BY <3>4, <3>5
  <2>8. ASSUME NEW m \in Msg, EndTurn(w, m) PROVE Alone' /\ Once'
    <3>1. PICK seen \in {open, TRUE} : ScheduleFrom(seen, FALSE, arrived, marks)
      BY <2>8 DEF EndTurn
    <3>2. seen \in BOOLEAN /\ FALSE \in BOOLEAN /\ arrived \in 0..NMsg
      BY DEF TurnsTypeOK
    <3>3. \A j \in Job : job[j] # "none" => Enqueued(job)[j] = job[j]
      BY <1>4, <3>1, <3>2
    <3>4. Enqueued(job) \in [Job -> Statuses]
      BY <3>1, <3>2, ScheduleTypes
    <3>5. Working(w) \in Job /\ job' = [Enqueued(job) EXCEPT ![Working(w)] = "done"]
      BY <2>8, JobFacts DEF EndTurn, Turning, Finish
    <3> QED BY <2>7, <2>8, <3>3, <3>4, <3>5 DEF EndTurn
  <2>9. ASSUME NEW m \in Msg, Reschedule(w, m) PROVE Alone' /\ Once'
    <3>1. \A j \in Job : job[j] # "none" => job'[j] = job[j]
      <4>1. open \in BOOLEAN /\ running \in BOOLEAN /\ arrived \in 0..NMsg
        BY DEF TurnsTypeOK
      <4> QED BY <1>4, <2>9, <4>1 DEF Reschedule
    <3>2. "leaving" \in Phases /\ "leaving" \notin Busy \cup {"wake"} /\ "leaving" \notin Drafting
      BY DEF Phases, Busy, Drafting
    <3>3. /\ worker'[w].phase = "leaving"
          /\ \A v \in Worker : v # w => worker'[v] = worker[v]
      BY <2>9, <3>2, Moved DEF Reschedule
    <3>4. Alone'
      BY <1>1, <3>1, <3>2, <3>3, AloneKept DEF Engaged
    <3>5. Once'
      BY <1>1, <2>9, <3>2, <3>3, OnceKept DEF Reschedule
    <3> QED BY <3>4, <3>5
  <2>10. CASE CloseDone(w)
    <3>1. Engaged(w) /\ finals' = finals
      BY <2>10 DEF CloseDone, Engaged, Busy, Rows
    <3> QED BY <1>2, <2>10, <3>1 DEF CloseDone
  <2>11. ASSUME NEW r \in Replies, Post(w, r) PROVE Alone' /\ Once'
    <3>1. \E phase \in {"posting", "told"} :
            phase \in Phases /\ phase \in Busy /\ phase \notin Drafting /\ Becomes(w, phase)
      BY <2>11 DEF Post, Phases, Busy, Drafting
    <3>2. worker[w].phase \in Busy
      BY <2>11 DEF Post, Sending, Busy
    <3> QED BY <1>3, <2>11, <3>1, <3>2 DEF Post, Rows
  <2>12. ASSUME NEW r \in Replies, SendDone(w, r) PROVE Alone' /\ Once'
    <3>1. Engaged(w) /\ finals' = finals
      BY <2>12 DEF SendDone, Sending, Engaged, Busy, Rows
    <3> QED BY <1>2, <2>12, <3>1 DEF SendDone
  <2> QED BY <1>7, <2>1, <2>2, <2>3, <2>4, <2>5, <2>6, <2>8, <2>9, <2>10, <2>11, <2>12, <2>13
          DEF WorkerStep
<1>8. ASSUME NEW w \in Worker, RecoverTurn(w) PROVE Alone' /\ Once'
  <2>1. arrived \in 0..NMsg
    BY DEF TurnsTypeOK
  <2>2. \A j \in Job : job[j] # "none" => job'[j] = job[j]
    BY <1>4, <1>8, <2>1 DEF RecoverTurn
  <2> QED BY <1>1, <1>8, <2>2, Untouched DEF RecoverTurn
<1>9. ASSUME NEW w \in Worker, NEW j \in Job, RecoverJob(w, j) PROVE Alone' /\ Once'
  <2>1. /\ ~Owned(j) /\ worker' = worker /\ finals' = finals
        /\ \A i \in Job : job'[i] = IF i = j THEN "pending" ELSE job[i]
    BY <1>1, <1>9 DEF RecoverJob, Rows
  <2>2. \A v \in Worker : Working(v) # j
    BY <2>1 DEF Owned
  <2>3. Alone'
    BY <1>1, <2>1, <2>2, AloneKept DEF Engaged
  <2> QED BY <1>1, <2>1, <2>3, OnceKept
<1>10. ASSUME NEW w \in Worker, NEW m \in Msg, NEW n \in Msg, Consume(w, m, n) PROVE Alone' /\ Once'
  BY <1>1, <1>10, Untouched DEF Consume
<1>11. ASSUME NEW w \in Worker, NEW m \in Msg, RunFails(w, m) \/ CommitFails(w, m) \/ RescheduleFails(w, m)
       PROVE Alone' /\ Once'
  <2>1. Engaged(w) /\ finals' = finals /\ Fails(w)
    BY <1>11 DEF RunFails, CommitFails, RescheduleFails, Turning, Engaged, Busy, Rows
  <2> QED BY <1>2, <2>1
<1>12. ASSUME NEW w \in Worker, NEW m \in Msg, TeardownFails(w, m) PROVE Alone' /\ Once'
  <2>1. /\ Engaged(w) /\ worker[w].phase = "answered" /\ "answered" \in Busy /\ "wake" \in Phases
        /\ Becomes(w, "wake") /\ Finish(w, job) /\ finals' = finals
    BY <1>12 DEF TeardownFails, Turning, Engaged, Busy, Phases, Rows
  <2>2. /\ worker'[w].phase = "wake" /\ worker'[w].job = Working(w)
        /\ \A v \in Worker : v # w => worker'[v] = worker[v]
    BY <2>1, Moved
  <2>3. /\ job'[Working(w)] = "done"
        /\ \A v \in Worker : v # w /\ Engaged(v) => job'[Working(v)] = job[Working(v)]
    BY <1>1, <2>1, Closed DEF Alone
  <2>4. Alone'
    BY <1>1, <2>1, <2>2, <2>3, AloneKept DEF Engaged
  <2>5. Once'
    BY <1>1, <2>1, <2>2, OnceKept DEF Drafting
  <2> QED BY <2>4, <2>5
<1>13. ASSUME NEW w \in Worker, NEW r \in Replies, StopWaiting(w, r) \/ Unreachable(w, r) \/ Skip(w, r)
       PROVE Alone' /\ Once'
  <2>1. /\ {"refused", "told"} \subseteq Phases /\ {"refused", "told"} \subseteq Busy
        /\ "refused" \notin Drafting /\ "told" \notin Drafting
    BY DEF Phases, Busy, Drafting
  <2>2. /\ worker[w].phase \in Busy /\ finals' = finals /\ job' = job
        /\ Becomes(w, "refused") \/ Becomes(w, "told")
    BY <1>13 DEF StopWaiting, Unreachable, Skip, Sending, Busy, Rows
  <2> QED BY <1>3, <2>1, <2>2
<1>20. ASSUME NEW w \in Worker, NEW m \in Msg, UseTools(w, m) PROVE Alone' /\ Once'
  <2>1. /\ "thinking" \in Phases /\ "thinking" \in Busy /\ "asked" \in Busy
        /\ "thinking" \in Drafting /\ "asked" \in Drafting
    BY DEF Phases, Busy, Drafting
  <2> QED BY <1>3, <1>20, <2>1 DEF UseTools, Turning, Rows
<1>14. ASSUME finals' = finals, job' = job,
              \A v \in Worker : \/ worker'[v] = worker[v]
                                \/ /\ worker[v].phase = "posting" /\ worker'[v].phase \in {"told", "refused"}
                                   /\ worker'[v].job = Working(v)
                                \/ worker'[v].phase \notin Busy \cup {"wake"}
       PROVE  Alone' /\ Once'
  <2>1. /\ "posting" \in Busy /\ "told" \in Busy /\ "refused" \in Busy
        /\ "told" \notin Drafting /\ "refused" \notin Drafting /\ Drafting \subseteq Busy
    BY DEF Busy, Drafting
  <2>2. Alone'
    BY <1>1, <1>14, <2>1, AloneKept DEF Engaged
  <2>3. Once'
    BY <1>1, <1>14, <2>1, OnceKept
  <2> QED BY <2>2, <2>3
<1>15. ASSUME NEW r \in Replies, Deliver(r) \/ DeliveryFails(r) PROVE Alone' /\ Once'
  <2>1. PICK phase \in {"told", "refused"} : Answer(r, phase)
    BY <1>15 DEF Deliver, DeliveryFails
  <2>2. \A v \in Worker : \/ worker'[v] = worker[v]
                          \/ /\ worker[v].phase = "posting" /\ worker'[v].phase \in {"told", "refused"}
                             /\ worker'[v].job = Working(v)
    BY <1>1, <2>1 DEF Answer, Sending, Thread, Working
  <2> QED BY <1>14, <1>15, <2>2 DEF Deliver, DeliveryFails, Rows
<1>16. ASSUME NEW r \in Replies, SlotExpires(r) PROVE Alone' /\ Once'
  BY <1>14, <1>16 DEF SlotExpires, Rows
<1>17. CASE Crash
  <2>1. \A v \in Worker : worker'[v] \in {Idle, Absent}
    BY <1>17 DEF Crash
  <2>2. Idle.phase \notin Busy \cup {"wake"} /\ Absent.phase \notin Busy \cup {"wake"}
    BY DEF Idle, Absent, Busy
  <2> QED BY <1>14, <1>17, <2>1, <2>2 DEF Crash, Rows
<1>18. CASE WebRestart
  <2>1. \A v \in Worker : \/ worker'[v] = worker[v]
                          \/ /\ worker[v].phase = "posting" /\ worker'[v].phase \in {"told", "refused"}
                             /\ worker'[v].job = Working(v)
    BY <1>1, <1>18 DEF WebRestart, Thread, Working
  <2> QED BY <1>14, <1>18, <2>1 DEF WebRestart, Rows
<1>19. CASE UNCHANGED vars
  BY <1>14, <1>19 DEF vars, turnVars
<1> QED BY <1>5, <1>6, <1>7, <1>8, <1>9, <1>10, <1>11, <1>12, <1>13, <1>15, <1>16,
           <1>17, <1>18, <1>19, <1>20 DEF Next

\* A fresh session satisfies the invariant.
LEMMA InitFits == Init => TurnsTypeOK /\ Coherent /\ Exclusive
<1> SUFFICES ASSUME Init PROVE TurnsTypeOK /\ Coherent /\ Exclusive
  OBVIOUS
<1>1. /\ job = [j \in Job |-> "none"] /\ owner = [m \in Msg |-> 0] /\ finals = [m \in Msg |-> 0]
      /\ \A w \in Worker : worker[w] \in {Idle, Absent}
  BY DEF Init, FreshSession
<1>2. /\ Idle.job = NoWorkerJob /\ Absent.job = NoWorkerJob /\ Idle.phase = "idle" /\ Absent.phase = "absent"
  BY DEF Idle, Absent
<1>3. WorkersFit
  BY <1>1, <1>2 DEF WorkersFit, Fit, Working
<1>4. RowsFit
  BY <1>1, JobFacts DEF RowsFit
<1>5. Alone /\ Once
  BY <1>1, <1>2 DEF Alone, Once, Engaged, Busy, Drafting
<1> QED BY <1>3, <1>4, <1>5, InitTypes DEF Coherent, Exclusive

\* The inductive invariant of the session: types, workers that fit the job table, and jobs
\* worked on by one worker (claim_next_job's conditional update, worker.py).
THEOREM CoherenceHolds == Spec => [](TurnsTypeOK /\ Coherent /\ Exclusive)
<1>1. /\ TurnsTypeOK /\ Coherent /\ Exclusive /\ [Next]_vars
      => (TurnsTypeOK /\ Coherent /\ Exclusive)'
  BY TypeStep, CoherentStep, ExclusiveStep
<1> QED BY <1>1, InitFits, PTL DEF Spec

\* A trigger gets one final reply however often its job is retried after failures and
\* crashes (process_session_job, the check for a final), unless a running worker is taken
\* for dead or the check overlooks the first one.
THEOREM FinalOnce == Spec => []OneFinal
<1>1. TurnsTypeOK /\ Exclusive => OneFinal
  BY DEF Exclusive, Once, OneFinal, TurnsTypeOK
<1> QED BY <1>1, CoherenceHolds, PTL

\* Unless a worker is taken for dead, a reply is buried or written without asking: the
\* model has heard every message of a turn whose final is there, or whose round it is in.
Hearing ==
  {"overtaken", "buried", "unheard"} \cap marks = {} =>
    \A m \in Msg : finals[m] > 0 \/ (\E w \in Worker : Turning(w, m, "asked"))
                   => Own(m) \subseteq heard

\* Steps that ask nothing, take no message and write no reply.
LEMMA HearingKept ==
  ASSUME Hearing, marks \subseteq marks', UNCHANGED <<owner, heard, finals>>,
         \A v \in Worker : worker'[v].phase = "asked" =>
                             worker[v].phase = "asked" /\ worker'[v].job = Working(v)
  PROVE  Hearing'
BY DEF Hearing, Own, Turning, Working

\* One thread goes on, to a phase that is not the model's.
LEMMA HearingMoved ==
  ASSUME TurnsTypeOK, Hearing, marks \subseteq marks', UNCHANGED <<owner, heard, finals>>,
         NEW w \in Worker, NEW phase \in Phases, Becomes(w, phase), phase # "asked"
  PROVE  Hearing'
<1>1. /\ worker'[w].phase = phase
      /\ \A v \in Worker : v # w => worker'[v] = worker[v]
  BY Moved
<1> QED BY <1>1, HearingKept DEF Working

\* A turn begins with a message nobody has taken, which has no job and no reply.
LEMMA HearingScheduled ==
  ASSUME TurnsTypeOK, Coherent, Hearing, marks \subseteq marks', UNCHANGED <<heard, finals>>,
         NEW o \in BOOLEAN, NEW r \in BOOLEAN, NEW n \in 0..NMsg, ScheduleFrom(o, r, n, marks),
         \A v \in Worker : worker'[v].phase = "asked" =>
                             worker[v].phase = "asked" /\ worker'[v].job = Working(v)
  PROVE  Hearing'
<1>1. CASE owner' = owner
  BY <1>1, HearingKept
<1>2. ASSUME NEW m \in Msg, owner[m] = 0, owner' = [owner EXCEPT ![m] = m]
      PROVE  Hearing'
  <2>1. owner \in [Msg -> 0..NMsg] /\ finals \in [Msg -> 0..2]
    BY DEF TurnsTypeOK
  <2>2. job[Process(m)] = "none" /\ finals[m] = 0
    BY <1>2 DEF Coherent, RowsFit
  <2>3. \A v \in Worker : ~Turning(v, m, "asked")
    BY <2>2, JobFacts DEF Coherent, WorkersFit, Turning, TurnsAssumption
  <2>4. \A k \in Msg : k # m => Own(k)' = Own(k)
    BY <1>2, <2>1 DEF Own, Msg
  <2>5. \A v \in Worker, k \in Msg : Turning(v, k, "asked")' => Turning(v, k, "asked")
    BY DEF Turning, Working
  <2> QED BY <2>2, <2>3, <2>4, <2>5 DEF Hearing
<1> QED BY <1>1, <1>2, Scheduling

\* Every step keeps it so.
LEMMA HearingStep ==
  TurnsTypeOK /\ TurnsTypeOK' /\ Coherent /\ Exclusive /\ Hearing /\ [Next]_vars => Hearing'
<1> SUFFICES ASSUME TurnsTypeOK, TurnsTypeOK', Coherent, Exclusive, Hearing, [Next]_vars,
                    {"overtaken", "buried", "unheard"} \cap marks' = {}
             PROVE  Hearing'
  BY DEF Hearing
<1>1. /\ marks \subseteq marks' /\ Alone
      /\ \A m \in Msg : finals[m] > 0 \/ (\E w \in Worker : Turning(w, m, "asked"))
                        => Own(m) \subseteq heard
      /\ \A m \in Msg, w \in Worker :
           worker[w].phase \in Drafting /\ Working(w) = Process(m) => finals[m] = 0
      /\ \A w \in Worker : worker[w].job = Working(w)
  BY MarksGrow DEF Exclusive, Hearing, Once, Working
<1>2. /\ owner \in [Msg -> 0..NMsg] /\ finals \in [Msg -> 0..2] /\ worker \in [Worker -> Thread]
      /\ arrived \in 0..NMsg /\ open \in BOOLEAN /\ running \in BOOLEAN
  BY ThreadTypes DEF TurnsTypeOK
<1>3. \A w \in Worker, phase \in Phases : Becomes(w, phase) /\ phase # "asked" /\ UNCHANGED <<owner, heard, finals>>
        => Hearing'
  BY <1>1, HearingMoved
<1>4. /\ {"idle", "thinking", "asked", "answered", "wake", "leaving", "posting", "told", "refused"} \subseteq Phases
      /\ {"claimed", "thinking", "asked"} \subseteq Busy /\ {"thinking", "asked"} \subseteq Drafting
  BY DEF Phases, Busy, Drafting
<1>5. \A v, w \in Worker, m \in Msg, p, q \in {"claimed", "thinking", "asked"} :
        Turning(v, m, p) /\ Turning(w, m, q) => v = w
  BY <1>1, <1>4 DEF Turning, Alone, Engaged
<1>6. UNCHANGED Rows => UNCHANGED <<owner, heard, finals>>
  BY DEF Rows
<1>7. CASE Arrive
  <2>1. PICK reset \in {FALSE, TurnIsStale} : ScheduleFrom(TRUE, running /\ ~reset, arrived + 1, marks)
    BY <1>7 DEF Arrive
  <2>2. arrived + 1 \in 0..NMsg /\ (running /\ ~reset) \in BOOLEAN
    BY <1>7 DEF Arrive, TurnsTypeOK
  <2> QED BY <1>1, <1>7, <2>1, <2>2, HearingScheduled DEF Arrive
<1>8. CASE CloseSession
  BY <1>1, <1>8, HearingKept DEF CloseSession
<1>9. ASSUME NEW w \in Worker, WorkerStep(w) PROVE Hearing'
  <2>1. CASE Look(w)
    <3>1. worker'[w].phase = "looking" /\ \A v \in Worker : v # w => worker'[v] = worker[v]
      BY <1>2, <2>1 DEF Look, Thread
    <3> QED BY <1>1, <1>6, <2>1, <3>1, HearingKept DEF Look
  <2>2. ASSUME NEW j \in Job, Claim(w, j) PROVE Hearing'
    <3>1. worker'[w].phase = "claimed" /\ \A v \in Worker : v # w => worker'[v] = worker[v]
      BY <1>2, <2>2 DEF Claim, Thread
    <3> QED BY <1>1, <1>6, <2>2, <3>1, HearingKept DEF Claim
  <2>3. CASE NothingToDo(w)
    BY <1>3, <1>4, <1>6, <2>3 DEF NothingToDo
  <2>4. CASE Leave(w)
    <3>1. worker'[w].phase = "idle" /\ \A v \in Worker : v # w => worker'[v] = worker[v]
      BY <1>2, <2>4 DEF Leave, Idle
    <3> QED BY <1>1, <1>6, <2>4, <3>1, HearingKept DEF Leave
  <2>5. ASSUME NEW m \in Msg, StartTurn(w, m) PROVE Hearing'
    <3>1. CASE heard' = heard
      BY <1>3, <1>4, <2>5, <3>1 DEF StartTurn
    <3>2. CASE finals[m] = 0 /\ Becomes(w, "thinking") /\ heard' = heard \ Own(m)
      <4>1. worker'[w].phase = "thinking" /\ \A v \in Worker : v # w => worker'[v] = worker[v]
        BY <1>4, <3>2, Moved
      <4>2. \A v \in Worker : ~Turning(v, m, "asked")
        BY <1>5, <2>5 DEF StartTurn, Turning
      <4>3. \A v \in Worker, k \in Msg : Turning(v, k, "asked")' => Turning(v, k, "asked")
        BY <4>1 DEF Turning, Working
      <4>4. \A k \in Msg : k # m => Own(k) \cap Own(m) = {}
        BY DEF Own
      <4>5. \A k \in Msg : Own(k)' = Own(k) /\ finals'[k] = finals[k]
        BY <2>5 DEF StartTurn, Own
      <4>6. \A k \in Msg : finals'[k] > 0 \/ (\E v \in Worker : Turning(v, k, "asked")')
                           => Own(k)' \subseteq heard'
        BY <1>1, <3>2, <4>2, <4>3, <4>4, <4>5
      <4> QED BY <4>6 DEF Hearing
    <3> QED BY <2>5, <3>1, <3>2 DEF StartTurn
  <2>6. ASSUME NEW m \in Msg, Ask(w, m) PROVE Hearing'
    <3>1. worker'[w].phase = "asked" /\ worker'[w].job = Process(m) /\ \A v \in Worker : v # w => worker'[v] = worker[v]
      BY <1>4, <2>6, Moved DEF Ask, Turning
    <3>2. \A v \in Worker, k \in Msg : Turning(v, k, "asked")' => k = m \/ Turning(v, k, "asked")
      BY <3>1, JobFacts DEF Turning, Working
    <3>3. /\ heard' = heard \cup Own(m)
          /\ \A k \in Msg : Own(k)' = Own(k) /\ finals'[k] = finals[k]
      BY <2>6 DEF Ask, Own
    <3>4. \A k \in Msg : finals'[k] > 0 \/ (\E v \in Worker : Turning(v, k, "asked")')
                         => Own(k)' \subseteq heard'
      BY <1>1, <3>2, <3>3
    <3> QED BY <3>4 DEF Hearing
  <2>7. ASSUME NEW m \in Msg, PersistFinal(w, m) PROVE Hearing'
    <3>1. worker'[w].phase = "answered" /\ \A v \in Worker : v # w => worker'[v] = worker[v]
      BY <1>4, <2>7, Moved DEF PersistFinal
    <3>2. \A v \in Worker, k \in Msg : Turning(v, k, "asked")' => Turning(v, k, "asked")
      BY <3>1 DEF Turning, Working
    <3>3. Own(m) \subseteq heard
      <4>1. CASE Turning(w, m, "asked")
        BY <1>1, <4>1
      <4>2. CASE ~Turning(w, m, "asked")
        BY <2>7, <4>2 DEF PersistFinal
      <4> QED BY <4>1, <4>2
    <3>4. /\ heard' = heard /\ \A k \in Msg : Own(k)' = Own(k)
          /\ \A k \in Msg : k # m => finals'[k] = finals[k]
      BY <1>2, <2>7 DEF PersistFinal, Own
    <3>5. \A k \in Msg : finals'[k] > 0 \/ (\E v \in Worker : Turning(v, k, "asked")')
                         => Own(k)' \subseteq heard'
      BY <1>1, <3>2, <3>3, <3>4
    <3> QED BY <3>5 DEF Hearing
  <2>8. ASSUME NEW m \in Msg, EndTurn(w, m) PROVE Hearing'
    <3>1. PICK seen \in {open, TRUE} : ScheduleFrom(seen, FALSE, arrived, marks)
      BY <2>8 DEF EndTurn
    <3>2. seen \in BOOLEAN /\ FALSE \in BOOLEAN
      BY <1>2
    <3>3. worker'[w].phase = "wake" /\ \A v \in Worker : v # w => worker'[v] = worker[v]
      BY <1>4, <2>8, Moved DEF EndTurn
    <3> QED BY <1>1, <1>2, <2>8, <3>1, <3>2, <3>3, HearingScheduled DEF EndTurn
  <2>9. ASSUME NEW m \in Msg, Reschedule(w, m) PROVE Hearing'
    <3>1. worker'[w].phase = "leaving" /\ \A v \in Worker : v # w => worker'[v] = worker[v]
      BY <1>4, <2>9, Moved DEF Reschedule
    <3> QED BY <1>1, <1>2, <2>9, <3>1, HearingScheduled DEF Reschedule
  <2>10. CASE CloseDone(w)
    <3>1. Becomes(w, "leaving") /\ UNCHANGED Rows
      BY <2>10, JobFacts, Closed DEF CloseDone
    <3> QED BY <1>3, <1>4, <1>6, <3>1
  <2>11. ASSUME NEW r \in Replies, Post(w, r) PROVE Hearing'
    BY <1>3, <1>4, <1>6, <2>11 DEF Post
  <2>12. ASSUME NEW r \in Replies, SendDone(w, r) PROVE Hearing'
    <3>1. Becomes(w, "leaving") /\ UNCHANGED Rows
      BY <2>12 DEF SendDone, Finalize
    <3> QED BY <1>3, <1>4, <1>6, <3>1
  <2> QED BY <1>9, <2>1, <2>2, <2>3, <2>4, <2>5, <2>6, <2>7, <2>8, <2>9, <2>10, <2>11, <2>12
          DEF WorkerStep
<1>10. ASSUME NEW w \in Worker, RecoverTurn(w) PROVE Hearing'
  BY <1>1, <1>2, <1>10, HearingScheduled DEF RecoverTurn
<1>11. ASSUME NEW w \in Worker, NEW j \in Job, RecoverJob(w, j) PROVE Hearing'
  BY <1>1, <1>6, <1>11, HearingKept DEF RecoverJob
<1>12. ASSUME NEW w \in Worker, NEW m \in Msg, NEW n \in Msg, Consume(w, m, n) PROVE Hearing'
  <2>1. /\ Turning(w, m, "thinking") /\ owner[n] = 0 /\ owner' = [owner EXCEPT ![n] = m]
        /\ UNCHANGED <<worker, finals, heard>>
    BY <1>12 DEF Consume, Waiting, Handled
  <2>2. finals[m] = 0 /\ \A v \in Worker : ~Turning(v, m, "asked")
    BY <1>1, <1>4, <1>5, <2>1 DEF Turning
  <2>3. \A k \in Msg : k # m => Own(k)' = Own(k)
    BY <1>2, <2>1 DEF Own, Msg
  <2>4. \A v \in Worker, k \in Msg : Turning(v, k, "asked")' <=> Turning(v, k, "asked")
    BY <2>1 DEF Turning, Working
  <2> QED BY <1>1, <2>1, <2>2, <2>3, <2>4 DEF Hearing
<1>13. ASSUME NEW w \in Worker, NEW m \in Msg,
              \/ UseTools(w, m) \/ TeardownFails(w, m)
              \/ RunFails(w, m) \/ CommitFails(w, m) \/ RescheduleFails(w, m)
       PROVE  Hearing'
  <2>1. UNCHANGED Rows
    BY <1>13 DEF UseTools, TeardownFails, RunFails, CommitFails, RescheduleFails
  <2>2. Becomes(w, "thinking") \/ Becomes(w, "wake") \/ Becomes(w, "leaving")
    BY <1>13 DEF UseTools, TeardownFails, RunFails, CommitFails, RescheduleFails, Fails, Finalize
  <2> QED BY <1>3, <1>4, <1>6, <2>1, <2>2
<1>14. ASSUME NEW w \in Worker, NEW r \in Replies, StopWaiting(w, r) \/ Unreachable(w, r) \/ Skip(w, r)
       PROVE  Hearing'
  BY <1>3, <1>4, <1>6, <1>14 DEF StopWaiting, Unreachable, Skip
<1>15. ASSUME NEW r \in Replies, Deliver(r) \/ DeliveryFails(r) PROVE Hearing'
  <2>1. PICK phase \in {"told", "refused"} : Answer(r, phase)
    BY <1>15 DEF Deliver, DeliveryFails
  <2>2. \A v \in Worker : worker'[v].phase = "asked" => worker'[v] = worker[v]
    BY <1>2, <2>1 DEF Answer, Thread
  <2> QED BY <1>1, <1>6, <1>15, <2>2, HearingKept DEF Deliver, DeliveryFails
<1>16. ASSUME NEW r \in Replies, SlotExpires(r) PROVE Hearing'
  BY <1>1, <1>6, <1>16, HearingKept DEF SlotExpires
<1>17. CASE Crash
  <2>1. \A v \in Worker : worker'[v].phase # "asked"
    BY <1>17 DEF Crash, Idle, Absent
  <2> QED BY <1>1, <1>6, <1>17, <2>1, HearingKept DEF Crash
<1>18. CASE WebRestart
  <2>1. \A v \in Worker : worker'[v].phase = "asked" => worker'[v] = worker[v]
    BY <1>2, <1>18 DEF WebRestart, Thread
  <2> QED BY <1>1, <1>6, <1>18, <2>1, HearingKept DEF WebRestart
<1>19. CASE UNCHANGED vars
  BY <1>1, <1>19, HearingKept DEF vars, turnVars
<1> QED BY <1>7, <1>8, <1>9, <1>10, <1>11, <1>12, <1>13, <1>14, <1>15, <1>16, <1>17, <1>18, <1>19
        DEF Next

\* The model wrote its reply with every message of the turn before it (TurnInbox and the
\* rounds of run_agent_turn), unless the loop returned without asking again, an older reply
\* was overlooked or a running worker was taken for dead.
THEOREM AnswersWhatItHeard == Spec => []NothingSwallowed
<1>1. Init => Hearing
  BY DEF Init, FreshSession, Hearing, Turning, Idle, Absent, Own, Msg
<1>2. TurnsTypeOK /\ Hearing => NothingSwallowed
  BY DEF Hearing, NothingSwallowed
<1>3. TurnsTypeOK /\ Coherent /\ Exclusive /\ Hearing /\ [Next]_vars => Hearing'
  BY HearingStep, TypeStep
<1> QED BY <1>1, <1>2, <1>3, CoherenceHolds, PTL DEF Spec
-----------------------------------------------------------------------------

\* Until Web forgets a delivery, whatever has arrived once has a slot and is not being
\* sent.
Memory ==
  "lapsed" \notin marks =>
    \A r \in Replies : delivered[r] = 0 \/ (delivered[r] = 1 /\ r \in slot \ sending)

\* Every step keeps Web's memory of what has arrived.
LEMMA MemoryStep == TurnsTypeOK /\ Memory /\ [Next]_vars => Memory'
<1> SUFFICES ASSUME TurnsTypeOK, Memory, [Next]_vars, "lapsed" \notin marks'
             PROVE  \A r \in Replies : delivered'[r] = 0 \/ (delivered'[r] = 1 /\ r \in slot' \ sending')
  BY DEF Memory
<1> DEFINE Remembered(r) == delivered[r] = 0 \/ (delivered[r] = 1 /\ r \in slot \ sending)
           Goal == \A r \in Replies : delivered'[r] = 0 \/ (delivered'[r] = 1 /\ r \in slot' \ sending')
<1>1. /\ \A r \in Replies : Remembered(r)
      /\ delivered \in [Replies -> Nat] /\ sending \subseteq slot /\ slot \subseteq Replies
  BY MarksGrow DEF Memory, TurnsTypeOK, DeskTypeOK, TurnsAssumption
<1>2. ASSUME UNCHANGED deskVars PROVE Goal
  BY <1>1, <1>2 DEF deskVars
<1>3. ASSUME Arrive \/ CloseSession \/ Crash PROVE Goal
  BY <1>2, <1>3 DEF Arrive, CloseSession, Crash
<1>4. ASSUME NEW w \in Worker, WorkerStep(w) PROVE Goal
  <2>1. ASSUME NEW r \in Replies, Post(w, r) PROVE Goal
    BY <1>1, <1>2, <2>1 DEF Post, Receive, Deduplicate, Claimed
  <2>2. ASSUME NEW r \in Replies, SendDone(w, r) PROVE Goal
    BY <1>2, <2>2 DEF SendDone
  <2>3. ASSUME NEW m \in Msg,
               StartTurn(w, m) \/ Ask(w, m) \/ PersistFinal(w, m) \/ EndTurn(w, m) \/ Reschedule(w, m)
        PROVE  Goal
    BY <1>2, <2>3 DEF StartTurn, Ask, PersistFinal, EndTurn, Reschedule
  <2>4. ASSUME NEW j \in Job, Claim(w, j) PROVE Goal
    BY <1>2, <2>4 DEF Claim
  <2>5. ASSUME Look(w) \/ NothingToDo(w) \/ Leave(w) \/ CloseDone(w) PROVE Goal
    BY <1>2, <2>5 DEF Look, NothingToDo, Leave, CloseDone
  <2> HIDE DEF Goal
  <2> QED BY <1>4, <2>1, <2>2, <2>3, <2>4, <2>5 DEF WorkerStep
<1>5. ASSUME NEW w \in Worker, NEW j \in Job, RecoverJob(w, j) PROVE Goal
  BY <1>2, <1>5 DEF RecoverJob
<1>6. ASSUME NEW w \in Worker, RecoverTurn(w) PROVE Goal
  BY <1>2, <1>6 DEF RecoverTurn
<1>7. ASSUME NEW w \in Worker, NEW m \in Msg,
             \/ UseTools(w, m) \/ \E n \in Msg : Consume(w, m, n)
             \/ RunFails(w, m) \/ TeardownFails(w, m) \/ CommitFails(w, m) \/ RescheduleFails(w, m)
      PROVE  Goal
  BY <1>2, <1>7 DEF UseTools, Consume, RunFails, TeardownFails, CommitFails, RescheduleFails
<1>8. ASSUME NEW w \in Worker, NEW r \in Replies, StopWaiting(w, r) \/ Unreachable(w, r) \/ Skip(w, r)
      PROVE  Goal
  BY <1>2, <1>8 DEF StopWaiting, Unreachable, Skip
<1>9. ASSUME NEW r \in Replies, Deliver(r) PROVE Goal
  BY <1>1, <1>9 DEF Deliver, Sent
<1>10. ASSUME NEW r \in Replies, DeliveryFails(r) PROVE Goal
  BY <1>1, <1>10 DEF DeliveryFails, NotSent, SentUnawares, CommitLost
<1>11. ASSUME NEW r \in Replies, SlotExpires(r) PROVE Goal
  BY <1>11 DEF SlotExpires
<1>12. ASSUME WebRestart PROVE Goal
  BY <1>1, <1>12 DEF WebRestart, DeskRestart
<1>13. ASSUME UNCHANGED vars PROVE Goal
  BY <1>2, <1>13 DEF vars
<1> HIDE DEF Goal
<1>14. Goal
  BY <1>3, <1>4, <1>5, <1>6, <1>7, <1>8, <1>9, <1>10, <1>11, <1>12, <1>13 DEF Next
<1> QED BY <1>14 DEF Goal

\* A reply arrives twice only if Web has lost its memory of the first time
\* (internal_channel_api.py: delivery slots).
THEOREM RepliesArriveOnce == Spec => []DeliveredOnce
<1>1. Init => Memory
  BY DEF Init, FreshSession, DeskInit, Memory, TurnsAssumption
<1>2. TurnsTypeOK /\ Memory => DeliveredOnce
  BY DEF TurnsTypeOK, DeskTypeOK, Memory, DeliveredOnce, TurnsAssumption
<1> QED BY <1>1, <1>2, TypeCorrect, MemoryStep, PTL DEF Spec
-----------------------------------------------------------------------------

\* The job is waiting or being processed.
Live(j) == job[j] \in {"pending", "processing"}

\* The session has one process job that waits or runs.
OneJob ==
  {"doubled", "overtaken"} \cap marks = {} =>
    \A i, j \in ProcessJobs : Live(i) /\ Live(j) => i = j

\* Every step keeps it that way, unless a job is added beside a pending one.
LEMMA OneJobStep ==
  TurnsTypeOK /\ TurnsTypeOK' /\ Coherent /\ Exclusive /\ OneJob /\ [Next]_vars => OneJob'
<1> SUFFICES ASSUME TurnsTypeOK, TurnsTypeOK', Coherent, Exclusive, OneJob, [Next]_vars,
                    {"doubled", "overtaken"} \cap marks' = {}
             PROVE  \A i, j \in ProcessJobs : Live(i)' /\ Live(j)' => i = j
  BY DEF OneJob
<1> DEFINE Goal == \A i, j \in ProcessJobs : Live(i)' /\ Live(j)' => i = j
<1>1. /\ \A i, j \in ProcessJobs : Live(i) /\ Live(j) => i = j
      /\ Alone /\ job \in [Job -> Statuses] /\ job' \in [Job -> Statuses]
      /\ ProcessJobs \subseteq Job
  BY MarksGrow, JobFacts DEF OneJob, Exclusive, TurnsTypeOK
<1>2. ASSUME \A j \in ProcessJobs : Live(j)' => Live(j) PROVE Goal
  BY <1>1, <1>2
<1>3. ASSUME job' = job PROVE Goal
  BY <1>1, <1>3 DEF Live
<1>4. ASSUME NEW o \in BOOLEAN, NEW r \in BOOLEAN, NEW n \in 0..NMsg, ScheduleFrom(o, r, n, marks),
             \A j \in ProcessJobs : Live(j)' => Enqueued(job)[j] \in {"pending", "processing"}
      PROVE  Goal
  <2>1. CASE Enqueued(job) = job
    BY <1>2, <1>4, <2>1 DEF Live
  <2>2. ASSUME NEW m \in Msg, WithStatus(ProcessJobs, "processing") = {},
               marks' = marks \cup (IF WithStatus(ProcessJobs, "pending") # {} THEN {"doubled"} ELSE {}),
               Enqueued(job) = [job EXCEPT ![Process(m)] = "pending"]
        PROVE  Goal
    <3>1. WithStatus(ProcessJobs, "pending") = {}
      BY <2>2
    <3>2. \A j \in ProcessJobs : ~Live(j)
      BY <2>2, <3>1 DEF WithStatus, Live
    <3>3. \A j \in ProcessJobs : j # Process(m) => ~Live(j)'
      BY <1>1, <1>4, <2>2, <3>2 DEF Live
    <3> QED BY <3>3
  <2> HIDE DEF Goal
  <2> QED BY <1>4, <2>1, <2>2, Scheduling DEF Goal
<1>5. ASSUME NEW w \in Worker, Working(w) \in Job, Finish(w, job) \/ Finalize(w) \/ Fails(w),
             Working(w) \in ProcessJobs => Live(Working(w))
      PROVE  Goal
  <2>1. \A j \in ProcessJobs : Live(j)' => Live(j)
    BY <1>1, <1>5, Closed DEF Live
  <2> QED BY <1>2, <2>1
<1>6. ASSUME Arrive PROVE Goal
  <2>1. PICK reset \in {FALSE, TurnIsStale} : ScheduleFrom(TRUE, running /\ ~reset, arrived + 1, marks)
    BY <1>6 DEF Arrive
  <2>2. arrived + 1 \in 0..NMsg /\ (running /\ ~reset) \in BOOLEAN
    BY <1>6 DEF Arrive, TurnsTypeOK
  <2> HIDE DEF Goal
  <2> QED BY <1>4, <1>6, <2>1, <2>2 DEF Arrive, Live
<1>7. ASSUME CloseSession PROVE Goal
  <2>1. \A j \in ProcessJobs : Live(j)' => Live(j)
    BY <1>1, <1>7, JobFacts DEF CloseSession, Live
  <2> QED BY <1>2, <2>1
<1>8. ASSUME NEW w \in Worker, WorkerStep(w) PROVE Goal
  <2> HIDE DEF Goal
  <2>1. ASSUME NEW j \in Job, Claim(w, j) PROVE Goal
    <3>1. job[j] = "pending" /\ job' = [job EXCEPT ![j] = "processing"]
      BY <2>1 DEF Claim, Claimable, WithStatus
    <3> QED BY <1>1, <1>2, <3>1 DEF Live
  <2>2. ASSUME NEW m \in Msg, PersistFinal(w, m) PROVE Goal
    <3>1. finals[m] + 1 \in 1..2
      BY <2>2 DEF PersistFinal, TurnsTypeOK
    <3>2. Send(<<m, finals[m] + 1>>) \notin ProcessJobs
      BY <3>1, JobFacts
    <3>3. \A j \in ProcessJobs : job'[j] = job[j]
      BY <1>1, <2>2, <3>2 DEF PersistFinal
    <3> QED BY <1>2, <3>3 DEF Live
  <2>3. ASSUME NEW m \in Msg, EndTurn(w, m) PROVE Goal
    <3>1. PICK seen \in {open, TRUE} : ScheduleFrom(seen, FALSE, arrived, marks)
      BY <2>3 DEF EndTurn
    <3>2. seen \in BOOLEAN /\ FALSE \in BOOLEAN /\ arrived \in 0..NMsg
      BY DEF TurnsTypeOK
    <3>3. Enqueued(job) \in [Job -> Statuses]
      BY <3>1, <3>2, ScheduleTypes
    <3>4. \A j \in ProcessJobs : Live(j)' => Enqueued(job)[j] \in {"pending", "processing"}
      BY <1>1, <2>3, <3>3 DEF EndTurn, Finish, Live
    <3> QED BY <1>4, <3>1, <3>2, <3>4
  <2>4. ASSUME NEW m \in Msg, Reschedule(w, m) PROVE Goal
    <3>1. open \in BOOLEAN /\ running \in BOOLEAN /\ arrived \in 0..NMsg
      BY DEF TurnsTypeOK
    <3> QED BY <1>4, <2>4, <3>1 DEF Reschedule, Live
  <2>5. ASSUME CloseDone(w) PROVE Goal
    <3>1. Working(w) \in Job /\ Working(w) \notin ProcessJobs
      BY <2>5, JobFacts DEF CloseDone
    <3> QED BY <1>5, <2>5, <3>1 DEF CloseDone
  <2>6. ASSUME NEW r \in Replies, SendDone(w, r) PROVE Goal
    <3>1. Working(w) \in Job /\ Working(w) \notin ProcessJobs
      BY <2>6, JobFacts DEF SendDone, Sending
    <3> QED BY <1>5, <2>6, <3>1 DEF SendDone
  <2>7. ASSUME Look(w) \/ NothingToDo(w) \/ Leave(w) PROVE Goal
    BY <1>3, <2>7 DEF Look, NothingToDo, Leave
  <2>8. ASSUME NEW m \in Msg, StartTurn(w, m) \/ Ask(w, m) PROVE Goal
    BY <1>3, <2>8 DEF StartTurn, Ask
  <2>9. ASSUME NEW r \in Replies, Post(w, r) PROVE Goal
    BY <1>3, <2>9 DEF Post
  <2> QED BY <1>8, <2>1, <2>2, <2>3, <2>4, <2>5, <2>6, <2>7, <2>8, <2>9 DEF WorkerStep
<1>9. ASSUME NEW w \in Worker, RecoverTurn(w) PROVE Goal
  <2>1. arrived \in 0..NMsg
    BY DEF TurnsTypeOK
  <2> HIDE DEF Goal
  <2> QED BY <1>4, <1>9, <2>1 DEF RecoverTurn, Live
<1>10. ASSUME NEW w \in Worker, NEW j \in Job, RecoverJob(w, j) PROVE Goal
  <2>1. job[j] = "processing" /\ job' = [job EXCEPT ![j] = "pending"]
    BY <1>10 DEF RecoverJob
  <2>2. \A i \in ProcessJobs : Live(i)' => Live(i)
    BY <1>1, <2>1 DEF Live
  <2> QED BY <1>2, <2>2
<1>11. ASSUME NEW w \in Worker, NEW m \in Msg, RunFails(w, m) \/ CommitFails(w, m) PROVE Goal
  <2>1. Working(w) \in Job /\ worker[w].phase \in Busy /\ Fails(w)
    BY <1>11, JobFacts DEF RunFails, CommitFails, Turning, Busy
  <2>2. Live(Working(w))
    BY <1>1, <2>1 DEF Alone, Live
  <2> QED BY <1>5, <2>1, <2>2
<1>12. ASSUME NEW w \in Worker, NEW m \in Msg, TeardownFails(w, m) PROVE Goal
  <2>1. Working(w) \in Job /\ worker[w].phase \in Busy /\ Finish(w, job)
    BY <1>12, JobFacts DEF TeardownFails, Turning, Busy
  <2>2. Live(Working(w))
    BY <1>1, <2>1 DEF Alone, Live
  <2> QED BY <1>5, <2>1, <2>2
<1>13. ASSUME NEW w \in Worker, NEW m \in Msg, RescheduleFails(w, m) PROVE Goal
  <2>1. Working(w) \in Job /\ Fails(w)
    BY <1>13, JobFacts DEF RescheduleFails, Turning
  <2>2. WithStatus(ProcessJobs, "pending") = {} /\ WithStatus(ProcessJobs, "processing") = {}
    BY <1>13 DEF RescheduleFails
  <2>3. \A j \in ProcessJobs : ~Live(j)
    BY <2>2 DEF WithStatus, Live
  <2>4. \A j \in ProcessJobs : j # Working(w) => ~Live(j)'
    BY <1>1, <2>1, <2>3, Closed DEF Live
  <2> QED BY <2>4
<1>14. ASSUME NEW w \in Worker, NEW m \in Msg, UseTools(w, m) \/ \E n \in Msg : Consume(w, m, n)
       PROVE  Goal
  BY <1>3, <1>14 DEF Consume, UseTools
<1>15. ASSUME NEW w \in Worker, NEW r \in Replies, StopWaiting(w, r) \/ Unreachable(w, r) \/ Skip(w, r)
       PROVE  Goal
  BY <1>3, <1>15 DEF StopWaiting, Unreachable, Skip
<1>16. ASSUME NEW r \in Replies, Deliver(r) \/ DeliveryFails(r) \/ SlotExpires(r) PROVE Goal
  BY <1>3, <1>16 DEF Deliver, DeliveryFails, SlotExpires
<1>17. ASSUME Crash \/ WebRestart PROVE Goal
  BY <1>3, <1>17 DEF Crash, WebRestart
<1>18. ASSUME UNCHANGED vars PROVE Goal
  BY <1>3, <1>18 DEF vars, turnVars
<1> HIDE DEF Goal
<1>19. Goal
  BY <1>6, <1>7, <1>8, <1>9, <1>10, <1>11, <1>12, <1>13, <1>14, <1>15, <1>16, <1>17, <1>18 DEF Next
<1> QED BY <1>19 DEF Goal

\* The turns of a session are worked on one at a time, unless a job was added beside one
\* still pending or a running worker was taken for dead.
THEOREM TurnsDoNotOverlap == Spec => []TurnsSerial
<1>1. Init => OneJob
  BY JobFacts DEF Init, FreshSession, OneJob, Live
<1>2. TurnsTypeOK /\ Coherent /\ Exclusive /\ OneJob => TurnsSerial
  <2> SUFFICES ASSUME TurnsTypeOK, Exclusive, OneJob, {"doubled", "overtaken"} \cap marks = {}
               PROVE  Cardinality({w \in Worker : \E m \in Msg, p \in {"claimed", "thinking", "asked", "answered"} :
                                                    Turning(w, m, p)}) <= 1
    BY DEF TurnsSerial
  <2> DEFINE S == {w \in Worker : \E m \in Msg, p \in {"claimed", "thinking", "asked", "answered"} : Turning(w, m, p)}
  <2>1. Alone /\ \A i, j \in ProcessJobs : Live(i) /\ Live(j) => i = j
    BY DEF Exclusive, OneJob
  <2>2. \A w \in S : Working(w) \in ProcessJobs /\ worker[w].phase \in Busy
    BY JobFacts DEF Turning, Busy
  <2>3. \A w \in S : Live(Working(w)) /\ Engaged(w)
    BY <2>1, <2>2 DEF Alone, Live, Engaged
  <2>4. \A v, w \in S : v = w
    BY <2>1, <2>2, <2>3 DEF Alone
  <2> HIDE DEF S
  <2>5. CASE S = {}
    <3>1. Cardinality(S) = 0
      BY <2>5, FS_EmptySet
    <3> QED BY <3>1 DEF S
  <2>6. CASE S # {}
    <3>1. PICK w : S = {w}
      BY <2>4, <2>6
    <3>2. Cardinality(S) = 1
      BY <3>1, FS_Singleton
    <3> QED BY <3>2 DEF S
  <2> QED BY <2>5, <2>6
<1>3. /\ TurnsTypeOK /\ Coherent /\ Exclusive /\ OneJob /\ [Next]_vars => OneJob'
  BY OneJobStep, TypeStep
<1> QED BY <1>1, <1>2, <1>3, CoherenceHolds, PTL DEF Spec
-----------------------------------------------------------------------------

\* Something will look for waiting messages.
Looked ==
  \/ running
  \/ \E j \in ProcessJobs : Live(j)
  \/ \E w \in Worker : worker[w].phase = "wake"

\* Whatever ends a turn leaves somebody to look for the messages that came meanwhile, or
\* marks the cut.
LEMMA StrandedStep ==
  TurnsTypeOK /\ TurnsTypeOK' /\ Coherent /\ NotStranded /\ [Next]_vars => NotStranded'
<1> SUFFICES ASSUME TurnsTypeOK, TurnsTypeOK', Coherent, NotStranded, [Next]_vars,
                    Waiting(arrived)' # {}, open', "cut" \notin marks'
             PROVE  Looked'
  BY DEF NotStranded, Looked, Live, WithStatus
<1>1. /\ Waiting(arrived) # {} /\ open => Looked
      /\ job \in [Job -> Statuses] /\ job' \in [Job -> Statuses]
      /\ worker \in [Worker -> Thread] /\ ProcessJobs \subseteq Job
      /\ \A w \in Worker : Working(w) # NoWorkerJob => job[Working(w)] # "none"
  BY MarksGrow, JobFacts, ThreadTypes DEF NotStranded, Looked, Live, WithStatus, TurnsTypeOK, Coherent, WorkersFit
<1>2. ASSUME UNCHANGED Rows PROVE Looked
  BY <1>1, <1>2 DEF Rows, Waiting, Handled
<1>3. ASSUME UNCHANGED Rows, \A j \in ProcessJobs : Live(j) => Live(j)',
             \A w \in Worker : worker[w].phase = "wake" => worker'[w].phase = "wake"
      PROVE  Looked'
  BY <1>2, <1>3 DEF Looked, Rows
<1>4. ASSUME NEW o \in BOOLEAN, NEW r \in BOOLEAN, ScheduleFrom(o, r, arrived', marks), open' => o,
             \A j \in ProcessJobs : job'[j] = Enqueued(job)[j]
      PROVE  Looked'
  <2>0. arrived' \in 0..NMsg
    BY DEF TurnsTypeOK
  <2>1. CASE running' = TRUE
    BY <2>1 DEF Looked
  <2>2. ASSUME ~o \/ r \/ Waiting(arrived') = {} \/ WithStatus(ProcessJobs, "processing") # {},
               running' = r, owner' = owner, Enqueued(job) = job
        PROVE  Looked'
    <3>1. CASE r
      BY <2>2, <3>1 DEF Looked
    <3>2. CASE WithStatus(ProcessJobs, "processing") # {}
      BY <1>4, <2>2, <3>2 DEF Looked, Live, WithStatus
    <3>3. CASE Waiting(arrived') = {}
      BY <2>2, <3>3 DEF Waiting, Handled
    <3> QED BY <1>4, <2>2, <3>1, <3>2, <3>3
  <2> QED BY <1>4, <2>0, <2>1, <2>2, Scheduling
\* A job that ends or goes back leaves a pending row, or the cut is marked.
<1>5. ASSUME NEW w \in Worker, Working(w) \in ProcessJobs, UNCHANGED Rows, Fails(w),
             CutOff(w) \subseteq marks'
      PROVE  Looked'
  <2>1. Working(w) \in Job /\ Working(w) # NoWorkerJob /\ job'[Working(w)] \in Statuses
    BY <1>1, <1>5 DEF TurnsAssumption
  <2>2. job'[Working(w)] # "none"
    BY <1>1, <1>5, <2>1, Closed
  <2>3. CASE job'[Working(w)] \in {"done", "failed"}
    <3>1. running
      BY <1>5, <2>3 DEF CutOff
    <3> QED BY <1>5, <3>1 DEF Looked, Rows
  <2>4. CASE job'[Working(w)] \in {"pending", "processing"}
    BY <1>5, <2>4 DEF Looked, Live
  <2> QED BY <2>1, <2>2, <2>3, <2>4 DEF Statuses
<1>6. CASE Arrive
  <2>1. PICK reset \in {FALSE, TurnIsStale} : ScheduleFrom(TRUE, running /\ ~reset, arrived', marks)
    BY <1>6 DEF Arrive
  <2>2. (running /\ ~reset) \in BOOLEAN
    BY DEF TurnsTypeOK
  <2> QED BY <1>4, <1>6, <2>1, <2>2 DEF Arrive
<1>7. CASE CloseSession
  BY <1>7 DEF CloseSession
<1>8. ASSUME NEW w \in Worker, NEW phase \in Phases, Becomes(w, phase),
             worker[w].phase = "wake" => phase = "wake"
      PROVE  \A v \in Worker : worker[v].phase = "wake" => worker'[v].phase = "wake"
  BY <1>8, Moved
<1>9. ASSUME NEW w \in Worker, WorkerStep(w) PROVE Looked'
  <2>0. {"idle", "thinking", "asked", "answered", "wake", "leaving", "posting", "told", "refused"} \subseteq Phases
    BY DEF Phases
  <2>1. CASE Look(w)
    <3>1. \A v \in Worker : worker[v].phase = "wake" => worker'[v].phase = "wake"
      BY <1>1, <2>1 DEF Look
    <3> QED BY <1>3, <2>1, <3>1 DEF Look, Live
  <2>2. ASSUME NEW j \in Job, Claim(w, j) PROVE Looked'
    <3>1. \A v \in Worker : worker[v].phase = "wake" => worker'[v].phase = "wake"
      BY <1>1, <2>2 DEF Claim
    <3>2. job' = [job EXCEPT ![j] = "processing"]
      BY <2>2 DEF Claim
    <3>3. \A i \in ProcessJobs : Live(i) => Live(i)'
      BY <1>1, <3>2 DEF Live
    <3> QED BY <1>3, <2>2, <3>1, <3>3 DEF Claim
  <2>3. CASE NothingToDo(w)
    BY <1>3, <1>8, <2>0, <2>3 DEF NothingToDo, Live
  <2>4. CASE Leave(w)
    <3>1. \A v \in Worker : worker[v].phase = "wake" => worker'[v].phase = "wake"
      BY <1>1, <2>4 DEF Leave
    <3> QED BY <1>3, <2>4, <3>1 DEF Leave, Live
  <2>5. ASSUME NEW m \in Msg, StartTurn(w, m) \/ Ask(w, m) PROVE Looked'
    <3>1. /\ \A v \in Worker : worker[v].phase = "wake" => worker'[v].phase = "wake"
          /\ UNCHANGED <<arrived, owner, open, running, job>>
      BY <1>8, <2>0, <2>5 DEF StartTurn, Ask, Turning
    <3>2. Looked
      BY <1>1, <3>1 DEF Waiting, Handled
    <3> QED BY <3>1, <3>2 DEF Looked, Live
  <2>6. ASSUME NEW m \in Msg, PersistFinal(w, m) PROVE Looked'
    <3>1. finals[m] + 1 \in 1..2
      BY <2>6 DEF PersistFinal, TurnsTypeOK
    <3>2. Send(<<m, finals[m] + 1>>) \notin ProcessJobs
      BY <3>1, JobFacts
    <3>3. \A j \in ProcessJobs : Live(j) => Live(j)'
      BY <1>1, <2>6, <3>2 DEF PersistFinal, Live
    <3>4. \A v \in Worker : worker[v].phase = "wake" => worker'[v].phase = "wake"
      BY <1>8, <2>0, <2>6 DEF PersistFinal, Turning
    <3>5. Looked
      BY <1>1, <2>6 DEF PersistFinal, Waiting, Handled
    <3> QED BY <2>6, <3>3, <3>4, <3>5 DEF Looked, PersistFinal
  <2>7. ASSUME NEW m \in Msg, EndTurn(w, m) PROVE Looked'
    <3>1. worker'[w].phase = "wake"
      BY <2>0, <2>7, Moved DEF EndTurn
    <3> QED BY <3>1 DEF Looked
  <2>8. ASSUME NEW m \in Msg, Reschedule(w, m) PROVE Looked'
    <3>1. open \in BOOLEAN /\ running \in BOOLEAN
      BY DEF TurnsTypeOK
    <3>2. ScheduleFrom(open, running, arrived', marks) /\ (open' => open) /\ job' = Enqueued(job)
      BY <2>8 DEF Reschedule
    <3> QED BY <1>4, <3>1, <3>2
  <2>9. CASE CloseDone(w)
    <3>1. Working(w) \in Job /\ Working(w) \notin ProcessJobs
      BY <2>9, JobFacts DEF CloseDone
    <3>2. \A j \in ProcessJobs : job'[j] = job[j]
      BY <1>1, <2>9, <3>1, Closed DEF CloseDone
    <3>3. \A v \in Worker : worker[v].phase = "wake" => worker'[v].phase = "wake"
      BY <1>8, <2>0, <2>9, <3>1, Closed DEF CloseDone
    <3> QED BY <1>3, <2>9, <3>2, <3>3 DEF CloseDone, Live
  <2>10. ASSUME NEW r \in Replies, Post(w, r) PROVE Looked'
    BY <1>3, <1>8, <2>0, <2>10 DEF Post, Sending, Live
  <2>11. ASSUME NEW r \in Replies, SendDone(w, r) PROVE Looked'
    <3>1. Working(w) \in Job /\ Working(w) \notin ProcessJobs
      BY <2>11, JobFacts DEF SendDone, Sending
    <3>2. \A j \in ProcessJobs : job'[j] = job[j]
      BY <1>1, <2>11, <3>1, Closed DEF SendDone
    <3>3. \A v \in Worker : worker[v].phase = "wake" => worker'[v].phase = "wake"
      BY <1>8, <2>0, <2>11, <3>1, Closed DEF SendDone, Sending
    <3> QED BY <1>3, <2>11, <3>2, <3>3 DEF SendDone, Live
  <2> QED BY <1>9, <2>1, <2>2, <2>3, <2>4, <2>5, <2>6, <2>7, <2>8, <2>9, <2>10, <2>11 DEF WorkerStep
<1>10. ASSUME NEW w \in Worker, RecoverTurn(w) PROVE Looked'
  <2>1. /\ ScheduleFrom(TRUE, FALSE, arrived', marks) /\ job' = Enqueued(job)
        /\ TRUE \in BOOLEAN /\ FALSE \in BOOLEAN
    BY <1>10 DEF RecoverTurn
  <2> QED BY <1>4, <2>1
<1>11. ASSUME NEW w \in Worker, NEW j \in Job, RecoverJob(w, j) PROVE Looked'
  <2>1. job' = [job EXCEPT ![j] = "pending"]
    BY <1>11 DEF RecoverJob
  <2>2. \A i \in ProcessJobs : Live(i) => Live(i)'
    BY <1>1, <2>1 DEF Live
  <2> QED BY <1>3, <1>11, <2>2 DEF RecoverJob
<1>12. ASSUME NEW w \in Worker, NEW m \in Msg, NEW n \in Msg, Consume(w, m, n) PROVE Looked'
  <2>1. owner \in [Msg -> 0..NMsg] /\ m # 0
    BY DEF TurnsTypeOK, Msg
  <2>2. \A k \in Msg : owner'[k] = 0 => owner[k] = 0
    BY <1>12, <2>1 DEF Consume
  <2>3. arrived' = arrived /\ arrived \in 0..NMsg /\ 1..arrived \subseteq Msg
    BY <1>12 DEF Consume, TurnsTypeOK, Msg
  <2>4. Looked
    BY <1>1, <1>12, <2>2, <2>3 DEF Consume, Waiting, Handled
  <2> QED BY <1>12, <2>4 DEF Looked, Consume, Live
<1>13. ASSUME NEW w \in Worker, NEW m \in Msg, RunFails(w, m) \/ CommitFails(w, m) \/ RescheduleFails(w, m)
       PROVE Looked'
  <2>1. /\ Working(w) \in ProcessJobs /\ UNCHANGED Rows /\ Fails(w)
        /\ CutOff(w) \subseteq marks'
    BY <1>13, JobFacts DEF RunFails, CommitFails, RescheduleFails, Turning
  <2> QED BY <1>5, <2>1
<1>14. ASSUME NEW w \in Worker, NEW m \in Msg, TeardownFails(w, m) PROVE Looked'
  <2>1. "wake" \in Phases /\ Becomes(w, "wake")
    BY <1>14 DEF Phases, TeardownFails
  <2>2. worker'[w].phase = "wake"
    BY <2>1, Moved
  <2> QED BY <2>2 DEF Looked
<1>15. ASSUME NEW w \in Worker, NEW r \in Replies, StopWaiting(w, r) \/ Unreachable(w, r) \/ Skip(w, r)
       PROVE Looked'
  <2>1. /\ {"refused", "told"} \subseteq Phases /\ UNCHANGED <<Rows, job>>
        /\ Becomes(w, "refused") \/ Becomes(w, "told")
        /\ worker[w].phase # "wake"
    BY <1>15 DEF StopWaiting, Unreachable, Skip, Sending, Phases
  <2> QED BY <1>3, <1>8, <2>1 DEF Live
<1>21. ASSUME NEW w \in Worker, NEW m \in Msg, UseTools(w, m) PROVE Looked'
  <2>1. /\ "thinking" \in Phases /\ UNCHANGED <<Rows, job>> /\ Becomes(w, "thinking")
        /\ worker[w].phase # "wake"
    BY <1>21 DEF UseTools, Turning, Phases
  <2> QED BY <1>3, <1>8, <2>1 DEF Live
<1>16. ASSUME NEW r \in Replies, Deliver(r) \/ DeliveryFails(r) PROVE Looked'
  <2>1. PICK phase \in {"told", "refused"} : Answer(r, phase)
    BY <1>16 DEF Deliver, DeliveryFails
  <2>2. \A v \in Worker : worker[v].phase = "wake" => worker'[v].phase = "wake"
    BY <1>1, <2>1 DEF Answer, Sending
  <2> QED BY <1>3, <1>16, <2>2 DEF Deliver, DeliveryFails, Live
<1>17. ASSUME NEW r \in Replies, SlotExpires(r) PROVE Looked'
  BY <1>3, <1>17 DEF SlotExpires, Live
<1>18. CASE Crash
  <2>1. \A v \in Worker : worker[v].phase # "wake"
    BY <1>18 DEF Crash
  <2> QED BY <1>3, <1>18, <2>1 DEF Crash, Live
<1>19. CASE WebRestart
  <2>1. \A v \in Worker : worker[v].phase = "wake" => worker'[v].phase = "wake"
    BY <1>1, <1>19 DEF WebRestart
  <2> QED BY <1>3, <1>19, <2>1 DEF WebRestart, Live
<1>20. CASE UNCHANGED vars
  BY <1>3, <1>20 DEF vars, turnVars, Rows, Live
<1> QED BY <1>6, <1>7, <1>9, <1>10, <1>11, <1>12, <1>13, <1>14, <1>15, <1>16, <1>17, <1>18,
           <1>19, <1>20, <1>21 DEF Next

\* A message that waits in an open session has something that will pick it up
\* (reschedule_session_after_turn), unless a crash or a last failure cut the look off.
THEOREM NobodyStranded == Spec => []NotStranded
<1>1. Init => NotStranded
  BY DEF Init, FreshSession, NotStranded, Waiting
<1>2. TurnsTypeOK /\ Coherent /\ NotStranded /\ [Next]_vars => NotStranded'
  BY StrandedStep, TypeStep
<1> QED BY <1>1, <1>2, CoherenceHolds, PTL DEF Spec
-----------------------------------------------------------------------------

\* The reply has reached the user or is on its way.
Reached(r) == delivered[r] > 0 \/ r \in sending

\* Until a retry is told "sent" too early, a commit of Web's is lost or nothing is sent at
\* all: a slot speaks of a reply that has arrived or is on its way, and a worker that has
\* been told so, like a finished job, of one that has arrived.
Lossless ==
  {"assumed", "unsaved", "skipped"} \cap marks = {} =>
    /\ \A r \in slot : Reached(r)
    /\ \A w \in Worker, r \in Replies : Sending(w, r, "told") => delivered[r] > 0
    /\ \A r \in Replies : job[Send(r)] = "done" => delivered[r] > 0

\* Every step keeps it so.
LEMMA LosslessStep ==
  TurnsTypeOK /\ TurnsTypeOK' /\ Coherent /\ Lossless /\ [Next]_vars => Lossless'
<1> SUFFICES ASSUME TurnsTypeOK, TurnsTypeOK', Coherent, Lossless, [Next]_vars,
                    {"assumed", "unsaved", "skipped"} \cap marks' = {}
             PROVE  Lossless'
  BY DEF Lossless
<1>1. /\ job \in [Job -> Statuses] /\ worker \in [Worker -> Thread]
      /\ \A w \in Worker : worker[w].job = Working(w)
      /\ \A r \in Replies : Send(r) \in Job /\ Send(r) \notin ProcessJobs /\ Send(r) # Close
      /\ \A m \in Msg : Process(m) \in Job /\ \A r \in Replies : Send(r) # Process(m)
      /\ Close \in Job /\ Close # NoWorkerJob
  BY ThreadTypes, JobFacts DEF TurnsTypeOK, Working, TurnsAssumption
<1>2. /\ \A r \in slot : Reached(r)
      /\ \A w \in Worker, r \in Replies :
           worker[w].phase = "told" /\ worker[w].job = Send(r) => delivered[r] > 0
      /\ \A r \in Replies : job[Send(r)] = "done" => delivered[r] > 0
  BY <1>1, MarksGrow DEF Lossless, Sending
<1>3. /\ sending \subseteq slot /\ slot \subseteq Replies /\ delivered \in [Replies -> Nat]
  BY DEF TurnsTypeOK, DeskTypeOK, TurnsAssumption
\* A step that leaves the endpoint alone, tells no thread and completes no reply job.
<1>4. ASSUME UNCHANGED deskVars,
             \A r \in Replies : job'[Send(r)] = "done" => job[Send(r)] = "done",
             \A w \in Worker : worker'[w] = worker[w] \/ worker'[w].phase # "told"
      PROVE  Lossless'
  <2>1. slot' = slot /\ sending' = sending /\ delivered' = delivered
    BY <1>4 DEF deskVars
  <2>2. /\ \A r \in slot' : Reached(r)'
        /\ \A w \in Worker, r \in Replies : Sending(w, r, "told")' => delivered'[r] > 0
        /\ \A r \in Replies : job'[Send(r)] = "done" => delivered'[r] > 0
    BY <1>2, <1>4, <2>1 DEF Reached, Sending, Working
  <2> QED BY <2>2 DEF Lossless
<1>5. ASSUME NEW w \in Worker, NEW phase \in Phases, Becomes(w, phase), phase # "told"
      PROVE  \A v \in Worker : worker'[v] = worker[v] \/ worker'[v].phase # "told"
  BY <1>5, Moved
<1>6. ASSUME NEW o \in BOOLEAN, NEW r \in BOOLEAN, NEW n \in 0..NMsg, ScheduleFrom(o, r, n, marks)
      PROVE  \A q \in Replies : Enqueued(job)[Send(q)] = job[Send(q)]
  BY <1>1 DEF Enqueued
<1>7. {"idle", "thinking", "asked", "answered", "wake", "leaving", "posting", "told", "refused"} \subseteq Phases
  BY DEF Phases
<1>8. CASE Arrive
  <2>1. \A q \in Replies : Enqueued(job)[Send(q)] = job[Send(q)]
    BY <1>1 DEF Enqueued
  <2> QED BY <1>4, <1>8, <2>1 DEF Arrive
<1>9. CASE CloseSession
  <2>1. \A q \in Replies : job'[Send(q)] = job[Send(q)]
    BY <1>1, <1>9 DEF CloseSession
  <2> QED BY <1>4, <1>9, <2>1 DEF CloseSession
<1>10. ASSUME NEW w \in Worker, WorkerStep(w) PROVE Lossless'
  <2>1. CASE Look(w)
    <3>1. \A v \in Worker : worker'[v] = worker[v] \/ worker'[v].phase # "told"
      BY <1>1, <2>1 DEF Look, Thread
    <3> QED BY <1>4, <2>1, <3>1 DEF Look
  <2>2. ASSUME NEW j \in Job, Claim(w, j) PROVE Lossless'
    <3>1. \A v \in Worker : worker'[v] = worker[v] \/ worker'[v].phase # "told"
      BY <1>1, <2>2 DEF Claim, Thread
    <3>2. \A q \in Replies : job'[Send(q)] = "done" => job[Send(q)] = "done"
      BY <1>1, <2>2 DEF Claim
    <3> QED BY <1>4, <2>2, <3>1, <3>2 DEF Claim
  <2>3. CASE NothingToDo(w)
    BY <1>4, <1>5, <1>7, <2>3 DEF NothingToDo
  <2>4. CASE Leave(w)
    <3>1. \A v \in Worker : worker'[v] = worker[v] \/ worker'[v].phase # "told"
      BY <1>1, <2>4 DEF Leave, Idle
    <3> QED BY <1>4, <2>4, <3>1 DEF Leave
  <2>5. ASSUME NEW m \in Msg, StartTurn(w, m) \/ Ask(w, m) PROVE Lossless'
    BY <1>4, <1>5, <1>7, <2>5 DEF StartTurn, Ask
  <2>6. ASSUME NEW m \in Msg, PersistFinal(w, m) PROVE Lossless'
    <3>1. job' = [job EXCEPT ![Send(<<m, finals[m] + 1>>)] = "pending"]
      BY <2>6 DEF PersistFinal
    <3>2. \A q \in Replies : job'[Send(q)] = "done" => job[Send(q)] = "done"
      BY <1>1, <3>1
    <3> QED BY <1>4, <1>5, <1>7, <2>6, <3>2 DEF PersistFinal
  <2>7. ASSUME NEW m \in Msg, EndTurn(w, m) PROVE Lossless'
    <3>1. PICK seen \in {open, TRUE} : ScheduleFrom(seen, FALSE, arrived, marks)
      BY <2>7 DEF EndTurn
    <3>2. seen \in BOOLEAN /\ FALSE \in BOOLEAN /\ arrived \in 0..NMsg
      BY DEF TurnsTypeOK
    <3>3. Enqueued(job) \in [Job -> Statuses]
      BY <3>1, <3>2, ScheduleTypes
    <3>4. \A q \in Replies : job'[Send(q)] = Enqueued(job)[Send(q)]
      BY <1>1, <2>7, <3>3 DEF EndTurn, Finish, Turning
    <3>5. \A q \in Replies : job'[Send(q)] = job[Send(q)]
      BY <1>6, <3>1, <3>2, <3>4
    <3> QED BY <1>4, <1>5, <1>7, <2>7, <3>5 DEF EndTurn
  <2>8. ASSUME NEW m \in Msg, Reschedule(w, m) PROVE Lossless'
    <3>1. \A q \in Replies : Enqueued(job)[Send(q)] = job[Send(q)]
      BY <1>1 DEF Enqueued
    <3> QED BY <1>4, <1>5, <1>7, <2>8, <3>1 DEF Reschedule
  <2>9. CASE CloseDone(w)
    <3>1. \A q \in Replies : job'[Send(q)] = job[Send(q)]
      BY <1>1, <2>9, Closed DEF CloseDone
    <3>2. Becomes(w, "leaving") /\ UNCHANGED deskVars
      BY <1>1, <2>9, Closed DEF CloseDone
    <3> QED BY <1>4, <1>5, <1>7, <3>1, <3>2
  <2>10. ASSUME NEW r \in Replies, Post(w, r) PROVE Lossless'
    <3>0. Sending(w, r, "claimed") /\ job' = job
      BY <2>10 DEF Post
    <3>1. CASE Deduplicate(r) /\ Becomes(w, "told")
      <4>1. r \notin sending /\ r \in slot /\ UNCHANGED deskVars
        BY <2>10, <3>1 DEF Post, Deduplicate, Claimed
      <4>2. delivered[r] > 0 /\ slot' = slot /\ sending' = sending /\ delivered' = delivered
        BY <1>2, <4>1 DEF Reached, deskVars
      <4>3. /\ worker'[w].phase = "told" /\ worker'[w].job = Send(r)
            /\ \A v \in Worker : v # w => worker'[v] = worker[v]
        BY <1>7, <3>0, <3>1, Moved DEF Sending
      <4>4. \A v \in Worker, q \in Replies :
              worker'[v].phase = "told" /\ worker'[v].job = Send(q) => delivered'[q] > 0
        <5> SUFFICES ASSUME NEW v \in Worker, NEW q \in Replies, worker'[v].phase = "told", worker'[v].job = Send(q)
                     PROVE  delivered'[q] > 0
          OBVIOUS
        <5>1. CASE v = w
          <6>1. q = r
            BY <4>3, <5>1, JobFacts
          <6> QED BY <4>2, <6>1
        <5>2. CASE v # w
          BY <1>2, <4>2, <4>3, <5>2
        <5> QED BY <5>1, <5>2
      <4> QED BY <1>2, <3>0, <4>2, <4>4 DEF Lossless, Sending, Working, Reached
    <3>2. CASE Receive(r) /\ Becomes(w, "posting")
      <4>1. slot' = slot \cup {r} /\ sending' = sending \cup {r} /\ delivered' = delivered
        BY <3>2 DEF Receive
      <4>2. \A v \in Worker : worker'[v] = worker[v] \/ worker'[v].phase # "told"
        BY <1>5, <1>7, <3>2
      <4> QED BY <1>2, <3>0, <4>1, <4>2 DEF Lossless, Sending, Working, Reached
    <3> QED BY <2>10, <3>1, <3>2 DEF Post
  <2>11. ASSUME NEW r \in Replies, SendDone(w, r) PROVE Lossless'
    <3>1. Working(w) = Send(r) /\ Working(w) \in Job
      BY <1>1, <2>11 DEF SendDone, Sending
    <3>2. Becomes(w, "leaving") /\ UNCHANGED deskVars
      BY <2>11, <3>1, Closed DEF SendDone
    <3>3. \A v \in Worker : worker'[v] = worker[v] \/ worker'[v].phase # "told"
      BY <1>5, <1>7, <3>2
    <3>4. CASE Sending(w, r, "told") /\ Finish(w, job)
      <4>1. delivered[r] > 0
        BY <1>1, <1>2, <3>4 DEF Sending
      <4>2. \A q \in Replies : job'[Send(q)] = "done" => delivered[q] > 0
        BY <1>1, <1>2, <3>1, <3>4, <4>1, Closed, JobFacts
      <4>3. slot' = slot /\ sending' = sending /\ delivered' = delivered
        BY <3>2 DEF deskVars
      <4> QED BY <1>2, <3>3, <4>2, <4>3 DEF Lossless, Sending, Working, Reached
    <3>5. CASE Finalize(w)
      <4>1. \A q \in Replies : job'[Send(q)] = "done" => job[Send(q)] = "done"
        BY <1>1, <3>1, <3>5 DEF Finalize
      <4> QED BY <1>4, <3>2, <3>3, <4>1
    <3> QED BY <2>11, <3>4, <3>5 DEF SendDone
  <2> QED BY <1>10, <2>1, <2>2, <2>3, <2>4, <2>5, <2>6, <2>7, <2>8, <2>9, <2>10, <2>11 DEF WorkerStep
<1>11. ASSUME NEW w \in Worker, RecoverTurn(w) PROVE Lossless'
  <2>1. \A q \in Replies : Enqueued(job)[Send(q)] = job[Send(q)]
    BY <1>1 DEF Enqueued
  <2> QED BY <1>4, <1>11, <2>1 DEF RecoverTurn
<1>12. ASSUME NEW w \in Worker, NEW j \in Job, RecoverJob(w, j) PROVE Lossless'
  <2>1. \A q \in Replies : job'[Send(q)] = "done" => job[Send(q)] = "done"
    BY <1>1, <1>12 DEF RecoverJob
  <2> QED BY <1>4, <1>12, <2>1 DEF RecoverJob
<1>13. ASSUME NEW w \in Worker, NEW m \in Msg, UseTools(w, m) \/ \E n \in Msg : Consume(w, m, n)
       PROVE Lossless'
  BY <1>4, <1>5, <1>7, <1>13 DEF Consume, UseTools
<1>14. ASSUME NEW w \in Worker, NEW m \in Msg, RunFails(w, m) \/ CommitFails(w, m) \/ RescheduleFails(w, m)
       PROVE Lossless'
  <2>1. Working(w) = Process(m) /\ Fails(w) /\ UNCHANGED deskVars
    BY <1>14 DEF RunFails, CommitFails, RescheduleFails, Turning
  <2>2. \A q \in Replies : job'[Send(q)] = job[Send(q)]
    BY <1>1, <2>1, Closed
  <2>3. \A v \in Worker : worker'[v] = worker[v] \/ worker'[v].phase # "told"
    BY <1>1, <1>5, <1>7, <2>1, Closed
  <2> QED BY <1>4, <2>1, <2>2, <2>3
<1>15. ASSUME NEW w \in Worker, NEW m \in Msg, TeardownFails(w, m) PROVE Lossless'
  <2>1. Working(w) = Process(m) /\ Finish(w, job) /\ Becomes(w, "wake") /\ UNCHANGED deskVars
    BY <1>15 DEF TeardownFails, Turning
  <2>2. \A q \in Replies : job'[Send(q)] = job[Send(q)]
    BY <1>1, <2>1, Closed
  <2> QED BY <1>4, <1>5, <1>7, <2>1, <2>2
<1>16. ASSUME NEW w \in Worker, NEW r \in Replies, StopWaiting(w, r) \/ Unreachable(w, r) \/ Skip(w, r)
       PROVE Lossless'
  <2>1. Becomes(w, "refused") /\ UNCHANGED <<deskVars, job>>
    BY <1>16 DEF StopWaiting, Unreachable, Skip
  <2> QED BY <1>4, <1>5, <1>7, <2>1
<1>17. ASSUME NEW r \in Replies, NEW phase \in {"told", "refused"}, Answer(r, phase)
       PROVE  \A v \in Worker :
                \/ worker'[v] = worker[v] /\ ~Sending(v, r, "posting")
                \/ Sending(v, r, "posting") /\ worker'[v].phase = phase /\ worker'[v].job = Send(r)
  BY <1>1, <1>17 DEF Answer, Sending, Thread
\* The channel took the reply.
<1>18. ASSUME NEW r \in Replies, r \in sending, NEW phase \in {"told", "refused"}, Answer(r, phase),
              sending' = sending \ {r}, slot' \subseteq slot, delivered' = [delivered EXCEPT ![r] = @ + 1],
              job' = job
       PROVE  Lossless'
  <2>1. \A q \in Replies : delivered'[q] = IF q = r THEN delivered[r] + 1 ELSE delivered[q]
    BY <1>3, <1>18
  <2>2. delivered'[r] > 0
    BY <1>3, <2>1
  <2>3. \A q \in Replies : delivered[q] > 0 => delivered'[q] > 0
    BY <1>3, <2>1
  <2>4. \A q \in slot' : Reached(q)'
    <3> SUFFICES ASSUME NEW q \in slot' PROVE Reached(q)'
      OBVIOUS
    <3>1. q \in slot /\ q \in Replies /\ Reached(q)
      BY <1>2, <1>3, <1>18
    <3> QED BY <1>18, <2>2, <2>3, <3>1 DEF Reached
  <2>5. \A v \in Worker, q \in Replies :
          worker'[v].phase = "told" /\ worker'[v].job = Send(q) => delivered'[q] > 0
    <3> SUFFICES ASSUME NEW v \in Worker, NEW q \in Replies, worker'[v].phase = "told", worker'[v].job = Send(q)
                 PROVE  delivered'[q] > 0
      OBVIOUS
    <3>1. CASE Sending(v, r, "posting")
      <4>1. q = r
        BY <1>17, <1>18, <3>1, JobFacts
      <4> QED BY <2>2, <4>1
    <3>2. CASE ~Sending(v, r, "posting")
      BY <1>2, <1>17, <1>18, <2>3, <3>2
    <3> QED BY <3>1, <3>2
  <2>6. \A q \in Replies : job'[Send(q)] = "done" => delivered'[q] > 0
    BY <1>2, <1>18, <2>3
  <2> QED BY <2>4, <2>5, <2>6 DEF Lossless, Sending, Working
\* Deliveries come to nothing, and give up their slots.
<1>19. ASSUME NEW S, sending' = sending \ S, slot' \subseteq slot \ (S \cap sending),
              delivered' = delivered, job' = job,
              \A v \in Worker : worker'[v] = worker[v] \/ worker'[v].phase # "told"
       PROVE  Lossless'
  <2>1. \A q \in slot' : Reached(q)'
    <3> SUFFICES ASSUME NEW q \in slot' PROVE Reached(q)'
      OBVIOUS
    <3>1. q \in slot /\ q \notin S \cap sending /\ Reached(q)
      BY <1>2, <1>19
    <3> QED BY <1>19, <3>1 DEF Reached
  <2>2. \A v \in Worker, q \in Replies :
          worker'[v].phase = "told" /\ worker'[v].job = Send(q) => delivered'[q] > 0
    BY <1>2, <1>19
  <2>3. \A q \in Replies : job'[Send(q)] = "done" => delivered'[q] > 0
    BY <1>2, <1>19
  <2> QED BY <2>1, <2>2, <2>3 DEF Lossless, Sending, Working
<1>20. ASSUME NEW r \in Replies, Deliver(r) PROVE Lossless'
  <2>1. PICK phase \in {"told", "refused"} : Answer(r, phase)
    BY <1>20 DEF Deliver
  <2> QED BY <1>18, <1>20, <2>1 DEF Deliver, Sent
<1>21. ASSUME NEW r \in Replies, DeliveryFails(r) PROVE Lossless'
  <2>1. Answer(r, "refused") /\ job' = job
    BY <1>21 DEF DeliveryFails
  <2>2. CASE NotSent(r)
    <3>1. \A v \in Worker : worker'[v] = worker[v] \/ worker'[v].phase # "told"
      BY <1>17, <2>1
    <3>2. sending' = sending \ {r} /\ slot' = slot \ {r} /\ delivered' = delivered
      BY <2>2 DEF NotSent
    <3> QED BY <1>19, <2>1, <3>1, <3>2
  <2>3. CASE SentUnawares(r)
    <3>1. /\ r \in sending /\ sending' = sending \ {r} /\ slot' \subseteq slot
          /\ delivered' = [delivered EXCEPT ![r] = @ + 1]
      BY <2>3 DEF SentUnawares
    <3> QED BY <1>18, <2>1, <3>1
  <2> QED BY <1>21, <2>2, <2>3 DEF DeliveryFails
<1>22. ASSUME NEW r \in Replies, SlotExpires(r) PROVE Lossless'
  <2>1. /\ sending' = sending \ {} /\ delivered' = delivered /\ slot' \subseteq slot /\ job' = job
        /\ worker' = worker
    BY <1>22 DEF SlotExpires, Forget
  <2> QED BY <1>19, <2>1
<1>23. CASE Crash
  <2>1. \A v \in Worker : worker'[v].phase # "told"
    BY <1>23 DEF Crash, Idle, Absent
  <2> QED BY <1>4, <1>23, <2>1 DEF Crash
<1>24. CASE WebRestart
  <2>1. \A v \in Worker : worker'[v] = worker[v] \/ worker'[v].phase # "told"
    BY <1>1, <1>24 DEF WebRestart, Thread
  <2>2. sending' = sending \ sending /\ slot' = {} /\ delivered' = delivered /\ job' = job
    BY <1>24 DEF WebRestart, DeskRestart
  <2> QED BY <1>19, <2>1, <2>2
<1>25. CASE UNCHANGED vars
  BY <1>4, <1>25 DEF vars, turnVars
<1> QED BY <1>8, <1>9, <1>10, <1>11, <1>12, <1>13, <1>14, <1>15, <1>16, <1>20, <1>21, <1>22,
           <1>23, <1>24, <1>25 DEF Next

\* A reply job is done without its reply having reached the user only where a retry was told
\* "sent" during the first delivery, Web lost a commit, or nothing is sent at all
\* (_handle_reply_send, deliver_channel_message), whatever fails and however often.
THEOREM LostInThreeWays == Spec => []NoOtherLoss
<1>1. Init => Lossless
  BY JobFacts DEF Init, FreshSession, DeskInit, Lossless, Sending, Idle, Absent
<1>2. Lossless => NoOtherLoss
  BY DEF Lossless, NoOtherLoss
<1>3. TurnsTypeOK /\ Coherent /\ Lossless /\ [Next]_vars => Lossless'
  BY LosslessStep, TypeStep
<1> QED BY <1>1, <1>2, <1>3, CoherenceHolds, PTL DEF Spec
=============================================================================
