--------------------------- MODULE AsyncTask_proofs ---------------------------
(***************************************************************************)
(* Proofs about AsyncTask, for every set of coroutines, every relation     *)
(* Awaits, every Code and every bound MaxAwaits.                           *)
(***************************************************************************)
EXTENDS AsyncTaskInv, TLAPS

USE CoroAssumption DEF taskVars, walkVars, queueVars, stopVars, awaitVars

-----------------------------------------------------------------------------
(* Registrations.                                                          *)

LEMMA RegFields ==
  \A r \in Reg : r[1] \in Coro /\ r[2] \in 1 .. MaxAwaits /\ r = <<r[1], r[2]>>
  BY DEF Reg

LEMMA RegPair ==
  \A c \in Coro, k \in 1 .. MaxAwaits :
    <<c, k>> \in Reg /\ <<c, k>>[1] = c /\ <<c, k>>[2] = k
  BY DEF Reg

\* The current registration of a coroutine that has begun an await.
LEMMA CurrentReg ==
  ASSUME TypeOK, NEW c \in Coro, at[c] > 0
  PROVE  /\ Current(c) \in Reg
         /\ Current(c)[1] = c
         /\ Current(c)[2] = at[c]
  BY RegPair DEF TypeOK, Current

-----------------------------------------------------------------------------
(* ResumeOnce keeps the invariant, whoever calls it.                       *)

LEMMA ResumeOnceInv ==
  ASSUME IInv, NEW r \in Reg, NEW m \in BOOLEAN, ResumeOnce(r, m),
         ~ Refused(r), kind[r] # "none", ~ (r \in posting /\ ~ published[r[1]]),
         active' \subseteq active, work' \subseteq work,
         mainQueue' \subseteq mainQueue, jobs' \subseteq jobs,
         toInvoke' \in [Coro -> SUBSET Reg], \A c \in Coro : toInvoke'[c] \subseteq toInvoke[c],
         toResume' \in [Coro -> SUBSET Reg], \A c \in Coro : toResume'[c] \subseteq toResume[c],
         UNCHANGED <<published, awaitVars, taskVars, toDeactivate, posting, stopVars>>
  PROVE  IInv'
<1>. USE DEF IInv
<1>1. CASE ~ Armed(r) /\ UNCHANGED <<body, onMain, posted>>
  <2>1. TypeOK'
    BY <1>1 DEF TypeOK, ResumeOnce, Claim
  <2>2. ArmedIsSuspended'
    BY <1>1, RegFields DEF TypeOK, ArmedIsSuspended, Refused, SuspendedAt, ResumeOnce, Claim
  <2>3. PostedIsSuspended'
    BY <1>1, RegFields DEF TypeOK, PostedIsSuspended, SuspendedAt, ResumeOnce, Claim
  <2>4. PostingIsPrivate'
    BY <1>1, RegFields DEF TypeOK, PostingIsPrivate, SuspendedAt, ResumeOnce, Claim
  <2>5. QueuesByKind'
    BY DEF QueuesByKind, TypeOK
  <2>6. FutureIsFresh'
    BY <1>1, RegFields DEF TypeOK, FutureIsFresh, ResumeOnce, Claim
  <2>7. FrameAndHandle'
    BY <1>1 DEF TypeOK, FrameAndHandle, Current
  <2>8. SingleRunner'
    BY <1>1 DEF SingleRunner
  <2>. QED BY <2>1, <2>2, <2>3, <2>4, <2>5, <2>6, <2>7, <2>8
<1>2. CASE Armed(r) /\ InPlace(r) /\ Resume(r, m) /\ UNCHANGED posted
  <2>1. SuspendedAt(r) /\ r \notin posted /\ phase[r] = 1
    BY <1>2 DEF ArmedIsSuspended, Armed
  <2>2. body' = [body EXCEPT ![r[1]] = "resuming"] /\ onMain' = [onMain EXCEPT ![r[1]] = m]
    BY <1>2, <2>1 DEF Resume, SuspendedAt
  <2>3. phase' = [phase EXCEPT ![r] = 2]
    BY DEF ResumeOnce, Claim
  <2>4. TypeOK'
    BY <1>2, <2>2, <2>3, RegFields DEF TypeOK, Bodies
  <2>5. \A s \in Reg : s # r /\ SuspendedAt(s) => SuspendedAt(s)'
    <3>. SUFFICES ASSUME NEW s \in Reg, s # r, SuspendedAt(s) PROVE SuspendedAt(s)'
      OBVIOUS
    <3>1. s[1] # r[1]
      BY <2>1, RegFields DEF SuspendedAt
    <3>. QED BY <2>2, <3>1, RegFields DEF SuspendedAt, TypeOK
  <2>6. ArmedIsSuspended'
    BY <1>2, <2>1, <2>2, <2>3, <2>5, RegFields
       DEF TypeOK, ArmedIsSuspended, Refused, SuspendedAt, Ended
  <2>7. PostedIsSuspended'
    BY <1>2, <2>1, <2>3, <2>5 DEF TypeOK, PostedIsSuspended
  <2>8. PostingIsPrivate'
    BY <2>3, <2>5 DEF TypeOK, PostingIsPrivate
  <2>9. QueuesByKind'
    BY DEF QueuesByKind, TypeOK
  <2>10. FutureIsFresh'
    BY <2>3 DEF TypeOK, FutureIsFresh
  <2>11. FrameAndHandle'
    BY <2>1, <2>2, RegFields DEF TypeOK, FrameAndHandle, Current, SuspendedAt
  <2>12. SingleRunner'
    BY <2>2, RegFields DEF SingleRunner, TypeOK
  <2>. QED BY <2>4, <2>6, <2>7, <2>8, <2>9, <2>10, <2>11, <2>12
<1>3. CASE Armed(r) /\ ~ InPlace(r) /\ posted' = posted \cup {r} /\ UNCHANGED <<body, onMain>>
  <2>1. SuspendedAt(r) /\ phase[r] = 1
    BY <1>3 DEF ArmedIsSuspended, Armed
  <2>2. phase' = [phase EXCEPT ![r] = 2]
    BY DEF ResumeOnce, Claim
  <2>3. TypeOK'
    BY <1>3, <2>2 DEF TypeOK
  <2>4. ArmedIsSuspended'
    BY <1>3, <2>2, RegFields DEF TypeOK, ArmedIsSuspended, Refused, SuspendedAt
  <2>5. PostedIsSuspended'
    BY <1>3, <2>1, <2>2, RegFields DEF TypeOK, PostedIsSuspended, SuspendedAt
  <2>6. PostingIsPrivate'
    BY <1>3, <2>2, RegFields DEF TypeOK, PostingIsPrivate, SuspendedAt
  <2>7. QueuesByKind'
    BY DEF QueuesByKind, TypeOK
  <2>8. FutureIsFresh'
    BY <2>2 DEF TypeOK, FutureIsFresh
  <2>9. FrameAndHandle'
    BY <1>3 DEF TypeOK, FrameAndHandle, Current
  <2>10. SingleRunner'
    BY <1>3 DEF SingleRunner
  <2>. QED BY <2>3, <2>4, <2>5, <2>6, <2>7, <2>8, <2>9, <2>10
<1>. QED BY <1>1, <1>2, <1>3 DEF ResumeOnce

LEMMA WakeInv ==
  ASSUME IInv, NEW c \in Coro, Wake(c)
  PROVE  IInv'
<1>. USE DEF IInv
<1>1. PICK r \in toResume[c] :
        toResume' = [toResume EXCEPT ![c] = @ \ {r}] /\ ResumeOnce(r, onMain[c])
  BY DEF Wake
<1>2. r \in Reg /\ kind[r] = "task" /\ onMain[c] \in BOOLEAN
  BY <1>1 DEF TypeOK, QueuesByKind
<1>3. /\ toResume' \in [Coro -> SUBSET Reg]
      /\ \A d \in Coro : toResume'[d] \subseteq toResume[d]
  BY <1>1 DEF TypeOK
<1>4. ~ Refused(r) /\ r \notin posting
  BY <1>2 DEF Refused, PostingIsPrivate
<1>. QED BY <1>1, <1>2, <1>3, <1>4, ResumeOnceInv DEF Wake, TypeOK

LEMMA InvokeNextInv ==
  ASSUME IInv, NEW c \in Coro, InvokeNext(c)
  PROVE  IInv'
<1>. USE DEF IInv
<1>1. PICK r \in toInvoke[c] :
        toInvoke' = [toInvoke EXCEPT ![c] = @ \ {r}] /\ InvokeOnce(r, FALSE)
  BY DEF InvokeNext
<1>2. r \in Reg /\ r[1] = c /\ kind[r] # "none" /\ published[c]
  BY <1>1 DEF TypeOK, QueuesByKind, FrameAndHandle
<1>3. ~ Refused(r) /\ ~ (r \in posting /\ ~ published[r[1]])
  BY <1>1, <1>2 DEF Refused
<1>4. /\ toInvoke' \in [Coro -> SUBSET Reg]
      /\ \A d \in Coro : toInvoke'[d] \subseteq toInvoke[d]
  BY <1>1 DEF TypeOK
<1>5. CASE r \in active
  BY <1>1, <1>2, <1>3, <1>4, <1>5, ResumeOnceInv DEF InvokeNext, InvokeOnce, TypeOK
<1>6. CASE r \notin active
  BY <1>1, <1>2, <1>4, <1>6, RegFields
     DEF InvokeNext, InvokeOnce, TypeOK, SingleRunner, ArmedIsSuspended, PostedIsSuspended,
         PostingIsPrivate, QueuesByKind, FutureIsFresh, FrameAndHandle, Refused,
         SuspendedAt, Current
<1>. QED BY <1>5, <1>6

LEMMA RunWorkInv ==
  ASSUME IInv, NEW r \in Reg, RunWork(r)
  PROVE  IInv'
<1>. USE DEF IInv
<1>1. r \in work /\ kind[r] # "none"
  BY DEF RunWork, QueuesByKind
<1>2. ~ Refused(r) /\ ~ (r \in posting /\ ~ published[r[1]])
  BY <1>1 DEF Refused, PostingIsPrivate, QueuesByKind, RunWork
<1>. QED BY <1>1, <1>2, ResumeOnceInv DEF RunWork, TypeOK

LEMMA RunMainInv ==
  ASSUME IInv, NEW r \in Reg, RunMain(r)
  PROVE  IInv'
<1>. USE DEF IInv
<1>1. kind[r] = "main" /\ published[r[1]]
  BY DEF RunMain, QueuesByKind, PostingIsPrivate
<1>. QED BY <1>1, ResumeOnceInv DEF RunMain, Refused, TypeOK

LEMMA RunJobInv ==
  ASSUME IInv, NEW r \in Reg, RunJob(r)
  PROVE  IInv'
<1>. USE DEF IInv
<1>1. kind[r] = "offload" /\ r \notin posting
  BY DEF RunJob, QueuesByKind, PostingIsPrivate
<1>. QED BY <1>1, ResumeOnceInv DEF RunJob, Refused, TypeOK

LEMMA RunPostedInv ==
  ASSUME IInv, NEW r \in Reg, RunPosted(r)
  PROVE  IInv'
<1>. USE DEF IInv
<1>1. SuspendedAt(r) /\ phase[r] = 2
  BY DEF RunPosted, PostedIsSuspended
<1>2. body' = [body EXCEPT ![r[1]] = "resuming"] /\ onMain' = [onMain EXCEPT ![r[1]] = FALSE]
  BY <1>1 DEF RunPosted, Resume, SuspendedAt
<1>3. \A s \in Reg : s # r /\ SuspendedAt(s) => SuspendedAt(s)'
  <2>. SUFFICES ASSUME NEW s \in Reg, s # r, SuspendedAt(s) PROVE SuspendedAt(s)'
    OBVIOUS
  <2>1. s[1] # r[1]
    BY <1>1, RegFields DEF SuspendedAt
  <2>2. at' = at
    BY DEF RunPosted, awaitVars
  <2>. QED BY <1>2, <2>1, <2>2, RegFields DEF SuspendedAt, TypeOK
<1>4. TypeOK'
  BY <1>2, RegFields DEF TypeOK, Bodies, RunPosted
<1>5. SingleRunner'
  BY <1>2, RegFields DEF SingleRunner, TypeOK
<1>6. ArmedIsSuspended'
  BY <1>1, <1>2, <1>3, RegFields DEF TypeOK, ArmedIsSuspended, Refused, SuspendedAt, Ended, RunPosted
<1>7. PostedIsSuspended'
  BY <1>3 DEF PostedIsSuspended, TypeOK, RunPosted
<1>8. PostingIsPrivate'
  BY <1>1, <1>3 DEF PostingIsPrivate, TypeOK, RunPosted
<1>9. QueuesByKind' /\ FutureIsFresh'
  BY DEF QueuesByKind, FutureIsFresh, TypeOK, RunPosted
<1>10. FrameAndHandle'
  BY <1>1, <1>2, RegFields DEF TypeOK, FrameAndHandle, Current, SuspendedAt, RunPosted
<1>. QED BY <1>4, <1>5, <1>6, <1>7, <1>8, <1>9, <1>10

-----------------------------------------------------------------------------
(* Awaits.                                                                 *)

Upcoming(c) == <<c, at[c] + 1>>

\* Nobody knows the registration of an await that begins.
LEMMA FreshRegistration ==
  ASSUME IInv, NEW c \in Coro, NEW k \in Awaiters, NEW t, BeginAwait(c, k, t),
         NEW r, r = Upcoming(c)
  PROVE  /\ r \in Reg /\ r[1] = c /\ r[2] = at[c] + 1 /\ r[2] = at'[c]
         /\ phase[r] = 0 /\ kind[r] = "none"
         /\ kind' = [kind EXCEPT ![r] = k] /\ at' = [at EXCEPT ![c] = @ + 1]
         /\ child' = [child EXCEPT ![r] = t]
         /\ r \notin posted \cup posting \cup work \cup mainQueue \cup jobs
         /\ \A d \in Coro : r \notin conts[d] \cup toResume[d] \cup callbacks[d] \cup toInvoke[d]
<1>. USE DEF IInv
<1>1. r \in Reg /\ r[1] = c /\ r[2] = at[c] + 1 /\ r[2] = at'[c]
  BY RegPair DEF BeginAwait, TypeOK, Upcoming
<1>2. phase[r] = 0 /\ kind[r] = "none"
  BY <1>1 DEF FutureIsFresh, TypeOK
<1>3. r \notin posted \cup posting
  BY <1>2 DEF PostedIsSuspended, PostingIsPrivate
<1>4. r \notin work \cup mainQueue \cup jobs
  BY <1>2 DEF QueuesByKind
<1>5. \A d \in Coro : r \notin conts[d] \cup toResume[d] \cup callbacks[d] \cup toInvoke[d]
  BY <1>2 DEF QueuesByKind
<1>. QED BY <1>1, <1>2, <1>3, <1>4, <1>5 DEF BeginAwait, Upcoming

\* Beginning an await keeps the invariant, wherever the frame goes next.
LEMMA BeginAwaitInv ==
  ASSUME IInv, NEW c \in Coro, NEW k \in Awaiters, NEW t \in Coro \cup {NoCoro},
         BeginAwait(c, k, t),
         body'[c] \in {"running", "adding", "linking", "unwinding", "suspended"},
         body' = [body EXCEPT ![c] = body'[c]],
         phase' = [phase EXCEPT ![Upcoming(c)] = IF body'[c] = "suspended" THEN 1 ELSE 0],
         body'[c] = "adding" => k = "task",
         k = "schedule" => body'[c] = "linking" /\ ~ published'[c],
         k = "offload" => body'[c] # "linking",
         work' \in SUBSET Reg, work' \subseteq work \cup {Upcoming(c)},
         Upcoming(c) \in work' => k = "delay",
         jobs' \in SUBSET Reg, jobs' \subseteq jobs \cup {Upcoming(c)},
         Upcoming(c) \in jobs' => k = "offload",
         published' \in [Coro -> BOOLEAN],
         \A d \in Coro : published[d] => published'[d],
         \A d \in Coro : published'[d] => published[d] \/ d = c,
         UNCHANGED <<onMain, active, taskVars, walkVars, posting, posted, mainQueue, stopVars>>
  PROVE  IInv'
<1>0. PICK r, b : r = Upcoming(c) /\ b = body'[c]
  OBVIOUS
<1>. USE <1>0 DEF IInv
<1>1. /\ r \in Reg /\ r[1] = c /\ r[2] = at[c] + 1 /\ r[2] = at'[c]
      /\ phase[r] = 0 /\ kind[r] = "none"
      /\ kind' = [kind EXCEPT ![r] = k] /\ at' = [at EXCEPT ![c] = @ + 1]
      /\ child' = [child EXCEPT ![r] = t]
      /\ r \notin posted \cup posting \cup work \cup mainQueue \cup jobs
      /\ \A d \in Coro : r \notin conts[d] \cup toResume[d] \cup callbacks[d] \cup toInvoke[d]
  BY FreshRegistration
<1>2. body[c] = "running" /\ at[c] < MaxAwaits
  BY DEF BeginAwait
<1>3. \A s \in Reg : s # r =>
        /\ kind'[s] = kind[s] /\ phase'[s] = phase[s]
        /\ SuspendedAt(s) => SuspendedAt(s)'
  BY <1>1, <1>2, RegFields DEF TypeOK, SuspendedAt
<1>4. kind'[r] = k /\ phase'[r] = (IF b = "suspended" THEN 1 ELSE 0)
  BY <1>1 DEF TypeOK
<1>5. TypeOK'
  <2>1. at' \in [Coro -> 0 .. MaxAwaits]
    BY <1>1, <1>2 DEF TypeOK
  <2>2. kind' \in [Reg -> Kinds] /\ child' \in [Reg -> Coro \cup {NoCoro}]
    BY <1>1 DEF TypeOK, Kinds
  <2>3. body' \in [Coro -> Bodies]
    BY DEF TypeOK, Bodies
  <2>4. phase' \in [Reg -> 0 .. 2]
    <3>1. phase' = [phase EXCEPT ![r] = 0] \/ phase' = [phase EXCEPT ![r] = 1]
      OBVIOUS
    <3>2. phase \in [Reg -> 0 .. 2] /\ 0 \in 0 .. 2 /\ 1 \in 0 .. 2
      BY DEF TypeOK
    <3>3. ASSUME NEW n \in 0 .. 2, phase' = [phase EXCEPT ![r] = n] PROVE phase' \in [Reg -> 0 .. 2]
      BY <3>2, <3>3
    <3>. QED BY <3>1, <3>2, <3>3
  <2>. QED BY <2>1, <2>2, <2>3, <2>4 DEF TypeOK
<1>6. SingleRunner'
  BY DEF SingleRunner, TypeOK
<1>7. ArmedIsSuspended'
  <2>1. ASSUME NEW s \in Reg, s # r, phase'[s] = 1, Refused(s)
        PROVE  Refused(s)'
    BY <1>1, <1>2, <1>3, <2>1, RegFields DEF Refused, TypeOK, Ended
  <2>2. b = "suspended" => SuspendedAt(r)'
    BY <1>1 DEF SuspendedAt, TypeOK
  <2>. QED BY <1>1, <1>3, <1>4, <2>1, <2>2 DEF ArmedIsSuspended
<1>8. PostedIsSuspended'
  BY <1>1, <1>3 DEF PostedIsSuspended, TypeOK
<1>9. PostingIsPrivate'
  <2>1. ASSUME NEW s \in posting
        PROVE  s \in Reg /\ s # r /\ s[1] \in Coro /\ kind'[s] = kind[s] /\ phase'[s] = phase[s]
    BY <1>1, <1>3, RegFields DEF TypeOK
  <2>2. ASSUME NEW s \in posting, ~ published'[s[1]]
        PROVE  phase[s] = 1 /\ SuspendedAt(s)'
    <3>1. phase[s] = 1 /\ SuspendedAt(s)
      BY <2>1, <2>2 DEF PostingIsPrivate
    <3>. QED BY <1>3, <2>1, <3>1
  <2>3. ASSUME NEW s \in posting, kind[s] = "schedule"
        PROVE  ~ published'[s[1]] /\ s \notin work'
    <3>1. SuspendedAt(s) /\ ~ published[s[1]] /\ s \notin work
      BY <2>3 DEF PostingIsPrivate
    <3>2. s[1] # c
      BY <1>2, <3>1 DEF SuspendedAt
    <3>. QED BY <2>1, <3>1, <3>2
  <2>4. \A s \in mainQueue : published'[s[1]]
    BY RegFields DEF PostingIsPrivate, TypeOK
  <2>. QED BY <2>1, <2>2, <2>3, <2>4 DEF PostingIsPrivate
<1>10. QueuesByKind'
  <2>1. ASSUME NEW d \in Coro, NEW s \in conts'[d] \cup toResume'[d]
        PROVE  kind'[s] = "task"
    BY <1>1, <1>3, <1>4 DEF QueuesByKind, TypeOK
  <2>2. ASSUME NEW d \in Coro, NEW s \in callbacks'[d] \cup toInvoke'[d]
        PROVE  s[1] = d /\ kind'[s] # "none"
    BY <1>1, <1>3 DEF QueuesByKind, TypeOK
  <2>3. /\ \A s \in work' : kind'[s] \in {"delay", "schedule"}
        /\ \A s \in mainQueue' : kind'[s] = "main"
        /\ \A s \in jobs' : kind'[s] = "offload"
    BY <1>1, <1>3, <1>4 DEF QueuesByKind, TypeOK
  <2>. QED BY <2>1, <2>2, <2>3 DEF QueuesByKind
<1>11. FutureIsFresh'
  <2>1. ASSUME NEW s \in Reg, s[2] > at'[s[1]]
        PROVE  s # r /\ s[2] > at[s[1]]
    BY <1>1, <2>1, RegFields DEF TypeOK
  <2>. QED BY <1>3, <2>1 DEF FutureIsFresh
<1>12. FrameAndHandle'
  <2>1. at'[c] > 0 /\ Current(c)' = r
    BY <1>1, <1>2 DEF TypeOK, Current, Upcoming
  <2>2. ASSUME NEW d \in Coro, d # c
        PROVE  at'[d] = at[d] /\ body'[d] = body[d] /\ published'[d] = published[d]
    BY <1>1, <2>2 DEF TypeOK
  <2>3. ASSUME NEW d \in Coro, d # c, body'[d] \in {"linking", "invoking", "arming"}
        PROVE  /\ kind'[Current(d)'] \in {"task", "delay", "main", "schedule"}
               /\ kind'[Current(d)'] = "schedule" => ~ published'[d] /\ Current(d)' \notin work'
    <3>1. at[d] > 0 /\ body[d] \in {"linking", "invoking", "arming"}
      BY <2>2, <2>3 DEF FrameAndHandle
    <3>2. Current(d)' = Current(d) /\ Current(d) \in Reg /\ Current(d) # r
      BY <1>1, <2>2, <2>3, <3>1, CurrentReg DEF Current
    <3>. QED BY <1>3, <2>2, <2>3, <3>1, <3>2 DEF FrameAndHandle
  <2>4. body'[c] = b /\ kind'[Current(c)'] = k
    BY <1>4, <2>1 DEF TypeOK
  <2>5. body'[c] \in {"linking", "invoking", "arming"} =>
            /\ kind'[Current(c)'] \in {"task", "delay", "main", "schedule"}
            /\ kind'[Current(c)'] = "schedule" => ~ published'[c] /\ Current(c)' \notin work'
    BY <2>1, <2>4 DEF Awaiters
  <2>6. \A d \in Coro : ~ published'[d] => ~ cancelled'[d] /\ toInvoke'[d] = {}
    BY DEF FrameAndHandle
  <2>7. ASSUME NEW d \in Coro, d # c
        PROVE
          /\ published'[d] => at'[d] > 0 \/ body'[d] = "done"
          /\ body'[d] \in {"waking", "done"} => completed'[d]
          /\ body'[d] \in {"adding", "linking", "invoking", "arming", "suspended", "resuming"} =>
               at'[d] > 0
          /\ body'[d] = "absent" => at'[d] = 0
    <3>1. at'[d] = at[d] /\ body'[d] = body[d] /\ published'[d] = published[d]
      BY <2>2, <2>7
    <3>2. completed' = completed
      OBVIOUS
    <3>. QED BY <3>1, <3>2 DEF FrameAndHandle
  <2>8. ASSUME NEW d \in Coro, body'[d] = "adding" PROVE kind'[Current(d)'] = "task"
    <3>1. CASE d = c
      BY <2>4, <2>8, <3>1
    <3>2. CASE d # c
      <4>1. body[d] = "adding" /\ at[d] > 0
        BY <2>2, <2>8, <3>2 DEF FrameAndHandle
      <4>2. Current(d)' = Current(d) /\ Current(d) \in Reg /\ Current(d) # r
        BY <1>1, <2>2, <3>2, <4>1, CurrentReg DEF Current
      <4>. QED BY <1>3, <4>1, <4>2 DEF FrameAndHandle
    <3>. QED BY <3>1, <3>2
  <2>. QED BY <1>2, <2>1, <2>3, <2>4, <2>5, <2>6, <2>7, <2>8 DEF FrameAndHandle
<1>. QED BY <1>5, <1>6, <1>7, <1>8, <1>9, <1>10, <1>11, <1>12

LEMMA AwaitDelayInv ==
  ASSUME IInv, NEW c \in Coro, AwaitDelay(c)
  PROVE  IInv'
<1>. USE DEF IInv
<1>1. BeginAwait(c, "delay", NoCoro) /\ "delay" \in Awaiters /\ body[c] = "running"
  BY DEF AwaitDelay, BeginAwait, Awaiters
<1>2. /\ Upcoming(c) \in Reg /\ phase[Upcoming(c)] = 0
      /\ Upcoming(c) \notin work \cup jobs
      /\ \A d \in Coro : Upcoming(c) \notin conts[d]
  BY <1>1, FreshRegistration DEF Awaiters
<1>3. phase' = [phase EXCEPT ![Upcoming(c)] = IF body'[c] = "suspended" THEN 1 ELSE 0]
  BY <1>1, <1>2 DEF AwaitDelay, TypeOK, Upcoming
<1>4. body' = [body EXCEPT ![c] = body'[c]] /\ body'[c] \in {"running", "linking", "unwinding"}
  BY <1>1 DEF AwaitDelay, TypeOK
<1>5. /\ UNCHANGED <<jobs, conts, published>>
      /\ work' \in SUBSET Reg /\ work' \subseteq work \cup {Upcoming(c)}
  BY <1>1, <1>2 DEF AwaitDelay, TypeOK, Upcoming
<1>6. UNCHANGED <<onMain, active, cancelled, completed, result, callbacks, walkVars,
                  posting, posted, mainQueue, stopVars>>
  BY DEF AwaitDelay
<1>. QED
  BY <1>1, <1>2, <1>3, <1>4, <1>5, <1>6, BeginAwaitInv DEF TypeOK

LEMMA AwaitScheduleInv ==
  ASSUME IInv, NEW c \in Coro, AwaitSchedule(c)
  PROVE  IInv'
<1>. USE DEF IInv
<1>1. BeginAwait(c, "schedule", NoCoro) /\ "schedule" \in Awaiters /\ body[c] = "running"
  BY DEF AwaitSchedule, BeginAwait, Awaiters
<1>2. /\ Upcoming(c) \in Reg /\ phase[Upcoming(c)] = 0
      /\ Upcoming(c) \notin work \cup jobs
      /\ \A d \in Coro : Upcoming(c) \notin conts[d]
  BY <1>1, FreshRegistration DEF Awaiters
<1>3. phase' = [phase EXCEPT ![Upcoming(c)] = IF body'[c] = "suspended" THEN 1 ELSE 0]
  BY <1>2 DEF AwaitSchedule, TypeOK, Upcoming
<1>4. body' = [body EXCEPT ![c] = body'[c]] /\ body'[c] \in {"linking"}
  BY DEF AwaitSchedule, TypeOK
<1>5. /\ UNCHANGED <<work, jobs, conts, published>> /\ ~ published[c]
  BY <1>1, <1>2 DEF AwaitSchedule, TypeOK, Upcoming, FrameAndHandle
<1>6. UNCHANGED <<onMain, active, cancelled, completed, result, callbacks, walkVars,
                  posting, posted, mainQueue, stopVars>>
  BY DEF AwaitSchedule
<1>. QED
  BY <1>1, <1>2, <1>3, <1>4, <1>5, <1>6, BeginAwaitInv DEF TypeOK

LEMMA AwaitMainInv ==
  ASSUME IInv, NEW c \in Coro, AwaitMain(c)
  PROVE  IInv'
<1>. USE DEF IInv
<1>1. BeginAwait(c, "main", NoCoro) /\ "main" \in Awaiters /\ body[c] = "running"
  BY DEF AwaitMain, BeginAwait, Awaiters
<1>2. /\ Upcoming(c) \in Reg /\ phase[Upcoming(c)] = 0
      /\ Upcoming(c) \notin work \cup jobs
      /\ \A d \in Coro : Upcoming(c) \notin conts[d]
  BY <1>1, FreshRegistration DEF Awaiters
<1>3. phase' = [phase EXCEPT ![Upcoming(c)] = IF body'[c] = "suspended" THEN 1 ELSE 0]
  BY <1>2 DEF AwaitMain, TypeOK, Upcoming
<1>4. body' = [body EXCEPT ![c] = body'[c]] /\ body'[c] \in {"linking", "running"}
  BY DEF AwaitMain, TypeOK
<1>5. /\ UNCHANGED <<work, jobs, conts, published>>
  BY <1>1, <1>2 DEF AwaitMain, TypeOK, Upcoming
<1>6. UNCHANGED <<onMain, active, cancelled, completed, result, callbacks, walkVars,
                  posting, posted, mainQueue, stopVars>>
  BY DEF AwaitMain
<1>. QED
  BY <1>1, <1>2, <1>3, <1>4, <1>5, <1>6, BeginAwaitInv DEF TypeOK

LEMMA AwaitOffloadInv ==
  ASSUME IInv, NEW c \in Coro, AwaitOffload(c)
  PROVE  IInv'
<1>. USE DEF IInv
<1>1. BeginAwait(c, "offload", NoCoro) /\ "offload" \in Awaiters /\ body[c] = "running"
  BY DEF AwaitOffload, BeginAwait, Awaiters
<1>2. /\ Upcoming(c) \in Reg /\ phase[Upcoming(c)] = 0
      /\ Upcoming(c) \notin work \cup jobs
      /\ \A d \in Coro : Upcoming(c) \notin conts[d]
  BY <1>1, FreshRegistration DEF Awaiters
<1>3. phase' = [phase EXCEPT ![Upcoming(c)] = IF body'[c] = "suspended" THEN 1 ELSE 0]
  BY <1>2 DEF AwaitOffload, TypeOK, Upcoming
<1>4. body' = [body EXCEPT ![c] = body'[c]] /\ body'[c] \in {"suspended", "unwinding"}
  BY DEF AwaitOffload, TypeOK
<1>5. /\ UNCHANGED <<work, conts>>
      /\ jobs' \in SUBSET Reg /\ jobs' \subseteq jobs \cup {Upcoming(c)}
      /\ published' \in [Coro -> BOOLEAN]
      /\ \A d \in Coro : published[d] => published'[d]
      /\ \A d \in Coro : published'[d] => published[d] \/ d = c
  <2>1. Upcoming(c) = <<c, 1>>
    BY DEF AwaitOffload, Upcoming
  <2>2. \/ UNCHANGED <<jobs, published>>
        \/ /\ jobs' = jobs \cup {Upcoming(c)}
           /\ published' = [published EXCEPT ![c] = TRUE]
    BY <2>1 DEF AwaitOffload
  <2>3. UNCHANGED <<work, conts>>
    BY DEF AwaitOffload
  <2>. QED BY <1>2, <2>2, <2>3 DEF TypeOK
<1>6. UNCHANGED <<onMain, active, cancelled, completed, result, callbacks, walkVars,
                  posting, posted, mainQueue, stopVars>>
  BY DEF AwaitOffload
<1>. QED
  BY <1>1, <1>2, <1>3, <1>4, <1>5, <1>6, BeginAwaitInv DEF TypeOK

LEMMA AwaitTaskInv ==
  ASSUME IInv, NEW c \in Coro, NEW t \in Coro, AwaitTask(c, t)
  PROVE  IInv'
<1>. USE DEF IInv
<1>1. BeginAwait(c, "task", t) /\ "task" \in Awaiters /\ body[c] = "running"
  BY DEF AwaitTask, BeginAwait, Awaiters
<1>2. /\ Upcoming(c) \in Reg /\ phase[Upcoming(c)] = 0
      /\ Upcoming(c) \notin work \cup jobs
      /\ \A d \in Coro : Upcoming(c) \notin conts[d]
  BY <1>1, FreshRegistration DEF Awaiters
<1>3. phase' = [phase EXCEPT ![Upcoming(c)] = IF body'[c] = "suspended" THEN 1 ELSE 0]
  BY <1>2 DEF AwaitTask, TypeOK, Upcoming
<1>4. body' = [body EXCEPT ![c] = body'[c]] /\ body'[c] \in {"running", "adding", "unwinding"}
  BY DEF AwaitTask, TypeOK
<1>5. UNCHANGED <<onMain, published, active, taskVars, walkVars, queueVars, stopVars>>
  BY DEF AwaitTask
<1>. QED
  BY <1>1, <1>2, <1>3, <1>4, <1>5, BeginAwaitInv DEF TypeOK

-----------------------------------------------------------------------------
(* The other steps.  Where every part of the invariant survives for the    *)
(* same plain reason, the step is one leaf.                                *)

LEMMA InitInv == Init => IInv
<1>. SUFFICES ASSUME Init PROVE IInv
  OBVIOUS
<1>. USE DEF Init
<1>1. TypeOK
  <2>1. /\ body \in [Coro -> Bodies] /\ at \in [Coro -> 0 .. MaxAwaits]
        /\ kind \in [Reg -> Kinds] /\ phase \in [Reg -> 0 .. 2]
    BY DEF Bodies, Kinds
  <2>. QED BY <2>1 DEF TypeOK
<1>2. SingleRunner /\ ArmedIsSuspended /\ PostedIsSuspended /\ PostingIsPrivate
  BY DEF SingleRunner, ArmedIsSuspended, PostedIsSuspended, PostingIsPrivate
<1>3. QueuesByKind /\ FutureIsFresh
  BY DEF QueuesByKind, FutureIsFresh
<1>4. FrameAndHandle
  BY DEF FrameAndHandle
<1>. QED BY <1>1, <1>2, <1>3, <1>4 DEF IInv

LEMMA CreateInv ==
  ASSUME IInv, NEW c \in Coro, Create(c)
  PROVE  IInv'
  BY RegFields, RegPair
     DEF Create, IInv, TypeOK, SingleRunner, ArmedIsSuspended, PostedIsSuspended, PostingIsPrivate, QueuesByKind,
         FutureIsFresh, FrameAndHandle, SuspendedAt, Refused, Ended, Current, Bodies

LEMMA AddContinuationInv ==
  ASSUME IInv, NEW c \in Coro, AddContinuation(c)
  PROVE  IInv'
<1>. USE DEF IInv
<1>1. PICK r, t : r = Current(c) /\ t = child[r]
  OBVIOUS
<1>2. r \in Reg /\ r[1] = c /\ kind[r] = "task" /\ body[c] = "adding" /\ at[c] > 0
  BY <1>1, CurrentReg DEF FrameAndHandle, AddContinuation
<1>3. PICK b \in {"resuming", "linking"} : body' = [body EXCEPT ![c] = b]
  BY DEF AddContinuation
<1>4. /\ conts' = conts \/ conts' = [conts EXCEPT ![t] = @ \cup {r}]
      /\ UNCHANGED <<onMain, published, at, kind, child, phase, active, cancelled, completed,
                     result, callbacks, toInvoke, toDeactivate, toResume, posting, posted, work,
                     mainQueue, jobs, offloadStopped, poolStopped>>
  BY <1>1 DEF AddContinuation
<1>5. TypeOK' /\ SingleRunner'
  BY <1>2, <1>3, <1>4 DEF TypeOK, SingleRunner, Bodies
<1>6. ArmedIsSuspended' /\ PostedIsSuspended' /\ PostingIsPrivate'
  BY <1>2, <1>3, <1>4, RegFields
     DEF ArmedIsSuspended, PostedIsSuspended, PostingIsPrivate, SuspendedAt, Refused, Ended, TypeOK
<1>7. QueuesByKind'
  BY <1>2, <1>4 DEF QueuesByKind, TypeOK
<1>8. FutureIsFresh'
  BY <1>4 DEF FutureIsFresh
<1>9. FrameAndHandle'
  BY <1>1, <1>2, <1>3, <1>4 DEF FrameAndHandle, TypeOK, Current
<1>. QED BY <1>5, <1>6, <1>7, <1>8, <1>9

LEMMA LinkInv ==
  ASSUME IInv, NEW c \in Coro, Link(c)
  PROVE  IInv'
<1>. USE DEF IInv
<1>1. PICK r : r = Current(c)
  OBVIOUS
<1>2. r \in Reg /\ r[1] = c /\ r[2] = at[c] /\ kind[r] # "none" /\ body[c] = "linking"
  BY <1>1, CurrentReg DEF FrameAndHandle, Link
<1>3. PICK b \in {"invoking", "arming"} : body' = [body EXCEPT ![c] = b]
  BY DEF Link
<1>4. /\ active' = active \cup {r} /\ callbacks' = [callbacks EXCEPT ![c] = @ \cup {r}]
      /\ UNCHANGED <<onMain, published, at, kind, child, phase, cancelled, completed, result,
                      conts, toInvoke, toDeactivate, toResume, posting, posted, work,
                      mainQueue, jobs, offloadStopped, poolStopped>>
  BY <1>1 DEF Link
<1>5. TypeOK' /\ SingleRunner'
  BY <1>2, <1>3, <1>4 DEF TypeOK, SingleRunner, Bodies
<1>6. ArmedIsSuspended' /\ PostedIsSuspended' /\ PostingIsPrivate'
  BY <1>2, <1>3, <1>4, RegFields
     DEF ArmedIsSuspended, PostedIsSuspended, PostingIsPrivate, SuspendedAt, Refused, Ended, TypeOK
<1>7. QueuesByKind'
  BY <1>2, <1>4 DEF QueuesByKind, TypeOK
<1>8. FutureIsFresh'
  BY <1>4 DEF FutureIsFresh
<1>9. FrameAndHandle'
  BY <1>2, <1>3, <1>4 DEF FrameAndHandle, TypeOK, Current
<1>. QED BY <1>5, <1>6, <1>7, <1>8, <1>9

LEMMA InvokeImmediatelyInv ==
  ASSUME IInv, NEW c \in Coro, InvokeImmediately(c)
  PROVE  IInv'
  BY RegFields, RegPair
     DEF InvokeImmediately, Claim, IInv, TypeOK, SingleRunner, ArmedIsSuspended, PostedIsSuspended, PostingIsPrivate, QueuesByKind,
         FutureIsFresh, FrameAndHandle, SuspendedAt, Refused, Ended, Current, Bodies

LEMMA AwaitResumeInv ==
  ASSUME IInv, NEW c \in Coro, AwaitResume(c)
  PROVE  IInv'
  BY RegFields, RegPair
     DEF AwaitResume, IInv, TypeOK, SingleRunner, ArmedIsSuspended, PostedIsSuspended, PostingIsPrivate, QueuesByKind,
         FutureIsFresh, FrameAndHandle, SuspendedAt, Refused, Ended, Current, Bodies

LEMMA ReturnInv ==
  ASSUME IInv, NEW c \in Coro, Return(c)
  PROVE  IInv'
  BY RegFields, RegPair
     DEF Return, IInv, TypeOK, SingleRunner, ArmedIsSuspended, PostedIsSuspended, PostingIsPrivate, QueuesByKind,
         FutureIsFresh, FrameAndHandle, SuspendedAt, Refused, Ended, Current, Bodies

LEMMA CompleteInv ==
  ASSUME IInv, NEW c \in Coro, Complete(c)
  PROVE  IInv'
  BY RegFields, RegPair
     DEF Complete, IInv, TypeOK, SingleRunner, ArmedIsSuspended, PostedIsSuspended, PostingIsPrivate, QueuesByKind,
         FutureIsFresh, FrameAndHandle, SuspendedAt, Refused, Ended, Current, Bodies

LEMMA DeactivateInv ==
  ASSUME IInv, NEW c \in Coro, Deactivate(c)
  PROVE  IInv'
  BY RegFields, RegPair
     DEF Deactivate, IInv, TypeOK, SingleRunner, ArmedIsSuspended, PostedIsSuspended, PostingIsPrivate, QueuesByKind,
         FutureIsFresh, FrameAndHandle, SuspendedAt, Refused, Ended, Current, Bodies

LEMMA FinishInv ==
  ASSUME IInv, NEW c \in Coro, Finish(c)
  PROVE  IInv'
<1>. USE DEF IInv, Finish
<1>1. TypeOK' /\ SingleRunner'
  BY DEF TypeOK, SingleRunner, Bodies
<1>2. ArmedIsSuspended'
  BY RegFields DEF ArmedIsSuspended, SuspendedAt, Refused, Ended, TypeOK, FrameAndHandle
<1>3. PostedIsSuspended' /\ PostingIsPrivate'
  BY RegFields DEF PostedIsSuspended, PostingIsPrivate, SuspendedAt, TypeOK
<1>4. QueuesByKind' /\ FutureIsFresh'
  BY DEF QueuesByKind, FutureIsFresh
<1>5. FrameAndHandle'
  BY DEF FrameAndHandle, TypeOK, Current
<1>. QED BY <1>1, <1>2, <1>3, <1>4, <1>5

LEMMA CancelInv ==
  ASSUME IInv, NEW c \in Coro, Cancel(c)
  PROVE  IInv'
  BY RegFields, RegPair
     DEF Cancel, Cancellable, IInv, TypeOK, SingleRunner, ArmedIsSuspended, PostedIsSuspended, PostingIsPrivate, QueuesByKind,
         FutureIsFresh, FrameAndHandle, SuspendedAt, Refused, Ended, Current, Bodies

LEMMA ArmInv ==
  ASSUME IInv, NEW c \in Coro, Arm(c)
  PROVE  IInv'
<1>. USE DEF IInv
<1>1. PICK r : r = Current(c)
  OBVIOUS
<1>2. r \in Reg /\ r[1] = c /\ r[2] = at[c] /\ body[c] = "arming" /\ r \notin posted
  BY <1>1, CurrentReg DEF FrameAndHandle, PostedIsSuspended, SuspendedAt, Arm
<1>3. CASE phase[r] = 0
  <2>1. /\ phase' = [phase EXCEPT ![r] = 1] /\ body' = [body EXCEPT ![c] = "suspended"]
        /\ \/ /\ kind[r] \in {"task", "delay"} /\ UNCHANGED posting
              /\ published' = [published EXCEPT ![c] = TRUE]
           \/ /\ kind[r] \notin {"task", "delay"} /\ UNCHANGED published
              /\ posting' = posting \cup {r}
        /\ UNCHANGED <<onMain, at, kind, child, active, cancelled, completed, result, conts,
                        callbacks, toInvoke, toDeactivate, toResume, posted, work, mainQueue,
                        jobs, offloadStopped, poolStopped>>
    BY <1>1, <1>3 DEF Arm, CanArm
  <2>2. TypeOK'
    <3>1. phase' \in [Reg -> 0 .. 2] /\ body' \in [Coro -> Bodies]
      BY <1>2, <2>1 DEF TypeOK, Bodies
    <3>2. published' \in [Coro -> BOOLEAN] /\ posting' \in SUBSET Reg
      BY <1>2, <2>1 DEF TypeOK
    <3>. QED BY <2>1, <3>1, <3>2 DEF TypeOK
  <2>3. SingleRunner'
    BY <2>1 DEF SingleRunner, TypeOK
  <2>4. ASSUME NEW s \in Reg, s[1] # c
        PROVE  /\ phase'[s] = phase[s] /\ kind'[s] = kind[s]
               /\ SuspendedAt(s) <=> SuspendedAt(s)'
               /\ published'[s[1]] = published[s[1]] /\ (s \in posting' <=> s \in posting)
    BY <1>2, <2>1, <2>4, RegFields DEF SuspendedAt, TypeOK
  <2>5. SuspendedAt(r)' /\ phase'[r] = 1
    BY <1>2, <2>1 DEF SuspendedAt, TypeOK
  <2>6. \A s \in Reg : s # r /\ phase'[s] = 1 => s[1] # c
    BY <1>2, <2>1 DEF ArmedIsSuspended, Refused, SuspendedAt, Ended, TypeOK
  <2>7. ArmedIsSuspended'
    <3>1. ASSUME NEW s \in Reg, s # r, phase'[s] = 1
          PROVE  (SuspendedAt(s)' /\ s \notin posted') \/ Refused(s)'
      BY <2>1, <2>4, <2>6, <3>1, RegFields DEF ArmedIsSuspended, Refused, TypeOK
    <3>. QED BY <1>2, <2>1, <2>5, <3>1 DEF ArmedIsSuspended
  <2>8. PostedIsSuspended'
    BY <1>2, <2>1, <2>4 DEF PostedIsSuspended, SuspendedAt, TypeOK
  <2>9. PostingIsPrivate'
    <3>1. r \in posting' => kind[r] \in {"main", "schedule"}
      BY <1>1, <1>2, <2>1 DEF FrameAndHandle, PostingIsPrivate
    <3>2. r \in posting' /\ kind[r] = "schedule" => ~ published'[c] /\ r \notin work
      BY <1>1, <1>2, <2>1 DEF FrameAndHandle
    <3>3. \A d \in Coro : published[d] => published'[d]
      BY <2>1 DEF TypeOK
    <3>4. ASSUME NEW s \in posting', s # r
          PROVE  /\ kind'[s] \in {"main", "schedule"}
                 /\ ~ published'[s[1]] => phase'[s] = 1 /\ SuspendedAt(s)'
                 /\ kind'[s] = "schedule" => ~ published'[s[1]] /\ s \notin work'
      <4>1. s \in posting /\ s \in Reg /\ s[1] \in Coro
        BY <2>1, <3>4, RegFields DEF TypeOK
      <4>2. ~ published[s[1]] => s[1] # c
        BY <1>2, <4>1 DEF PostingIsPrivate, SuspendedAt
      <4>. QED BY <2>1, <2>4, <3>3, <4>1, <4>2 DEF PostingIsPrivate
    <3>5. \A s \in mainQueue' : published'[s[1]]
      BY <2>1, <3>3, RegFields DEF PostingIsPrivate, TypeOK
    <3>. QED BY <1>2, <2>1, <2>5, <3>1, <3>2, <3>4, <3>5 DEF PostingIsPrivate
  <2>10. QueuesByKind'
    BY <2>1 DEF QueuesByKind
  <2>11. FutureIsFresh'
    BY <1>2, <2>1 DEF FutureIsFresh, TypeOK
  <2>12. FrameAndHandle'
    BY <1>2, <2>1 DEF FrameAndHandle, TypeOK, Current
  <2>. QED BY <2>2, <2>3, <2>7, <2>8, <2>9, <2>10, <2>11, <2>12
<1>4. CASE phase[r] # 0
  <2>1. body' = [body EXCEPT ![c] = "resuming"]
    BY <1>1, <1>4 DEF Arm, CanArm
  <2>2. UNCHANGED <<phase, published, posting, onMain, at, kind, child, active, cancelled,
                    completed, result, conts, callbacks, toInvoke, toDeactivate, toResume,
                    posted, work, mainQueue, jobs, offloadStopped, poolStopped>>
    BY <1>1, <1>4 DEF Arm, CanArm
  <2>3. TypeOK' /\ SingleRunner'
    BY <2>1, <2>2 DEF TypeOK, SingleRunner, Bodies
  <2>4. ArmedIsSuspended' /\ PostedIsSuspended' /\ PostingIsPrivate'
    BY <1>2, <2>1, <2>2, RegFields
       DEF ArmedIsSuspended, PostedIsSuspended, PostingIsPrivate, SuspendedAt, Refused, Ended, TypeOK
  <2>5. QueuesByKind' /\ FutureIsFresh'
    BY <2>2 DEF QueuesByKind, FutureIsFresh
  <2>6. FrameAndHandle'
    BY <1>2, <2>1, <2>2 DEF FrameAndHandle, TypeOK, Current
  <2>. QED BY <2>3, <2>4, <2>5, <2>6
<1>. QED BY <1>3, <1>4

LEMMA PostMainInv ==
  ASSUME IInv, NEW r \in Reg, PostMain(r)
  PROVE  IInv'
<1>. USE DEF IInv
<1>1. /\ r[1] \in Coro /\ r \in posting /\ kind[r] = "main"
      /\ published' = [published EXCEPT ![r[1]] = TRUE] /\ posting' = posting \ {r}
      /\ mainQueue' = mainQueue \cup {r}
      /\ UNCHANGED <<body, onMain, at, kind, child, phase, active, cancelled, completed,
                      result, conts, callbacks, toInvoke, toDeactivate, toResume, posted,
                      work, jobs, offloadStopped, poolStopped>>
  BY RegFields DEF PostMain
<1>2. ~ published[r[1]] => phase[r] = 1 /\ SuspendedAt(r)
  BY <1>1 DEF PostingIsPrivate
<1>3. r[2] <= at[r[1]] /\ at[r[1]] > 0
  <2>1. ~ (r[2] > at[r[1]])
    BY <1>1 DEF FutureIsFresh
  <2>2. at[r[1]] \in Nat /\ r[2] \in Nat /\ r[2] > 0
    BY RegFields DEF TypeOK
  <2>. QED BY <2>1, <2>2
<1>4. \A s \in Reg : SuspendedAt(s) <=> SuspendedAt(s)'
  BY <1>1 DEF SuspendedAt
<1>5. TypeOK' /\ SingleRunner'
  BY <1>1 DEF TypeOK, SingleRunner
<1>6. ASSUME NEW s \in Reg, Refused(s)
      PROVE  Refused(s)'
  BY <1>1, <1>2, <1>6, RegFields DEF Refused, SuspendedAt, Ended, TypeOK
<1>7. ArmedIsSuspended'
  BY <1>1, <1>4, <1>6 DEF ArmedIsSuspended
<1>8. PostedIsSuspended'
  BY <1>1, <1>4 DEF PostedIsSuspended, TypeOK
<1>9. PostingIsPrivate'
  <2>1. ASSUME NEW s \in posting', kind[s] = "schedule"
        PROVE  s[1] # r[1]
    <3>1. s \in Reg /\ s # r /\ SuspendedAt(s) /\ ~ published[s[1]]
      BY <1>1, <2>1 DEF PostingIsPrivate, TypeOK
    <3>. QED BY <1>2, <3>1, RegFields DEF SuspendedAt
  <2>. QED BY <1>1, <1>4, <2>1, RegFields DEF PostingIsPrivate, TypeOK
<1>10. QueuesByKind' /\ FutureIsFresh'
  BY <1>1 DEF QueuesByKind, FutureIsFresh
<1>11. FrameAndHandle'
  BY <1>1, <1>2, <1>3 DEF FrameAndHandle, TypeOK, Current, SuspendedAt
<1>. QED BY <1>5, <1>7, <1>8, <1>9, <1>10, <1>11

LEMMA PostScheduleInv ==
  ASSUME IInv, NEW r \in Reg, PostSchedule(r)
  PROVE  IInv'
<1>. USE DEF IInv
<1>1. /\ r[1] \in Coro /\ r \in posting /\ kind[r] = "schedule" /\ posting' = posting \ {r}
      /\ UNCHANGED <<onMain, at, kind, child, phase, active, cancelled, completed,
                      result, conts, callbacks, toInvoke, toDeactivate, toResume, posted,
                      mainQueue, jobs, offloadStopped, poolStopped>>
  BY RegFields DEF PostSchedule
<1>2. phase[r] = 1 /\ SuspendedAt(r) /\ ~ published[r[1]] /\ r \notin posted
  BY <1>1 DEF PostingIsPrivate, PostedIsSuspended
<1>3. at[r[1]] > 0 /\ toInvoke[r[1]] = {} /\ ~ cancelled[r[1]]
  BY <1>1, <1>2, RegFields DEF FrameAndHandle, SuspendedAt, TypeOK
<1>4. \A s \in Reg : s # r /\ s[1] = r[1] => ~ SuspendedAt(s) /\ ~ Refused(s) /\ s \notin posting
  BY <1>1, <1>2, RegFields DEF SuspendedAt, Refused, Ended, PostingIsPrivate
<1>5. CASE poolStopped
  <2>1. body' = [body EXCEPT ![r[1]] = "unwinding"] /\ UNCHANGED <<work, published>>
    BY <1>1, <1>2, <1>5 DEF PostSchedule, SuspendedAt
  <2>2. \A s \in Reg : s # r => (SuspendedAt(s) <=> SuspendedAt(s)')
    BY <1>1, <1>4, <2>1, RegFields DEF SuspendedAt, TypeOK
  <2>3. TypeOK' /\ SingleRunner'
    BY <1>1, <2>1 DEF TypeOK, SingleRunner, Bodies
  <2>4. Refused(r)'
    BY <1>1, <1>2, <1>3, <2>1 DEF Refused, Ended, PostingIsPrivate, TypeOK
  <2>5. ASSUME NEW s \in Reg, s # r, Refused(s)
        PROVE  Refused(s)'
    BY <1>1, <1>4, <2>1, <2>5, RegFields DEF Refused, TypeOK
  <2>6. ArmedIsSuspended'
    BY <1>1, <2>1, <2>2, <2>4, <2>5 DEF ArmedIsSuspended
  <2>7. PostedIsSuspended' /\ PostingIsPrivate'
    BY <1>1, <1>2, <2>1, <2>2 DEF PostedIsSuspended, PostingIsPrivate, TypeOK
  <2>8. QueuesByKind' /\ FutureIsFresh'
    BY <1>1, <2>1 DEF QueuesByKind, FutureIsFresh
  <2>9. FrameAndHandle'
    BY <1>1, <1>2, <1>3, <2>1 DEF FrameAndHandle, TypeOK, Current, SuspendedAt
  <2>. QED BY <2>3, <2>6, <2>7, <2>8, <2>9
<1>6. CASE ~ poolStopped
  <2>1. /\ work' = work \cup {r} /\ published' = [published EXCEPT ![r[1]] = TRUE]
        /\ UNCHANGED body
    BY <1>1, <1>6 DEF PostSchedule
  <2>2. \A s \in Reg : SuspendedAt(s) <=> SuspendedAt(s)'
    BY <1>1, <2>1 DEF SuspendedAt
  <2>3. TypeOK' /\ SingleRunner'
    BY <1>1, <2>1 DEF TypeOK, SingleRunner
  <2>4. ASSUME NEW s \in Reg, s # r, Refused(s)
        PROVE  Refused(s)'
    BY <1>1, <1>4, <2>1, <2>4, RegFields DEF Refused, TypeOK
  <2>5. ArmedIsSuspended'
    BY <1>1, <1>2, <2>1, <2>2, <2>4 DEF ArmedIsSuspended
  <2>6. PostedIsSuspended'
    BY <1>1, <2>1, <2>2 DEF PostedIsSuspended, TypeOK
  <2>7. PostingIsPrivate'
    BY <1>1, <1>4, <2>1, <2>2, RegFields DEF PostingIsPrivate, TypeOK
  <2>8. QueuesByKind' /\ FutureIsFresh'
    BY <1>1, <2>1 DEF QueuesByKind, FutureIsFresh
  <2>9. FrameAndHandle'
    BY <1>1, <1>2, <1>3, <2>1, RegFields DEF FrameAndHandle, TypeOK, Current, SuspendedAt
  <2>. QED BY <2>3, <2>5, <2>6, <2>7, <2>8, <2>9
<1>. QED BY <1>5, <1>6

-----------------------------------------------------------------------------
LEMMA StutterInv ==
  ASSUME IInv, UNCHANGED vars
  PROVE  IInv'
  BY DEF vars, IInv, TypeOK, SingleRunner, ArmedIsSuspended, PostedIsSuspended, PostingIsPrivate,
         QueuesByKind, FutureIsFresh, FrameAndHandle, SuspendedAt, Refused, Current

LEMMA StopInv ==
  ASSUME IInv, StopOffload \/ StopPool
  PROVE  IInv'
<1>1. UNCHANGED <<body, onMain, published, at, kind, child, phase, active, cancelled, completed,
                  result, conts, callbacks, toInvoke, toDeactivate, toResume, posting, posted,
                  work, mainQueue, jobs>>
  BY DEF StopOffload, StopPool
<1>2. offloadStopped' \in BOOLEAN /\ poolStopped' \in BOOLEAN
  BY DEF StopOffload, StopPool, IInv, TypeOK
<1>. QED BY <1>1, <1>2
     DEF IInv, TypeOK, SingleRunner, ArmedIsSuspended,
         PostedIsSuspended, PostingIsPrivate, QueuesByKind, FutureIsFresh, FrameAndHandle,
         SuspendedAt, Refused, Current

LEMMA NextInv == IInv /\ [Next]_vars => IInv'
<1>. SUFFICES ASSUME IInv, [Next]_vars PROVE IInv'
  OBVIOUS
<1>1. ASSUME NEW c \in Coro, Create(c) \/ CoroStep(c) \/ Cancel(c) \/ InvokeNext(c)
      PROVE  IInv'
  BY <1>1, CreateInv, AwaitDelayInv, AwaitScheduleInv, AwaitMainInv, AwaitOffloadInv,
     AwaitTaskInv, AddContinuationInv, LinkInv, InvokeImmediatelyInv, ArmInv, AwaitResumeInv, ReturnInv,
     CompleteInv, DeactivateInv, WakeInv, FinishInv, CancelInv, InvokeNextInv DEF CoroStep
<1>2. ASSUME NEW r \in Reg,
             PostMain(r) \/ PostSchedule(r) \/ PoolStep(r) \/ RunMain(r) \/ RunJob(r)
      PROVE  IInv'
  BY <1>2, PostMainInv, PostScheduleInv, RunPostedInv, RunWorkInv, RunMainInv, RunJobInv
     DEF PoolStep
<1>3. CASE StopOffload \/ StopPool
  BY <1>3, StopInv
<1>4. CASE Quiescent \/ UNCHANGED vars
  BY <1>4, StutterInv DEF Quiescent
<1>. QED BY <1>1, <1>2, <1>3, <1>4 DEF Next

THEOREM Invariance == Spec => []IInv
  BY InitInv, NextInv, PTL DEF Spec

\* The variables of every reachable state have their types.
THEOREM TypeCorrect == Spec => []TypeOK
<1>1. IInv => TypeOK
  BY DEF IInv
<1>. QED BY <1>1, Invariance, PTL

\* No frame is ever resumed twice for one suspension or while it runs: the phase
\* of ResumeOnce and Arm is enough, whatever claims the registration.
THEOREM ResumedOnce == Spec => []SingleRunner
<1>1. IInv => SingleRunner
  BY DEF IInv
<1>. QED BY <1>1, Invariance, PTL

-----------------------------------------------------------------------------
(* Why a frame may go on.                                                  *)

Unarmed == {"adding", "linking", "invoking", "arming"}

LEMMA ChildFact == ASSUME Causes PROVE \A r \in Reg : kind[r] = "task" => child[r] \in Coro
  BY DEF Causes, ChildrenKnowTheirParents

\* What allowed a frame to go on still does.
LEMMA CauseStays ==
  ASSUME Causes, NEW r \in Reg, kind'[r] = kind[r], child'[r] = child[r],
         \A d \in Coro : (cancelled[d] => cancelled'[d]) /\ (completed[d] => completed'[d])
  PROVE  /\ Caused(r) => Caused(r)'
         /\ \A m \in BOOLEAN : Justified(r, m) => Justified(r, m)'
<1>1. Caused(r) => Caused(r)'
  BY RegFields, ChildFact DEF Caused
<1>. QED BY <1>1 DEF Justified

\* A step of one frame, or of the holder of its handle, that begins no await and resumes
\* nobody.
LEMMA LocalCauses ==
  ASSUME IInv, Causes, NEW c \in Coro, NEW b, body' = [body EXCEPT ![c] = b],
         UNCHANGED <<onMain, awaitVars, posted>>,
         \A d \in Coro : (cancelled[d] => cancelled'[d]) /\ (completed[d] => completed'[d]),
         \A d \in Coro : toInvoke'[d] # {} => cancelled'[d],
         b = "invoking" => cancelled[c],
         b \in Unarmed => body[c] \in Unarmed,
         \A r \in Reg : \/ phase'[r] = phase[r]
                        \/ r = Current(c) /\ phase'[r] # 0 /\ (b \in Unarmed => Caused(r)),
         \A r \in posting' \cup mainQueue' : r \in posting \cup mainQueue \/ phase'[r] # 0,
         b = "resuming" => at[c] > 0 /\ Justified(Current(c), onMain[c]),
         b = "running" /\ at[c] > 0 => /\ kind[Current(c)] = "main" => onMain[c]
                                       /\ kind[Current(c)] = "schedule" => ~ onMain[c],
         ChildrenKnowTheirParents', EndsAreOrdered'
  PROVE  Causes'
<1>. USE DEF IInv, Causes
<1>1. \A d \in Coro : body'[d] = IF d = c THEN b ELSE body[d]
  BY DEF TypeOK
<1>2. \A d \in Coro : Current(d)' = Current(d)
  BY DEF Current
<1>3. \A d \in Coro : body[d] \in Unarmed \cup {"resuming"} => Current(d) \in Reg /\ Current(d)[1] = d
  BY CurrentReg DEF FrameAndHandle, Unarmed
<1>4. WalksAreAsked'
  BY <1>1 DEF WalksAreAsked
<1>5. EarlyClaims'
  <2>1. ASSUME NEW d \in Coro, NEW r, r = Current(d), body'[d] \in Unarmed, phase'[r] # 0
        PROVE  Caused(r)' \/ kind'[r] = "delay"
    <3>1. body[d] \in Unarmed /\ r \in Reg /\ r[1] = d
      BY <1>1, <1>3, <2>1
    <3>2. r = Current(c) => d = c
      BY <2>1 DEF Current
    <3>3. Caused(r) \/ kind[r] = "delay"
      BY <1>1, <2>1, <3>1, <3>2 DEF EarlyClaims, Unarmed
    <3>. QED BY <3>1, <3>3, CauseStays
  <2>. QED BY <1>2, <2>1 DEF EarlyClaims, Unarmed
<1>6. ResumptionsAreJustified'
  <2>1. ASSUME NEW d \in Coro, body'[d] = "resuming"
        PROVE  Justified(Current(d), onMain[d])'
    <3>1. Current(d) \in Reg /\ onMain[d] \in BOOLEAN
      BY <1>1, <1>3, <2>1, CurrentReg DEF TypeOK
    <3>2. Justified(Current(d), onMain[d])
      BY <1>1, <2>1 DEF ResumptionsAreJustified
    <3>3. Justified(Current(d), onMain[d]) => (Justified(Current(d), onMain[d]))'
      BY <1>2, <3>1, CauseStays
    <3>. QED BY <3>2, <3>3
  <2>2. \A r \in posted' : Justified(r, FALSE)'
    BY CauseStays DEF ResumptionsAreJustified, TypeOK
  <2>3. \A r \in posting' \cup mainQueue' : phase'[r] # 0
    BY DEF ResumptionsAreJustified, TypeOK
  <2>. QED BY <2>1, <2>2, <2>3 DEF ResumptionsAreJustified
<1>7. ExecutorBoundary'
  BY <1>1, <1>2 DEF ExecutorBoundary
<1>. QED BY <1>4, <1>5, <1>6, <1>7

\* A registration is claimed: its frame is resumed in place, queued to be, or will not
\* suspend, each with a cause.
LEMMA ResumeOnceCauses ==
  ASSUME IInv, Causes, NEW r \in Reg, NEW m \in BOOLEAN, ResumeOnce(r, m), ~ Refused(r),
         Justified(r, m), kind[r] # "main" => Justified(r, FALSE),
         body[r[1]] \in Unarmed /\ at[r[1]] = r[2] => Caused(r) \/ kind[r] = "delay" \/ phase[r] # 0,
         \A d \in Coro : toInvoke'[d] \subseteq toInvoke[d] /\ toResume'[d] \subseteq toResume[d],
         mainQueue' \subseteq mainQueue,
         UNCHANGED <<awaitVars, taskVars, posting>>
  PROVE  Causes'
<1>. USE DEF IInv, Causes
<1>1. phase' = [phase EXCEPT ![r] = 2] /\ \A s \in Reg : phase'[s] = IF s = r THEN 2 ELSE phase[s]
  BY DEF ResumeOnce, Claim, TypeOK
<1>2. \A d \in Coro : Current(d)' = Current(d)
  BY DEF Current
<1>3. \A s \in Reg, n \in BOOLEAN :
        (Caused(s) <=> Caused(s)') /\ (Justified(s, n) <=> Justified(s, n)')
  BY DEF Caused, Justified
<1>4. \/ UNCHANGED <<body, onMain, posted>>
      \/ /\ SuspendedAt(r)
         /\ body' = [body EXCEPT ![r[1]] = "resuming"] /\ onMain' = [onMain EXCEPT ![r[1]] = m]
         /\ UNCHANGED posted
      \/ UNCHANGED <<body, onMain>> /\ posted' = posted \cup {r} /\ kind[r] # "main"
  <2>1. CASE Armed(r) /\ InPlace(r) /\ Resume(r, m) /\ UNCHANGED posted
    <3>1. SuspendedAt(r)
      BY <2>1 DEF ArmedIsSuspended, Armed
    <3>2. body' = [body EXCEPT ![r[1]] = "resuming"]
      BY <2>1, <3>1 DEF Resume, SuspendedAt
    <3>3. onMain' = [onMain EXCEPT ![r[1]] = m]
      BY <2>1 DEF Resume
    <3>. QED BY <2>1, <3>1, <3>2, <3>3
  <2>2. CASE UNCHANGED <<body, onMain, posted>>
    BY <2>2
  <2>3. CASE ~ InPlace(r) /\ posted' = posted \cup {r} /\ UNCHANGED <<body, onMain>>
    BY <2>3 DEF InPlace
  <2>. QED BY <2>1, <2>2, <2>3 DEF ResumeOnce
<1>5. SuspendedAt(r) => Current(r[1]) = r
  BY RegFields DEF SuspendedAt, Current
<1>6. \A d \in Coro : body'[d] # body[d] => d = r[1] /\ body'[d] = "resuming" /\ SuspendedAt(r)
  BY <1>4 DEF TypeOK
<1>7. \A d \in Coro : onMain'[d] # onMain[d] =>
                      d = r[1] /\ body'[d] = "resuming" /\ onMain'[d] = m /\ SuspendedAt(r)
  BY <1>4 DEF TypeOK
<1>8. WalksAreAsked'
  BY <1>6 DEF WalksAreAsked
<1>9. EarlyClaims'
  <2>1. ASSUME NEW d \in Coro, NEW s, s = Current(d), body'[d] \in Unarmed, phase'[s] # 0
        PROVE  Caused(s)' \/ kind'[s] = "delay"
    <3>1. body[d] \in Unarmed
      BY <1>6, <2>1 DEF Unarmed
    <3>2. s \in Reg /\ s[1] = d /\ s[2] = at[d]
      BY <2>1, <3>1, CurrentReg DEF FrameAndHandle, Unarmed
    <3>3. Caused(s) \/ kind[s] = "delay"
      BY <1>1, <2>1, <3>1, <3>2 DEF EarlyClaims, Unarmed
    <3>. QED BY <1>3, <3>2, <3>3
  <2>. QED BY <1>2, <2>1 DEF EarlyClaims, Unarmed
<1>10. ResumptionsAreJustified'
  <2>1. ASSUME NEW d \in Coro, NEW s, s = Current(d), NEW n, n = onMain'[d], body'[d] = "resuming"
        PROVE  Justified(s, n)'
    <3>1. s \in Reg /\ onMain[d] \in BOOLEAN
      BY <1>6, <2>1, CurrentReg DEF FrameAndHandle, SuspendedAt, TypeOK
    <3>2. CASE SuspendedAt(r) /\ d = r[1]
      <4>1. s = r
        BY <1>5, <2>1, <3>2
      <4>2. n = m \/ n = onMain[d]
        BY <1>7, <2>1
      <4>. QED BY <1>3, <1>4, <2>1, <3>2, <4>1, <4>2 DEF TypeOK, SuspendedAt
    <3>3. CASE ~ (SuspendedAt(r) /\ d = r[1])
      <4>1. body[d] = "resuming" /\ n = onMain[d]
        BY <1>6, <1>7, <2>1, <3>3
      <4>2. Justified(s, n)
        BY <2>1, <4>1 DEF ResumptionsAreJustified
      <4>. QED BY <1>3, <3>1, <4>1, <4>2
    <3>. QED BY <3>2, <3>3
  <2>2. \A s \in posted' : Justified(s, FALSE)'
    BY <1>3, <1>4 DEF ResumptionsAreJustified, TypeOK
  <2>3. \A s \in posting' \cup mainQueue' : phase'[s] # 0
    BY <1>1 DEF ResumptionsAreJustified, TypeOK
  <2>. QED BY <1>2, <2>1, <2>2, <2>3 DEF ResumptionsAreJustified
<1>11. ChildrenKnowTheirParents'
  BY DEF ChildrenKnowTheirParents, TypeOK
<1>12. EndsAreOrdered'
  BY <1>6 DEF EndsAreOrdered, SuspendedAt
<1>13. ExecutorBoundary'
  BY <1>2, <1>6, <1>7 DEF ExecutorBoundary
<1>. QED BY <1>8, <1>9, <1>10, <1>11, <1>12, <1>13

LEMMA WakeCauses == ASSUME IInv, Causes, NEW c \in Coro, Wake(c) PROVE Causes'
<1>. USE DEF IInv, Causes
<1>1. PICK r \in toResume[c] :
        toResume' = [toResume EXCEPT ![c] = @ \ {r}] /\ ResumeOnce(r, onMain[c])
  BY DEF Wake
<1>2. r \in Reg /\ kind[r] = "task" /\ onMain[c] \in BOOLEAN
  BY <1>1 DEF TypeOK, QueuesByKind
<1>3. \A d \in Coro : toResume'[d] \subseteq toResume[d]
  BY <1>1 DEF TypeOK
<1>4. ~ Refused(r) /\ Caused(r)
  BY <1>1, <1>2 DEF Refused, ChildrenKnowTheirParents, Caused
<1>. QED BY <1>1, <1>2, <1>3, <1>4, ResumeOnceCauses DEF Wake, Justified

LEMMA InvokeNextCauses == ASSUME IInv, Causes, NEW c \in Coro, InvokeNext(c) PROVE Causes'
<1>. USE DEF IInv, Causes
<1>1. PICK r \in toInvoke[c] :
        toInvoke' = [toInvoke EXCEPT ![c] = @ \ {r}] /\ InvokeOnce(r, FALSE)
  BY DEF InvokeNext
<1>2. r \in Reg /\ r[1] = c /\ cancelled[c]
  BY <1>1 DEF TypeOK, QueuesByKind, WalksAreAsked
<1>3. ~ Refused(r) /\ Caused(r)
  BY <1>1, <1>2 DEF Refused, Caused
<1>4. \A d \in Coro : toInvoke'[d] \subseteq toInvoke[d]
  BY <1>1 DEF TypeOK
<1>5. CASE r \in active
  BY <1>1, <1>2, <1>3, <1>4, <1>5, ResumeOnceCauses DEF InvokeNext, InvokeOnce, Justified
<1>6. CASE r \notin active
  <2>1. UNCHANGED <<body, onMain, awaitVars, phase, taskVars, toResume, posting, posted, mainQueue>>
    BY <1>1, <1>6 DEF InvokeNext, InvokeOnce
  <2>. QED BY <1>4, <2>1
       DEF WalksAreAsked, EarlyClaims, ResumptionsAreJustified, ChildrenKnowTheirParents,
           EndsAreOrdered, ExecutorBoundary, Caused, Justified, Current
<1>. QED BY <1>5, <1>6

LEMMA RunWorkCauses == ASSUME IInv, Causes, NEW r \in Reg, RunWork(r) PROVE Causes'
<1>. USE DEF IInv, Causes
<1>1. r \in work /\ kind[r] \in {"delay", "schedule"} /\ ~ Refused(r)
  BY DEF RunWork, QueuesByKind, Refused
<1>2. body[r[1]] \in Unarmed /\ at[r[1]] = r[2] => kind[r] = "delay"
  BY <1>1, RegFields DEF FrameAndHandle, Unarmed, Current
<1>. QED BY <1>1, <1>2, ResumeOnceCauses DEF RunWork, Justified, TypeOK

LEMMA RunMainCauses == ASSUME IInv, Causes, NEW r \in Reg, RunMain(r) PROVE Causes'
<1>. USE DEF IInv, Causes
<1>1. kind[r] = "main" /\ phase[r] # 0 /\ ~ Refused(r)
  BY DEF RunMain, QueuesByKind, ResumptionsAreJustified, Refused
<1>. QED BY <1>1, ResumeOnceCauses DEF RunMain, Justified, TypeOK

LEMMA RunJobCauses == ASSUME IInv, Causes, NEW r \in Reg, RunJob(r) PROVE Causes'
<1>. USE DEF IInv, Causes
<1>1. kind[r] = "offload" /\ ~ Refused(r)
  BY DEF RunJob, QueuesByKind, Refused
<1>2. ~ (body[r[1]] \in Unarmed /\ at[r[1]] = r[2])
  BY <1>1, RegFields DEF FrameAndHandle, Unarmed, Current
<1>. QED BY <1>1, <1>2, ResumeOnceCauses DEF RunJob, Justified, TypeOK

LEMMA RunPostedCauses == ASSUME IInv, Causes, NEW r \in Reg, RunPosted(r) PROVE Causes'
<1>. USE DEF IInv, Causes, RunPosted
<1>1. SuspendedAt(r) /\ Justified(r, FALSE)
  BY DEF PostedIsSuspended, ResumptionsAreJustified
<1>2. body' = [body EXCEPT ![r[1]] = "resuming"] /\ onMain' = [onMain EXCEPT ![r[1]] = FALSE]
  BY <1>1 DEF Resume, SuspendedAt
<1>3. \A d \in Coro :
        /\ body'[d] = IF d = r[1] THEN "resuming" ELSE body[d]
        /\ onMain'[d] = IF d = r[1] THEN FALSE ELSE onMain[d]
  BY <1>2 DEF TypeOK
<1>4. Current(r[1]) = r /\ \A d \in Coro : Current(d)' = Current(d)
  BY <1>1, RegFields DEF Current, SuspendedAt
<1>5. \A s \in Reg : \A n : (Caused(s) <=> Caused(s)') /\ (Justified(s, n) <=> Justified(s, n)')
  BY DEF Caused, Justified
<1>6. WalksAreAsked' /\ EarlyClaims'
  <2>1. ASSUME NEW d \in Coro, NEW s, s = Current(d), body'[d] \in Unarmed, phase[s] # 0
        PROVE  Caused(s)' \/ kind'[s] = "delay"
    <3>1. body[d] \in Unarmed
      BY <1>3, <2>1 DEF Unarmed
    <3>2. s \in Reg
      BY <2>1, <3>1, CurrentReg DEF FrameAndHandle, Unarmed
    <3>. QED BY <1>5, <2>1, <3>1, <3>2 DEF EarlyClaims, Unarmed
  <2>2. EarlyClaims'
    BY <1>4, <2>1 DEF EarlyClaims, Unarmed
  <2>. QED BY <1>3, <2>2 DEF WalksAreAsked
<1>7. ResumptionsAreJustified'
  <2>1. ASSUME NEW d \in Coro, NEW s, s = Current(d), NEW n, n = onMain'[d], body'[d] = "resuming"
        PROVE  Justified(s, n)'
    <3>1. CASE d = r[1]
      BY <1>1, <1>3, <1>4, <1>5, <2>1, <3>1
    <3>2. CASE d # r[1]
      <4>1. body[d] = "resuming" /\ n = onMain[d]
        BY <1>3, <2>1, <3>2
      <4>2. s \in Reg /\ Justified(s, n)
        BY <2>1, <4>1, CurrentReg DEF ResumptionsAreJustified, FrameAndHandle
      <4>. QED BY <1>5, <4>2
    <3>. QED BY <3>1, <3>2
  <2>2. \A s \in posted' : Justified(s, FALSE)'
    BY <1>5 DEF ResumptionsAreJustified, TypeOK
  <2>. QED BY <1>4, <2>1, <2>2 DEF ResumptionsAreJustified
<1>8. ChildrenKnowTheirParents'
  BY DEF ChildrenKnowTheirParents
<1>9. EndsAreOrdered'
  BY <1>1, <1>3 DEF EndsAreOrdered, SuspendedAt
<1>10. ExecutorBoundary'
  BY <1>3, <1>4 DEF ExecutorBoundary
<1>. QED BY <1>6, <1>7, <1>8, <1>9, <1>10

\* An await begins: its registration is fresh, and a frame that asked for the main thread
\* goes on at once only there.
LEMMA BeginAwaitCauses ==
  ASSUME IInv, Causes, NEW c \in Coro, NEW k \in Awaiters, NEW t, BeginAwait(c, k, t),
         IF k = "task" THEN t \in Coro /\ <<c, t>> \in Awaits ELSE t = NoCoro,
         body' = [body EXCEPT ![c] = body'[c]],
         body'[c] \in {"running", "adding", "linking", "unwinding", "suspended"},
         body'[c] = "running" => k # "schedule" /\ (k = "main" => onMain[c]),
         phase' = [phase EXCEPT ![Upcoming(c)] = IF body'[c] = "suspended" THEN 1 ELSE 0],
         UNCHANGED <<onMain, cancelled, completed, result, conts, toInvoke, toResume, posting, posted,
                     mainQueue>>
  PROVE  Causes'
<1>0. PICK r, b : r = Upcoming(c) /\ b = body'[c]
  OBVIOUS
<1>. USE <1>0 DEF IInv, Causes
<1>1. /\ r \in Reg /\ r[1] = c /\ r[2] = at[c] + 1 /\ r[2] = at'[c]
      /\ phase[r] = 0 /\ kind[r] = "none"
      /\ kind' = [kind EXCEPT ![r] = k] /\ at' = [at EXCEPT ![c] = @ + 1]
      /\ child' = [child EXCEPT ![r] = t]
      /\ r \notin posted \cup posting \cup work \cup mainQueue \cup jobs
      /\ \A d \in Coro : r \notin conts[d] \cup toResume[d] \cup callbacks[d] \cup toInvoke[d]
  BY FreshRegistration
<1>2. body[c] = "running" /\ \A d \in Coro : body'[d] = IF d = c THEN b ELSE body[d]
  BY DEF BeginAwait, TypeOK
<1>3. \A s \in Reg : s # r =>
        /\ kind'[s] = kind[s] /\ child'[s] = child[s] /\ phase'[s] = phase[s]
        /\ (Caused(s) <=> Caused(s)')
        /\ \A n : (Justified(s, n) <=> Justified(s, n)')
  BY <1>1 DEF TypeOK, Caused, Justified
<1>4. kind'[r] = k /\ child'[r] = t /\ phase'[r] = (IF b = "suspended" THEN 1 ELSE 0)
  BY <1>1 DEF TypeOK
<1>5. Current(c)' = r /\ \A d \in Coro : d # c => Current(d)' = Current(d) /\ Current(d) # r
  <2>1. at'[c] = at[c] + 1 /\ \A d \in Coro : d # c => at'[d] = at[d]
    BY <1>1 DEF TypeOK
  <2>2. Current(c)' = r
    BY <2>1 DEF Current, Upcoming
  <2>3. \A d \in Coro : d # c => Current(d)' = Current(d)
    BY <2>1 DEF Current
  <2>4. \A d \in Coro : d # c => Current(d) # r
    BY <1>1 DEF Current
  <2>. QED BY <2>2, <2>3, <2>4
<1>6. WalksAreAsked'
  BY <1>2 DEF WalksAreAsked
<1>7. EarlyClaims'
  <2>1. ASSUME NEW d \in Coro, NEW s, d # c, s = Current(d), body'[d] \in Unarmed, phase'[s] # 0
        PROVE  Caused(s)' \/ kind'[s] = "delay"
    <3>1. body[d] \in Unarmed
      BY <1>2, <2>1
    <3>2. s \in Reg /\ s # r
      BY <1>5, <2>1, <3>1, CurrentReg DEF FrameAndHandle, Unarmed
    <3>. QED BY <1>3, <2>1, <3>1, <3>2 DEF EarlyClaims, Unarmed
  <2>. QED BY <1>2, <1>4, <1>5, <2>1 DEF EarlyClaims, Unarmed
<1>8. ResumptionsAreJustified'
  <2>1. ASSUME NEW d \in Coro, NEW s, NEW n, d # c, s = Current(d), n = onMain[d], body'[d] = "resuming"
        PROVE  Justified(s, n)'
    <3>1. body[d] = "resuming"
      BY <1>2, <2>1
    <3>2. s \in Reg /\ s # r /\ Justified(s, n)
      BY <1>5, <2>1, <3>1, CurrentReg DEF FrameAndHandle, ResumptionsAreJustified
    <3>. QED BY <1>3, <3>2
  <2>4. \A s \in posted' : Justified(s, FALSE)'
    <3>. SUFFICES ASSUME NEW s \in posted PROVE Justified(s, FALSE)'
      OBVIOUS
    <3>1. s \in Reg /\ s # r /\ Justified(s, FALSE)
      BY <1>1 DEF ResumptionsAreJustified, TypeOK
    <3>. QED BY <1>3, <3>1
  <2>5. \A s \in posting' \cup mainQueue' : phase'[s] # 0
    BY <1>1, <1>3 DEF ResumptionsAreJustified, TypeOK
  <2>. QED BY <1>2, <1>5, <2>1, <2>4, <2>5 DEF ResumptionsAreJustified
<1>9. ChildrenKnowTheirParents'
  <2>1. ASSUME NEW d \in Coro, NEW s \in conts'[d]
        PROVE  child'[s] = d
    BY <1>1, <1>3, <1>4, <2>1 DEF ChildrenKnowTheirParents, TypeOK
  <2>2. ASSUME NEW d \in Coro, NEW s \in toResume'[d]
        PROVE  child'[s] = d /\ completed'[d]
    BY <1>1, <1>3, <2>2 DEF ChildrenKnowTheirParents, TypeOK
  <2>3. \A s \in Reg : IF kind'[s] = "task" THEN <<s[1], child'[s]>> \in Awaits
                                           ELSE child'[s] = NoCoro
    BY <1>1, <1>3, <1>4 DEF ChildrenKnowTheirParents
  <2>. QED BY <2>1, <2>2, <2>3 DEF ChildrenKnowTheirParents
<1>10. EndsAreOrdered'
  BY <1>2 DEF EndsAreOrdered
<1>11. ExecutorBoundary'
  <2>1. ASSUME NEW d \in Coro, d # c, body'[d] = "running", at'[d] > 0
        PROVE  /\ kind'[Current(d)'] = "main" => onMain'[d]
               /\ kind'[Current(d)'] = "schedule" => ~ onMain'[d]
    <3>1. body[d] = "running" /\ at[d] > 0
      BY <1>1, <1>2, <2>1 DEF TypeOK
    <3>2. Current(d)' = Current(d) /\ Current(d) \in Reg /\ Current(d) # r
      BY <1>5, <2>1, <3>1, CurrentReg
    <3>. QED BY <1>3, <3>1, <3>2 DEF ExecutorBoundary
  <2>. QED BY <1>2, <1>4, <1>5, <2>1 DEF ExecutorBoundary
<1>. QED BY <1>6, <1>7, <1>8, <1>9, <1>10, <1>11

LEMMA AwaitDelayCauses == ASSUME IInv, Causes, NEW c \in Coro, AwaitDelay(c) PROVE Causes'
<1>. USE DEF IInv
<1>1. BeginAwait(c, "delay", NoCoro) /\ "delay" \in Awaiters
  BY DEF AwaitDelay, Awaiters
<1>2. Upcoming(c) \in Reg /\ phase[Upcoming(c)] = 0
  BY <1>1, FreshRegistration
<1>3. /\ body' = [body EXCEPT ![c] = body'[c]] /\ body'[c] \in {"running", "linking", "unwinding"}
      /\ UNCHANGED phase
  BY <1>1 DEF AwaitDelay, BeginAwait, TypeOK
<1>4. phase' = [phase EXCEPT ![Upcoming(c)] = IF body'[c] = "suspended" THEN 1 ELSE 0]
  BY <1>2, <1>3 DEF TypeOK
<1>5. UNCHANGED <<onMain, cancelled, completed, result, conts, toInvoke, toResume, posting, posted,
                  mainQueue>>
  BY DEF AwaitDelay
<1>. QED BY <1>1, <1>3, <1>4, <1>5, BeginAwaitCauses

LEMMA AwaitScheduleCauses == ASSUME IInv, Causes, NEW c \in Coro, AwaitSchedule(c) PROVE Causes'
<1>. USE DEF IInv
<1>1. BeginAwait(c, "schedule", NoCoro) /\ "schedule" \in Awaiters
  BY DEF AwaitSchedule, Awaiters
<1>2. Upcoming(c) \in Reg /\ phase[Upcoming(c)] = 0
  BY <1>1, FreshRegistration
<1>3. /\ body' = [body EXCEPT ![c] = body'[c]] /\ body'[c] = "linking"
      /\ UNCHANGED phase
  BY DEF AwaitSchedule, TypeOK
<1>4. phase' = [phase EXCEPT ![Upcoming(c)] = IF body'[c] = "suspended" THEN 1 ELSE 0]
  BY <1>2, <1>3 DEF TypeOK
<1>5. UNCHANGED <<onMain, cancelled, completed, result, conts, toInvoke, toResume, posting, posted,
                  mainQueue>>
  BY DEF AwaitSchedule
<1>. QED BY <1>1, <1>3, <1>4, <1>5, BeginAwaitCauses

LEMMA AwaitMainCauses == ASSUME IInv, Causes, NEW c \in Coro, AwaitMain(c) PROVE Causes'
<1>. USE DEF IInv
<1>1. BeginAwait(c, "main", NoCoro) /\ "main" \in Awaiters
  BY DEF AwaitMain, Awaiters
<1>2. Upcoming(c) \in Reg /\ phase[Upcoming(c)] = 0
  BY <1>1, FreshRegistration
<1>3. /\ body' = [body EXCEPT ![c] = body'[c]] /\ body'[c] \in {"linking", "running"}
      /\ body'[c] = "running" => onMain[c]
      /\ UNCHANGED phase
  BY DEF AwaitMain, TypeOK
<1>4. phase' = [phase EXCEPT ![Upcoming(c)] = IF body'[c] = "suspended" THEN 1 ELSE 0]
  BY <1>2, <1>3 DEF TypeOK
<1>5. UNCHANGED <<onMain, cancelled, completed, result, conts, toInvoke, toResume, posting, posted,
                  mainQueue>>
  BY DEF AwaitMain
<1>. QED BY <1>1, <1>3, <1>4, <1>5, BeginAwaitCauses

LEMMA AwaitOffloadCauses == ASSUME IInv, Causes, NEW c \in Coro, AwaitOffload(c) PROVE Causes'
<1>. USE DEF IInv
<1>1. BeginAwait(c, "offload", NoCoro) /\ "offload" \in Awaiters
  BY DEF AwaitOffload, Awaiters
<1>2. Upcoming(c) \in Reg /\ phase[Upcoming(c)] = 0 /\ Upcoming(c) = <<c, 1>>
  BY <1>1, FreshRegistration DEF AwaitOffload, Upcoming
<1>3. body' = [body EXCEPT ![c] = body'[c]] /\ body'[c] \in {"suspended", "unwinding"}
  BY DEF AwaitOffload, TypeOK
<1>4. phase' = [phase EXCEPT ![Upcoming(c)] = IF body'[c] = "suspended" THEN 1 ELSE 0]
  BY <1>2 DEF AwaitOffload, TypeOK
<1>5. UNCHANGED <<onMain, cancelled, completed, result, conts, toInvoke, toResume, posting, posted,
                  mainQueue>>
  BY DEF AwaitOffload
<1>. QED BY <1>1, <1>3, <1>4, <1>5, BeginAwaitCauses

LEMMA AwaitTaskCauses ==
  ASSUME IInv, Causes, NEW c \in Coro, NEW t \in Coro, AwaitTask(c, t)
  PROVE  Causes'
<1>. USE DEF IInv
<1>1. BeginAwait(c, "task", t) /\ "task" \in Awaiters /\ <<c, t>> \in Awaits
  BY DEF AwaitTask, Awaiters
<1>2. Upcoming(c) \in Reg /\ phase[Upcoming(c)] = 0
  BY <1>1, FreshRegistration
<1>3. /\ body' = [body EXCEPT ![c] = body'[c]] /\ body'[c] \in {"running", "adding", "unwinding"}
      /\ UNCHANGED phase
  BY DEF AwaitTask, TypeOK
<1>4. phase' = [phase EXCEPT ![Upcoming(c)] = IF body'[c] = "suspended" THEN 1 ELSE 0]
  BY <1>2, <1>3 DEF TypeOK
<1>5. UNCHANGED <<onMain, cancelled, completed, result, conts, toInvoke, toResume, posting, posted,
                  mainQueue>>
  BY DEF AwaitTask
<1>. QED BY <1>1, <1>3, <1>4, <1>5, BeginAwaitCauses

LEMMA CreateCauses == ASSUME IInv, Causes, NEW c \in Coro, Create(c) PROVE Causes'
<1>. USE DEF IInv, Causes
<1>1. /\ body[c] = "absent" /\ at[c] = 0 /\ body' = [body EXCEPT ![c] = "running"]
      /\ \A d \in Coro : d # c => onMain'[d] = onMain[d]
      /\ UNCHANGED <<published, awaitVars, phase, taskVars, walkVars, queueVars>>
  BY DEF Create, FrameAndHandle, TypeOK
<1>2. \A d \in Coro : d # c => body'[d] = body[d]
  BY <1>1 DEF TypeOK
<1>3. body'[c] = "running"
  BY <1>1 DEF TypeOK
<1>4. WalksAreAsked' /\ EndsAreOrdered' /\ ChildrenKnowTheirParents'
  BY <1>1, <1>2, <1>3 DEF WalksAreAsked, EndsAreOrdered, ChildrenKnowTheirParents
<1>5. EarlyClaims' /\ ResumptionsAreJustified'
  BY <1>1, <1>2, <1>3 DEF EarlyClaims, ResumptionsAreJustified, Current, Caused, Justified
<1>6. ExecutorBoundary'
  BY <1>1, <1>2 DEF ExecutorBoundary, Current
<1>. QED BY <1>4, <1>5, <1>6

LEMMA AddContinuationCauses ==
  ASSUME IInv, Causes, NEW c \in Coro, AddContinuation(c)
  PROVE  Causes'
<1>. USE DEF IInv, Causes
<1>1. PICK r, t : r = Current(c) /\ t = child[r]
  OBVIOUS
<1>2. r \in Reg /\ r[1] = c /\ kind[r] = "task" /\ body[c] = "adding" /\ at[c] > 0
  BY <1>1, CurrentReg DEF FrameAndHandle, AddContinuation
<1>3. PICK b \in {"resuming", "linking"} :
        body' = [body EXCEPT ![c] = b] /\ (b = "resuming" => completed[t])
  BY <1>1 DEF AddContinuation
<1>4. /\ conts' = conts \/ conts' = [conts EXCEPT ![t] = @ \cup {r}]
      /\ UNCHANGED <<onMain, awaitVars, posted, cancelled, completed, result, toResume, toInvoke,
                     phase, posting, mainQueue>>
  BY <1>1 DEF AddContinuation
<1>5. ChildrenKnowTheirParents'
  BY <1>1, <1>4 DEF ChildrenKnowTheirParents, TypeOK
<1>6. EndsAreOrdered'
  BY <1>2, <1>3, <1>4 DEF EndsAreOrdered, TypeOK
<1>7. \A d \in Coro : toInvoke'[d] # {} => cancelled'[d]
  BY <1>4 DEF WalksAreAsked
<1>8. b = "resuming" => Justified(Current(c), onMain[c])
  BY <1>1, <1>2, <1>3 DEF Justified, Caused
<1>. QED BY <1>2, <1>3, <1>4, <1>5, <1>6, <1>7, <1>8, LocalCauses DEF Unarmed

LEMMA LinkCauses == ASSUME IInv, Causes, NEW c \in Coro, Link(c) PROVE Causes'
<1>. USE DEF IInv, Causes
<1>1. PICK b \in {"invoking", "arming"} :
        body' = [body EXCEPT ![c] = b] /\ (b = "invoking" => cancelled[c])
  BY DEF Link, InvokesImmediately
<1>2. UNCHANGED <<onMain, awaitVars, posted, cancelled, completed, result, conts, toResume, toInvoke,
                  phase, posting, mainQueue>> /\ body[c] = "linking"
  BY DEF Link
<1>3. ChildrenKnowTheirParents'
  BY <1>2 DEF ChildrenKnowTheirParents
<1>4. EndsAreOrdered'
  BY <1>1, <1>2 DEF EndsAreOrdered, TypeOK
<1>5. \A d \in Coro : toInvoke'[d] # {} => cancelled'[d]
  BY <1>2 DEF WalksAreAsked
<1>. QED BY <1>1, <1>2, <1>3, <1>4, <1>5, LocalCauses DEF Unarmed

LEMMA InvokeImmediatelyCauses ==
  ASSUME IInv, Causes, NEW c \in Coro, InvokeImmediately(c)
  PROVE  Causes'
<1>. USE DEF IInv, Causes
<1>1. /\ body' = [body EXCEPT ![c] = "arming"] /\ body[c] = "invoking" /\ cancelled[c]
      /\ phase' = [phase EXCEPT ![Current(c)] = 2]
      /\ UNCHANGED <<onMain, awaitVars, posted, cancelled, completed, result, conts, toResume,
                     toInvoke, posting, mainQueue>>
  BY DEF InvokeImmediately, Claim, WalksAreAsked
<1>2. Current(c) \in Reg /\ Current(c)[1] = c
  BY <1>1, CurrentReg DEF FrameAndHandle
<1>3. ChildrenKnowTheirParents'
  BY <1>1 DEF ChildrenKnowTheirParents
<1>4. EndsAreOrdered'
  BY <1>1 DEF EndsAreOrdered, TypeOK
<1>5. \A d \in Coro : toInvoke'[d] # {} => cancelled'[d]
  BY <1>1 DEF WalksAreAsked
<1>6. \A r \in Reg : phase'[r] = phase[r] \/ (r = Current(c) /\ phase'[r] # 0 /\ Caused(r))
  BY <1>1, <1>2 DEF TypeOK, Caused
<1>. QED BY <1>1, <1>3, <1>4, <1>5, <1>6, LocalCauses DEF Unarmed

LEMMA ArmCauses == ASSUME IInv, Causes, NEW c \in Coro, Arm(c) PROVE Causes'
<1>. USE DEF IInv, Causes
<1>0. PICK r : r = Current(c)
  OBVIOUS
<1>1. /\ body[c] = "arming"
      /\ UNCHANGED <<onMain, awaitVars, posted, cancelled, completed, result, conts, toResume,
                     toInvoke, mainQueue>>
  BY DEF Arm
<1>2. r \in Reg /\ r[1] = c /\ at[c] > 0
  BY <1>0, <1>1, CurrentReg DEF FrameAndHandle
<1>3. ChildrenKnowTheirParents'
  BY <1>1 DEF ChildrenKnowTheirParents
<1>4. \A d \in Coro : toInvoke'[d] # {} => cancelled'[d]
  BY <1>1 DEF WalksAreAsked
<1>5. CASE phase[r] = 0
  <2>1. /\ phase' = [phase EXCEPT ![r] = 1] /\ body' = [body EXCEPT ![c] = "suspended"]
        /\ posting' \subseteq posting \cup {r}
    BY <1>0, <1>5 DEF Arm, CanArm
  <2>2. EndsAreOrdered'
    BY <1>1, <2>1 DEF EndsAreOrdered, TypeOK
  <2>3. \A s \in Reg : phase'[s] = phase[s] \/ (s = r /\ phase'[s] # 0)
    BY <1>2, <2>1 DEF TypeOK
  <2>4. \A s \in posting' \cup mainQueue' : s \in posting \cup mainQueue \/ phase'[s] # 0
    BY <1>1, <1>2, <2>1 DEF TypeOK
  <2>5. PICK b : b = "suspended"
    OBVIOUS
  <2>6. \A s \in Reg : \/ phase'[s] = phase[s]
                       \/ s = Current(c) /\ phase'[s] # 0 /\ (b \in Unarmed => Caused(s))
    BY <1>0, <2>3, <2>5 DEF Unarmed
  <2>7. body' = [body EXCEPT ![c] = b] /\ b \notin Unarmed \cup {"resuming", "running"}
    BY <2>1, <2>5 DEF Unarmed
  <2>. HIDE DEF IInv, Causes
  <2>. QED BY <1>1, <1>3, <1>4, <2>2, <2>4, <2>6, <2>7, LocalCauses DEF Unarmed
<1>6. CASE phase[r] # 0
  <2>1. body' = [body EXCEPT ![c] = "resuming"] /\ UNCHANGED <<phase, posting>>
    BY <1>0, <1>6 DEF Arm, CanArm
  <2>2. EndsAreOrdered'
    BY <1>1, <2>1 DEF EndsAreOrdered, TypeOK
  <2>3. Justified(Current(c), onMain[c])
    BY <1>0, <1>1, <1>6 DEF EarlyClaims, Justified
  <2>. QED BY <1>1, <1>2, <1>3, <1>4, <2>1, <2>2, <2>3, LocalCauses DEF Unarmed
<1>. QED BY <1>5, <1>6

LEMMA AwaitResumeCauses == ASSUME IInv, Causes, NEW c \in Coro, AwaitResume(c) PROVE Causes'
<1>. USE DEF IInv, Causes
<1>0. PICK r : r = Current(c)
  OBVIOUS
<1>1. /\ body[c] = "resuming"
      /\ UNCHANGED <<onMain, awaitVars, posted, cancelled, completed, result, conts, toResume,
                     toInvoke, phase, posting, mainQueue>>
  BY DEF AwaitResume
<1>2. PICK b \in {"running", "unwinding"} :
        /\ body' = [body EXCEPT ![c] = b]
        /\ b = "running" /\ kind[r] # "offload" => ~ cancelled[c]
  BY <1>0 DEF AwaitResume
<1>3. r \in Reg /\ r[1] = c
  BY <1>0, <1>1, CurrentReg DEF FrameAndHandle
<1>4. ChildrenKnowTheirParents'
  BY <1>1 DEF ChildrenKnowTheirParents
<1>5. EndsAreOrdered'
  BY <1>1, <1>2 DEF EndsAreOrdered, TypeOK
<1>6. \A d \in Coro : toInvoke'[d] # {} => cancelled'[d]
  BY <1>1 DEF WalksAreAsked
<1>7. b = "running" => /\ kind[r] = "main" => onMain[c]
                       /\ kind[r] = "schedule" => ~ onMain[c]
  BY <1>0, <1>1, <1>2, <1>3 DEF ResumptionsAreJustified, Justified, Caused
<1>. QED BY <1>0, <1>1, <1>2, <1>4, <1>5, <1>6, <1>7, LocalCauses DEF Unarmed

LEMMA ReturnCauses == ASSUME IInv, Causes, NEW c \in Coro, Return(c) PROVE Causes'
<1>. USE DEF IInv, Causes
<1>1. /\ body' = [body EXCEPT ![c] = "completing"] /\ body[c] \in {"running", "unwinding"}
      /\ UNCHANGED <<onMain, awaitVars, posted, cancelled, completed, conts, toResume, toInvoke,
                     phase, posting, mainQueue>>
      /\ \E o \in {"value", "failed"} : result' = [result EXCEPT ![c] = o]
  BY DEF Return
<1>2. ChildrenKnowTheirParents'
  BY <1>1 DEF ChildrenKnowTheirParents
<1>3. EndsAreOrdered'
  BY <1>1 DEF EndsAreOrdered, TypeOK
<1>4. \A d \in Coro : toInvoke'[d] # {} => cancelled'[d]
  BY <1>1 DEF WalksAreAsked
<1>. QED BY <1>1, <1>2, <1>3, <1>4, LocalCauses DEF Unarmed

LEMMA CompleteCauses == ASSUME IInv, Causes, NEW c \in Coro, Complete(c) PROVE Causes'
<1>. USE DEF IInv, Causes
<1>1. /\ body' = [body EXCEPT ![c] = "waking"] /\ body[c] = "completing"
      /\ completed' = [completed EXCEPT ![c] = TRUE]
      /\ toResume' = [toResume EXCEPT ![c] = conts[c]]
      /\ conts' = [conts EXCEPT ![c] = {}]
      /\ UNCHANGED <<onMain, awaitVars, posted, cancelled, result, toInvoke, phase, posting,
                     mainQueue>>
  BY DEF Complete
<1>2. \A d \in Coro : completed[d] => completed'[d]
  BY <1>1 DEF TypeOK
<1>3. ChildrenKnowTheirParents'
  BY <1>1 DEF ChildrenKnowTheirParents, TypeOK
<1>4. EndsAreOrdered'
  BY <1>1 DEF EndsAreOrdered, TypeOK
<1>5. \A d \in Coro : toInvoke'[d] # {} => cancelled'[d]
  BY <1>1 DEF WalksAreAsked
<1>. QED BY <1>1, <1>2, <1>3, <1>4, <1>5, LocalCauses DEF Unarmed

LEMMA FinishCauses == ASSUME IInv, Causes, NEW c \in Coro, Finish(c) PROVE Causes'
<1>. USE DEF IInv, Causes
<1>1. /\ body' = [body EXCEPT ![c] = "done"] /\ body[c] = "waking"
      /\ UNCHANGED <<onMain, awaitVars, posted, cancelled, completed, result, conts, toResume,
                     toInvoke, phase, posting, mainQueue>>
  BY DEF Finish
<1>2. ChildrenKnowTheirParents'
  BY <1>1 DEF ChildrenKnowTheirParents
<1>3. EndsAreOrdered'
  BY <1>1 DEF EndsAreOrdered, TypeOK
<1>4. \A d \in Coro : toInvoke'[d] # {} => cancelled'[d]
  BY <1>1 DEF WalksAreAsked
<1>. QED BY <1>1, <1>2, <1>3, <1>4, LocalCauses DEF Unarmed

\* Steps that leave the frames alone.
LEMMA FrameLessCauses ==
  ASSUME IInv, Causes,
         UNCHANGED <<body, onMain, awaitVars, phase, posted, completed, result, conts, toResume>>,
         \A d \in Coro : cancelled[d] => cancelled'[d],
         \A d \in Coro : toInvoke'[d] # {} => cancelled'[d],
         posting' \cup mainQueue' \subseteq posting \cup mainQueue
  PROVE  Causes'
<1>. USE DEF IInv, Causes
<1>1. ChildrenKnowTheirParents' /\ EndsAreOrdered' /\ ExecutorBoundary'
  BY DEF ChildrenKnowTheirParents, EndsAreOrdered, ExecutorBoundary, Current
<1>2. WalksAreAsked'
  BY DEF WalksAreAsked
<1>3. \A r \in Reg : /\ Caused(r) => Caused(r)'
                     /\ \A m \in BOOLEAN : Justified(r, m) => Justified(r, m)'
  BY CauseStays
<1>4. \A d \in Coro : /\ Current(d)' = Current(d)
                      /\ body[d] \in Unarmed \cup {"resuming"} => Current(d) \in Reg
  BY CurrentReg DEF Current, FrameAndHandle, Unarmed
<1>5. EarlyClaims'
  <2>1. ASSUME NEW d \in Coro, NEW r, r = Current(d), body[d] \in Unarmed, phase[r] # 0
        PROVE  Caused(r)' \/ kind'[r] = "delay"
    BY <1>3, <1>4, <2>1 DEF EarlyClaims, Unarmed
  <2>. QED BY <1>4, <2>1 DEF EarlyClaims, Unarmed
<1>6. ResumptionsAreJustified'
  <2>1. ASSUME NEW d \in Coro, NEW r, r = Current(d), NEW m, m = onMain[d], body[d] = "resuming"
        PROVE  Justified(r, m)'
    BY <1>3, <1>4, <2>1 DEF ResumptionsAreJustified, TypeOK
  <2>2. \A r \in posted : Justified(r, FALSE)'
    BY <1>3 DEF ResumptionsAreJustified, TypeOK
  <2>3. \A r \in posting' \cup mainQueue' : phase'[r] # 0
    BY DEF ResumptionsAreJustified
  <2>. QED BY <1>4, <2>1, <2>2, <2>3 DEF ResumptionsAreJustified
<1>. QED BY <1>1, <1>2, <1>5, <1>6

LEMMA DeactivateCauses == ASSUME IInv, Causes, NEW c \in Coro, Deactivate(c) PROVE Causes'
  BY FrameLessCauses DEF Deactivate, Causes, WalksAreAsked

LEMMA CancelCauses == ASSUME IInv, Causes, NEW c \in Coro, Cancel(c) PROVE Causes'
<1>1. /\ cancelled' = [cancelled EXCEPT ![c] = TRUE]
      /\ toInvoke' = [toInvoke EXCEPT ![c] = callbacks[c]]
      /\ UNCHANGED <<body, onMain, awaitVars, phase, posted, completed, result, conts, toResume,
                     posting, mainQueue>>
  BY DEF Cancel
<1>2. \A d \in Coro : cancelled[d] => cancelled'[d]
  BY <1>1 DEF IInv, TypeOK
<1>3. \A d \in Coro : toInvoke'[d] # {} => cancelled'[d]
  BY <1>1 DEF IInv, TypeOK, Causes, WalksAreAsked
<1>. QED BY <1>1, <1>2, <1>3, FrameLessCauses

LEMMA PostMainCauses == ASSUME IInv, Causes, NEW r \in Reg, PostMain(r) PROVE Causes'
  BY FrameLessCauses DEF PostMain, Causes, WalksAreAsked

LEMMA PostScheduleCauses == ASSUME IInv, Causes, NEW r \in Reg, PostSchedule(r) PROVE Causes'
<1>. USE DEF IInv, Causes
<1>1. /\ r[1] \in Coro /\ r \in posting /\ kind[r] = "schedule" /\ posting' = posting \ {r}
      /\ UNCHANGED <<onMain, awaitVars, phase, cancelled, completed, result, conts, toInvoke,
                      toResume, posted, mainQueue>>
  BY RegFields DEF PostSchedule
<1>2. SuspendedAt(r)
  BY <1>1 DEF PostingIsPrivate
<1>3. CASE UNCHANGED body
  BY <1>1, <1>3, FrameLessCauses DEF WalksAreAsked
<1>4. CASE body' = [body EXCEPT ![r[1]] = "unwinding"]
  <2>1. ChildrenKnowTheirParents'
    BY <1>1 DEF ChildrenKnowTheirParents
  <2>2. EndsAreOrdered'
    BY <1>1, <1>2, <1>4 DEF EndsAreOrdered, TypeOK, SuspendedAt
  <2>3. \A d \in Coro : toInvoke'[d] # {} => cancelled'[d]
    BY <1>1 DEF WalksAreAsked
  <2>. QED BY <1>1, <1>4, <2>1, <2>2, <2>3, LocalCauses DEF Unarmed
<1>. QED BY <1>2, <1>3, <1>4 DEF PostSchedule, SuspendedAt

LEMMA InitCauses == Init => Causes
  BY DEF Init, Causes, WalksAreAsked, EarlyClaims, ResumptionsAreJustified, EndsAreOrdered,
         ChildrenKnowTheirParents, ExecutorBoundary

LEMMA NextCauses == IInv /\ Causes /\ [Next]_vars => Causes'
<1>. SUFFICES ASSUME IInv, Causes, [Next]_vars PROVE Causes'
  OBVIOUS
<1>1. ASSUME NEW c \in Coro, Create(c) \/ CoroStep(c) \/ Cancel(c) \/ InvokeNext(c)
      PROVE  Causes'
  BY <1>1, CreateCauses, AwaitDelayCauses, AwaitScheduleCauses, AwaitMainCauses,
     AwaitOffloadCauses, AwaitTaskCauses, AddContinuationCauses, LinkCauses,
     InvokeImmediatelyCauses, ArmCauses, AwaitResumeCauses, ReturnCauses, CompleteCauses, DeactivateCauses, WakeCauses, FinishCauses,
     CancelCauses, InvokeNextCauses DEF CoroStep
<1>2. ASSUME NEW r \in Reg,
             PostMain(r) \/ PostSchedule(r) \/ PoolStep(r) \/ RunMain(r) \/ RunJob(r)
      PROVE  Causes'
  BY <1>2, PostMainCauses, PostScheduleCauses, RunPostedCauses, RunWorkCauses, RunMainCauses,
     RunJobCauses DEF PoolStep
<1>3. CASE StopOffload \/ StopPool \/ Quiescent \/ UNCHANGED vars
  <2>1. UNCHANGED <<body, onMain, awaitVars, phase, posted, taskVars, walkVars, posting, mainQueue>>
    BY <1>3 DEF StopOffload, StopPool, Quiescent, vars
  <2>. QED BY <2>1, FrameLessCauses DEF Causes, WalksAreAsked
<1>. QED BY <1>1, <1>2, <1>3 DEF Next

THEOREM CausesHold == Spec => []Causes
  BY InitCauses, NextCauses, Invariance, PTL DEF Spec

\* User code stays on the executor it asked for: no step sequence brings a frame past await
\* main on another thread, or past a Run or Yield boundary on a main thread.
THEOREM CodeStaysOnItsExecutor == Spec => []ExecutorBoundary
<1>1. Causes => ExecutorBoundary
  BY DEF Causes
<1>. QED BY <1>1, CausesHold, PTL

-----------------------------------------------------------------------------
(* Coroutines implement TaskContract.                                      *)

Waiting == {"adding", "linking", "invoking", "arming", "suspended", "resuming"}

Life(c) == IF body[c] = "absent" THEN "absent" ELSE IF completed[c] THEN "settled" ELSE "active"
Observed(c) == IF completed[c] THEN Outcome(c) ELSE "none"

\* Where a frame is when its task is not settled, and what it waits for.
LEMMA FrameFacts ==
  ASSUME IInv, Causes, NEW c \in Coro
  PROVE  /\ completed[c] => body[c] \in {"waking", "done"}
         /\ published[c] => body[c] # "absent"
         /\ body[c] \in Waiting =>
              /\ Current(c) \in Reg /\ Current(c)[1] = c /\ AwaitedBy(c) = child[Current(c)]
              /\ IF kind[Current(c)] = "task" THEN <<c, AwaitedBy(c)>> \in Awaits
                                              ELSE AwaitedBy(c) = NoCoro
         /\ body[c] \notin Waiting => AwaitedBy(c) = NoCoro
<1>. USE DEF IInv, Causes
<1>1. completed[c] => body[c] \in {"waking", "done"}
  BY DEF EndsAreOrdered
<1>2. published[c] => body[c] # "absent"
  BY DEF FrameAndHandle
<1>3. body[c] \in Waiting => Current(c) \in Reg /\ Current(c)[1] = c /\ AwaitedBy(c) = child[Current(c)]
  BY CurrentReg DEF FrameAndHandle, Waiting, AwaitedBy
<1>4. ASSUME body[c] \in Waiting
      PROVE  IF kind[Current(c)] = "task" THEN <<c, AwaitedBy(c)>> \in Awaits
                                          ELSE AwaitedBy(c) = NoCoro
  BY <1>3, <1>4 DEF ChildrenKnowTheirParents
<1>. QED BY <1>1, <1>2, <1>3, <1>4 DEF AwaitedBy, Waiting

\* A step that the contract does not see.
LEMMA Unseen ==
  ASSUME \A d \in Coro : /\ Life(d)' = Life(d) /\ Observed(d)' = Observed(d)
                         /\ AwaitedBy(d)' = AwaitedBy(d),
         cancelled' = cancelled
  PROVE  UNCHANGED Contract!contractVars
  BY DEF Contract!contractVars, Life, Observed

\* A step of one frame that neither begins nor ends an await of a task.
LEMMA FrameStepMaps ==
  ASSUME IInv, Causes, NEW c \in Coro, NEW b, body' = [body EXCEPT ![c] = b],
         b # "absent", body[c] # "absent",
         UNCHANGED <<awaitVars, cancelled, completed>>,
         \A d \in Coro : completed[d] => result'[d] = result[d],
         \/ b \in Waiting <=> body[c] \in Waiting
         \/ body[c] \in Waiting /\ kind[Current(c)] # "task"
  PROVE  UNCHANGED Contract!contractVars
<1>1. \A d \in Coro : body'[d] = IF d = c THEN b ELSE body[d]
  BY DEF IInv, TypeOK
<1>2. \A d \in Coro : Life(d)' = Life(d) /\ Observed(d)' = Observed(d)
  BY <1>1 DEF Life, Observed, Outcome
<1>3. \A d \in Coro : Current(d)' = Current(d)
  BY DEF Current
<1>4. \A d \in Coro : d # c => AwaitedBy(d)' = AwaitedBy(d)
  BY <1>1, <1>3 DEF AwaitedBy
<1>5. AwaitedBy(c)' = IF b \in Waiting THEN child[Current(c)] ELSE NoCoro
  BY <1>1, <1>3 DEF AwaitedBy, Waiting
<1>6. AwaitedBy(c) = IF body[c] \in Waiting THEN child[Current(c)] ELSE NoCoro
  BY DEF AwaitedBy, Waiting
<1>7. AwaitedBy(c)' = AwaitedBy(c)
  BY <1>5, <1>6, FrameFacts
<1>. QED BY <1>2, <1>4, <1>7, Unseen

\* Resuming a suspended frame.
LEMMA ResumeMaps ==
  ASSUME IInv, Causes, SingleRunner', NEW r \in Reg,
         UNCHANGED body \/ \E m \in BOOLEAN : Resume(r, m),
         UNCHANGED <<awaitVars, cancelled, completed, result>>
  PROVE  UNCHANGED Contract!contractVars
<1>1. CASE UNCHANGED body
  BY <1>1, Unseen DEF Life, Observed, Outcome, AwaitedBy, Current
<1>2. CASE \E m \in BOOLEAN : Resume(r, m)
  <2>1. r[1] \in Coro /\ body'[r[1]] # "doubled"
    BY RegFields DEF SingleRunner
  <2>2. body[r[1]] = "suspended" /\ body' = [body EXCEPT ![r[1]] = "resuming"]
    BY <1>2, <2>1 DEF Resume, IInv, TypeOK
  <2>. QED BY <2>1, <2>2, FrameStepMaps DEF Waiting
<1>. QED BY <1>1, <1>2

LEMMA ResumeOnceMaps ==
  ASSUME IInv, Causes, SingleRunner', NEW r \in Reg, NEW m \in BOOLEAN, ResumeOnce(r, m),
         UNCHANGED <<awaitVars, cancelled, completed, result>>
  PROVE  UNCHANGED Contract!contractVars
  BY ResumeMaps DEF ResumeOnce

\* An await begins.
LEMMA BeginAwaitMaps ==
  ASSUME IInv, Causes, NEW c \in Coro, NEW k \in Awaiters, NEW t, BeginAwait(c, k, t),
         NEW b, body' = [body EXCEPT ![c] = b], b # "absent",
         UNCHANGED <<cancelled, completed, result>>
  PROVE  /\ Life(c) = "active" /\ AwaitedBy(c) = NoCoro
         /\ \A d \in Coro : /\ Life(d)' = Life(d) /\ Observed(d)' = Observed(d)
                            /\ d # c => AwaitedBy(d)' = AwaitedBy(d)
         /\ AwaitedBy(c)' = IF b \in Waiting THEN t ELSE NoCoro
<1>0. PICK r : r = Upcoming(c)
  OBVIOUS
<1>1. /\ r \in Reg /\ r[1] = c /\ r[2] = at[c] + 1
      /\ at' = [at EXCEPT ![c] = @ + 1] /\ child' = [child EXCEPT ![r] = t]
  BY <1>0, FreshRegistration
<1>2. body[c] = "running" /\ ~ completed[c] /\ \A d \in Coro : body'[d] = IF d = c THEN b ELSE body[d]
  BY FrameFacts DEF BeginAwait, IInv, TypeOK
<1>3. Life(c) = "active" /\ AwaitedBy(c) = NoCoro
  BY <1>2 DEF Life, AwaitedBy
<1>4. \A d \in Coro : Life(d)' = Life(d) /\ Observed(d)' = Observed(d)
  BY <1>2 DEF Life, Observed, Outcome
<1>5. at'[c] = at[c] + 1 /\ \A d \in Coro : d # c => at'[d] = at[d]
  BY <1>1 DEF IInv, TypeOK
<1>6. Current(c)' = r
  BY <1>0, <1>5 DEF Current, Upcoming
<1>7. child'[r] = t /\ \A s \in Reg : s # r => child'[s] = child[s]
  BY <1>1 DEF IInv, TypeOK
<1>8. AwaitedBy(c)' = IF b \in Waiting THEN t ELSE NoCoro
  BY <1>2, <1>6, <1>7 DEF AwaitedBy, Waiting
<1>9. ASSUME NEW d \in Coro, d # c
      PROVE  AwaitedBy(d)' = AwaitedBy(d)
  <2>1. Current(d)' = Current(d) /\ body'[d] = body[d]
    BY <1>2, <1>5, <1>9 DEF Current
  <2>2. CASE body[d] \in Waiting
    <3>1. Current(d) \in Reg /\ Current(d)[1] = d
      BY <2>2, FrameFacts
    <3>2. child'[Current(d)] = child[Current(d)]
      BY <1>1, <1>7, <1>9, <3>1
    <3>. QED BY <2>1, <3>2 DEF AwaitedBy
  <2>3. CASE body[d] \notin Waiting
    BY <2>1, <2>3 DEF AwaitedBy, Waiting
  <2>. QED BY <2>2, <2>3
<1>. QED BY <1>3, <1>4, <1>8, <1>9

LEMMA QuietAwaitMaps ==
  ASSUME IInv, Causes, NEW c \in Coro,
         AwaitDelay(c) \/ AwaitSchedule(c) \/ AwaitMain(c) \/ AwaitOffload(c)
  PROVE  UNCHANGED Contract!contractVars
<1>1. PICK k \in Awaiters : BeginAwait(c, k, NoCoro)
  BY DEF AwaitDelay, AwaitSchedule, AwaitMain, AwaitOffload, Awaiters
<1>2. PICK b \in {"running", "linking", "unwinding", "suspended"} : body' = [body EXCEPT ![c] = b]
  BY <1>1 DEF AwaitDelay, AwaitSchedule, AwaitMain, AwaitOffload, BeginAwait, IInv, TypeOK
<1>3. UNCHANGED <<cancelled, completed, result>>
  BY DEF AwaitDelay, AwaitSchedule, AwaitMain, AwaitOffload
<1>4. b # "absent"
  OBVIOUS
<1>5. \A d \in Coro : /\ Life(d)' = Life(d) /\ Observed(d)' = Observed(d)
                      /\ AwaitedBy(d)' = AwaitedBy(d)
  BY <1>1, <1>2, <1>3, <1>4, BeginAwaitMaps
<1>. QED BY <1>3, <1>5, Unseen

LEMMA AwaitTaskMaps ==
  ASSUME IInv, Causes, NEW c \in Coro, NEW t \in Coro, AwaitTask(c, t)
  PROVE  \/ UNCHANGED Contract!contractVars
         \/ Contract!Await(c, t) /\ <<c, t>> \in Awaits
<1>1. BeginAwait(c, "task", t) /\ "task" \in Awaiters /\ <<c, t>> \in Awaits /\ published[t]
  BY DEF AwaitTask, Awaiters
<1>2. PICK b \in {"running", "adding", "unwinding"} : body' = [body EXCEPT ![c] = b]
  BY DEF AwaitTask
<1>3. UNCHANGED <<cancelled, completed, result>>
  BY DEF AwaitTask
<1>4. /\ Life(c) = "active" /\ AwaitedBy(c) = NoCoro
      /\ \A d \in Coro : /\ Life(d)' = Life(d) /\ Observed(d)' = Observed(d)
                         /\ d # c => AwaitedBy(d)' = AwaitedBy(d)
      /\ AwaitedBy(c)' = IF b \in Waiting THEN t ELSE NoCoro
  BY <1>1, <1>2, <1>3, BeginAwaitMaps
<1>5. Life(t) # "absent"
  BY <1>1, FrameFacts DEF Life
<1>6. CASE b = "adding"
  BY <1>1, <1>3, <1>4, <1>5, <1>6 DEF Contract!Await, Life, Observed, Waiting
<1>7. CASE b # "adding"
  BY <1>3, <1>4, <1>7, Unseen DEF Waiting
<1>. QED BY <1>6, <1>7

LEMMA CreateMaps ==
  ASSUME IInv, Causes, NEW c \in Coro, Create(c)
  PROVE  Contract!Begin(c)
<1>1. /\ body[c] = "absent" /\ ~ completed[c]
      /\ \A d \in Coro : body'[d] = IF d = c THEN "running" ELSE body[d]
      /\ UNCHANGED <<awaitVars, taskVars>>
  BY FrameFacts DEF Create, IInv, TypeOK
<1>2. Life(c) = "absent" /\ \A d \in Coro : Life(d)' = IF d = c THEN "active" ELSE Life(d)
  BY <1>1 DEF Life
<1>3. \A d \in Coro : Observed(d)' = Observed(d) /\ AwaitedBy(d)' = AwaitedBy(d)
  BY <1>1 DEF Observed, Outcome, AwaitedBy, Current
<1>. QED BY <1>1, <1>2, <1>3 DEF Contract!Begin, Life, Observed

\* An await ends: the child has settled, or the awaiter was cancelled.
LEMMA AwaitResumeMaps ==
  ASSUME IInv, Causes, NEW c \in Coro, AwaitResume(c)
  PROVE  \/ UNCHANGED Contract!contractVars
         \/ \E pair \in Awaits : Contract!GetPast(pair[1], pair[2])
<1>1. body[c] = "resuming" /\ UNCHANGED <<awaitVars, taskVars>>
  BY DEF AwaitResume
<1>2. PICK b \in {"running", "unwinding"} : body' = [body EXCEPT ![c] = b]
  BY DEF AwaitResume
<1>3. CASE kind[Current(c)] # "task"
  BY <1>1, <1>2, <1>3, FrameStepMaps DEF Waiting
<1>4. CASE kind[Current(c)] = "task"
  <2>1. PICK t : t = AwaitedBy(c)
    OBVIOUS
  <2>2. <<c, t>> \in Awaits /\ t \in Coro /\ t = child[Current(c)] /\ Current(c)[1] = c
    BY <1>1, <1>4, <2>1, FrameFacts DEF Waiting
  <2>3. cancelled[c] \/ completed[t]
    BY <1>1, <1>4, <2>2 DEF Causes, ResumptionsAreJustified, Justified, Caused
  <2>4. Life(t) = "settled" \/ cancelled[c]
    BY <2>2, <2>3, FrameFacts DEF Life
  <2>5. \A d \in Coro : body'[d] = IF d = c THEN b ELSE body[d]
    BY <1>2 DEF IInv, TypeOK
  <2>6. \A d \in Coro : Life(d)' = Life(d) /\ Observed(d)' = Observed(d)
    BY <1>1, <2>5 DEF Life, Observed, Outcome
  <2>7. \A d \in Coro : AwaitedBy(d)' = IF d = c THEN NoCoro ELSE AwaitedBy(d)
    BY <1>1, <2>5 DEF AwaitedBy, Current
  <2>8. Contract!GetPast(c, t)
    BY <1>1, <2>1, <2>2, <2>4, <2>6, <2>7 DEF Contract!GetPast, Life, Observed
  <2>. QED BY <2>2, <2>8
<1>. QED BY <1>3, <1>4

\* Completion settles the task with what the frame returned, or as cancelled.
LEMMA CompleteMaps ==
  ASSUME IInv, Causes, NEW c \in Coro, Complete(c)
  PROVE  \E o \in {"value", "failed"} : Contract!Settle(c, o)
<1>1. /\ body[c] = "completing" /\ ~ completed[c] /\ result[c] \in {"value", "failed"}
      /\ UNCHANGED <<awaitVars, cancelled, result>>
  BY FrameFacts DEF Complete, Causes, EndsAreOrdered
<1>2. \A d \in Coro : /\ body'[d] = IF d = c THEN "waking" ELSE body[d]
                      /\ completed'[d] = IF d = c THEN TRUE ELSE completed[d]
  BY DEF Complete, IInv, TypeOK
<1>3. Life(c) = "active" /\ \A d \in Coro : Life(d)' = IF d = c THEN "settled" ELSE Life(d)
  BY <1>1, <1>2 DEF Life
<1>4. AwaitedBy(c) = NoCoro /\ \A d \in Coro : AwaitedBy(d)' = AwaitedBy(d)
  BY <1>1, <1>2 DEF AwaitedBy, Current
<1>5. \A d \in Coro : Observed(d)' = IF d # c THEN Observed(d)
                                     ELSE IF cancelled[c] THEN "cancelled" ELSE result[c]
  BY <1>1, <1>2 DEF Observed, Outcome
<1>6. PICK o \in {"value", "failed"} : o = result[c]
  BY <1>1
<1>7. Contract!Settle(c, o)
  BY <1>1, <1>3, <1>4, <1>5, <1>6 DEF Contract!Settle, Life, Observed
<1>. QED BY <1>7

LEMMA CancelMaps ==
  ASSUME IInv, Causes, NEW c \in Coro, Cancel(c)
  PROVE  Contract!AskToCancel(c)
<1>1. /\ published[c] /\ ~ completed[c] /\ cancelled' = [cancelled EXCEPT ![c] = TRUE]
      /\ UNCHANGED <<body, awaitVars, completed, result>>
  BY DEF Cancel, Cancellable
<1>2. Life(c) = "active" /\ \A d \in Coro : Life(d)' = Life(d) /\ AwaitedBy(d)' = AwaitedBy(d)
  BY <1>1, FrameFacts DEF Life, AwaitedBy, Current
<1>3. \A d \in Coro : d # c => cancelled'[d] = cancelled[d]
  BY <1>1 DEF IInv, TypeOK
<1>4. \A d \in Coro : Observed(d)' = Observed(d)
  BY <1>1, <1>3 DEF Observed, Outcome
<1>. QED BY <1>1, <1>2, <1>4 DEF Contract!AskToCancel, Life, Observed

\* The other steps of a frame stay on their side of an await.
LEMMA InnerStepMaps ==
  ASSUME IInv, Causes, NEW c \in Coro,
         \/ AddContinuation(c) \/ Link(c) \/ InvokeImmediately(c) \/ Arm(c)
         \/ Return(c) \/ Finish(c) \/ Deactivate(c)
  PROVE  UNCHANGED Contract!contractVars
<1>0. CASE AddContinuation(c)
  <2>1. PICK b \in {"linking", "resuming"} : body' = [body EXCEPT ![c] = b]
    BY <1>0 DEF AddContinuation
  <2>2. body[c] = "adding" /\ UNCHANGED <<awaitVars, cancelled, completed, result>>
    BY <1>0 DEF AddContinuation
  <2>. QED BY <2>1, <2>2, FrameStepMaps DEF Waiting
<1>1. CASE Link(c) \/ InvokeImmediately(c) \/ Arm(c)
  <2>1. PICK b \in {"invoking", "arming", "suspended", "resuming"} : body' = [body EXCEPT ![c] = b]
    BY <1>1 DEF Link, InvokeImmediately, Arm
  <2>2. (body[c] \in Unarmed /\ UNCHANGED <<awaitVars, taskVars>>) \/ Link(c)
    BY <1>1 DEF Link, InvokeImmediately, Arm, Unarmed
  <2>3. body[c] \in Unarmed /\ UNCHANGED <<awaitVars, cancelled, completed, result>>
    BY <2>2 DEF Link, Unarmed
  <2>. QED BY <2>1, <2>3, FrameStepMaps DEF Waiting, Unarmed
<1>2. CASE Return(c)
  <2>1. /\ body' = [body EXCEPT ![c] = "completing"] /\ body[c] \in {"running", "unwinding"}
        /\ UNCHANGED <<awaitVars, cancelled, completed>>
        /\ \E o \in {"value", "failed"} : result' = [result EXCEPT ![c] = o]
    BY <1>2 DEF Return
  <2>2. \A d \in Coro : completed[d] => result'[d] = result[d]
    BY <2>1, FrameFacts DEF IInv, TypeOK
  <2>. QED BY <2>1, <2>2, FrameStepMaps DEF Waiting
<1>3. CASE Finish(c)
  BY <1>3, FrameStepMaps DEF Waiting, Finish
<1>4. CASE Deactivate(c)
  BY <1>4, Unseen DEF Deactivate, Life, Observed, Outcome, AwaitedBy, Current
<1>. QED BY <1>0, <1>1, <1>2, <1>3, <1>4

LEMMA WakeMaps ==
  ASSUME IInv, Causes, SingleRunner', NEW c \in Coro, Wake(c) \/ InvokeNext(c)
  PROVE  UNCHANGED Contract!contractVars
<1>1. CASE Wake(c)
  <2>1. PICK r \in toResume[c] : ResumeOnce(r, onMain[c])
    BY <1>1 DEF Wake
  <2>2. r \in Reg /\ onMain[c] \in BOOLEAN
    BY <2>1 DEF IInv, TypeOK
  <2>. QED BY <1>1, <2>1, <2>2, ResumeOnceMaps DEF Wake
<1>2. CASE InvokeNext(c)
  <2>1. PICK r \in toInvoke[c] : InvokeOnce(r, FALSE)
    BY <1>2 DEF InvokeNext
  <2>2. r \in Reg /\ UNCHANGED <<awaitVars, cancelled, completed, result>>
    BY <1>2, <2>1 DEF IInv, TypeOK, InvokeNext
  <2>3. UNCHANGED body \/ ResumeOnce(r, FALSE)
    BY <2>1 DEF InvokeOnce
  <2>. QED BY <2>2, <2>3, ResumeOnceMaps, ResumeMaps
<1>. QED BY <1>1, <1>2

LEMMA ExecutorStepMaps ==
  ASSUME IInv, Causes, SingleRunner', NEW r \in Reg,
         PostMain(r) \/ PostSchedule(r) \/ PoolStep(r) \/ RunMain(r) \/ RunJob(r)
  PROVE  UNCHANGED Contract!contractVars
<1>1. UNCHANGED <<awaitVars, taskVars>>
  BY DEF PostMain, PostSchedule, PoolStep, RunPosted, RunWork, RunMain, RunJob
<1>2. CASE PostMain(r)
  BY <1>1, <1>2, ResumeMaps DEF PostMain
<1>3. CASE PostSchedule(r)
  <2>1. r[1] \in Coro /\ r \in posting /\ kind[r] = "schedule" /\ SuspendedAt(r)
    BY <1>3, RegFields DEF PostSchedule, IInv, PostingIsPrivate
  <2>2. Current(r[1]) = r /\ body[r[1]] = "suspended"
    BY <2>1, RegFields DEF SuspendedAt, Current
  <2>3. UNCHANGED body \/ body' = [body EXCEPT ![r[1]] = "unwinding"]
    BY <1>3, <2>1 DEF PostSchedule, SuspendedAt
  <2>4. CASE UNCHANGED body
    BY <1>1, <2>4, ResumeMaps
  <2>5. CASE body' = [body EXCEPT ![r[1]] = "unwinding"]
    BY <1>1, <2>1, <2>2, <2>5, FrameStepMaps DEF Waiting
  <2>. QED BY <2>3, <2>4, <2>5
<1>4. CASE RunPosted(r)
  BY <1>1, <1>4, ResumeMaps DEF RunPosted
<1>5. CASE RunWork(r) \/ RunMain(r) \/ RunJob(r)
  BY <1>1, <1>5, ResumeOnceMaps DEF RunWork, RunMain, RunJob
<1>. QED BY <1>2, <1>3, <1>4, <1>5 DEF PoolStep

LEMMA InitMaps == Init => Contract!Init
  BY DEF Init, Contract!Init, AwaitedBy

LEMMA NextMaps ==
  IInv /\ Causes /\ SingleRunner' /\ [Next]_vars => [Contract!Next]_(Contract!contractVars)
<1>. SUFFICES ASSUME IInv, Causes, SingleRunner', [Next]_vars
              PROVE  Contract!Next \/ UNCHANGED Contract!contractVars
  OBVIOUS
<1>1. ASSUME NEW c \in Coro, Create(c) \/ Cancel(c) \/ Complete(c) \/ AwaitResume(c)
      PROVE  Contract!Next \/ UNCHANGED Contract!contractVars
  BY <1>1, CreateMaps, CancelMaps, CompleteMaps, AwaitResumeMaps DEF Contract!Next
<1>2. ASSUME NEW c \in Coro, NEW t \in Coro, AwaitTask(c, t)
      PROVE  Contract!Next \/ UNCHANGED Contract!contractVars
  <2>1. UNCHANGED Contract!contractVars \/ (Contract!Await(c, t) /\ <<c, t>> \in Awaits)
    BY <1>2, AwaitTaskMaps
  <2>. QED BY <2>1 DEF Contract!Next
<1>3. ASSUME NEW c \in Coro, CoroStep(c) \/ InvokeNext(c),
             ~ Complete(c), ~ AwaitResume(c), ~ \E t \in Coro : AwaitTask(c, t)
      PROVE  UNCHANGED Contract!contractVars
  BY <1>3, QuietAwaitMaps, InnerStepMaps, WakeMaps DEF CoroStep
<1>4. ASSUME NEW r \in Reg,
             PostMain(r) \/ PostSchedule(r) \/ PoolStep(r) \/ RunMain(r) \/ RunJob(r)
      PROVE  UNCHANGED Contract!contractVars
  BY <1>4, ExecutorStepMaps
<1>5. CASE StopOffload \/ StopPool \/ Quiescent \/ UNCHANGED vars
  <2>1. UNCHANGED <<body, awaitVars, taskVars>>
    BY <1>5 DEF StopOffload, StopPool, Quiescent, vars
  <2>. QED BY <2>1, Unseen DEF Life, Observed, Outcome, AwaitedBy, Current
<1>. QED BY <1>1, <1>2, <1>3, <1>4, <1>5 DEF Next

\* Coroutines keep the contract of coroutine<T>: one stable outcome per handle, and no
\* await is passed before the child settled or the awaiter was cancelled.
THEOREM ContractKept == Spec => ImplementsContract
<1>1. IInv => SingleRunner
  BY DEF IInv
<1>. QED BY <1>1, InitMaps, NextMaps, Invariance, CausesHold, PTL
         DEF Spec, ImplementsContract, Contract!Spec

-----------------------------------------------------------------------------
(* No wake-up is lost.                                                     *)

Linked == {"linking", "invoking", "arming"}

\* WakeUps, for one coroutine d whose current registration is s.
Owed(d, s) ==
  /\ body[d] = "suspended" /\ s \notin posted => phase[s] = 1 /\ Awaited(s)
  /\ body[d] \in Linked /\ phase[s] = 0 /\ kind[s] \in {"task", "delay"} => Awaited(s)
  /\ body[d] \in {"arming", "suspended"} /\ kind[s] # "offload" =>
       /\ ~ cancelled[d] => s \in callbacks[d] /\ s \in active
       /\ cancelled[d] => phase[s] = 2 \/ (s \in toInvoke[d] /\ s \in active)

LEMMA OwedNow ==
  ASSUME WakeUps, NEW d \in Coro, NEW s, s = Current(d)
  PROVE  Owed(d, s)
  BY DEF WakeUps, NoWakeUpIsLost, AssembledIsAwaited, CallbackIsLinked, Owed, Linked

LEMMA OwedNext ==
  ASSUME WalksAreOwn', \A d \in Coro : \A s : s = <<d, at'[d]>> => Owed(d, s)'
  PROVE  WakeUps'
<1>1. ASSUME NEW d \in Coro PROVE Owed(d, Current(d))'
  BY DEF Current
<1>2. NoWakeUpIsLost'
  BY <1>1 DEF NoWakeUpIsLost, Owed
<1>3. AssembledIsAwaited' /\ CallbackIsLinked'
  BY <1>1 DEF AssembledIsAwaited, CallbackIsLinked, Owed, Linked
<1>. QED BY <1>2, <1>3 DEF WakeUps

\* What a step that is not about d or s leaves.
LEMMA OwedStays ==
  ASSUME NEW d \in Coro, NEW s, Owed(d, s),
         body'[d] = body[d], kind'[s] = kind[s], phase'[s] = phase[s], cancelled'[d] = cancelled[d],
         s \in posted => s \in posted', Awaited(s) => Awaited(s)',
         s \in callbacks[d] => s \in callbacks'[d], s \in toInvoke[d] => s \in toInvoke'[d],
         s \in active => s \in active'
  PROVE  Owed(d, s)'
  BY DEF Owed

\* Who is awaited stays so until it is taken from its list or queue.
LEMMA AwaitedStays ==
  ASSUME NEW s, Awaited(s),
         s \in posting \cup work \cup mainQueue \cup jobs
           => s \in posting' \cup work' \cup mainQueue' \cup jobs',
         \A t \in Coro : s \in conts[t] /\ ~ completed[t] =>
           (s \in conts'[t] /\ ~ completed'[t]) \/ (s \in toResume'[t] /\ body'[t] = "waking"),
         \A t \in Coro : s \in toResume[t] /\ body[t] = "waking" =>
           s \in toResume'[t] /\ body'[t] = "waking"
  PROVE  Awaited(s)'
  BY DEF Awaited

\* A frame that goes on from a state in which it awaits nothing, or is resumed.
LEMMA FrameMoves ==
  ASSUME IInv, WakeUps, NEW c \in Coro, NEW b, body' = [body EXCEPT ![c] = b],
         b \notin Linked \cup {"suspended"},
         body[c] = "waking" => toResume[c] = {},
         posting \ {Current(c)} \subseteq posting', posted \ {Current(c)} \subseteq posted',
         work \subseteq work',
         UNCHANGED <<awaitVars, phase, active, cancelled, completed, conts, callbacks, walkVars,
                     mainQueue, jobs>>
  PROVE  WakeUps'
<1>1. WalksAreOwn'
  BY DEF WakeUps, WalksAreOwn
<1>2. \A d \in Coro : body'[d] = IF d = c THEN b ELSE body[d]
  BY DEF IInv, TypeOK
<1>3. ASSUME NEW d \in Coro, NEW s, s = <<d, at'[d]>> PROVE Owed(d, s)'
  <2>1. CASE d = c
    BY <1>2, <2>1 DEF Owed, Linked
  <2>2. CASE d # c
    <3>1. Owed(d, s) /\ s # Current(c)
      BY <1>3, <2>2, OwedNow DEF Current
    <3>2. ASSUME Awaited(s) PROVE Awaited(s)'
      <4>1. \A t \in Coro : s \in toResume[t] /\ body[t] = "waking" => body'[t] = "waking"
        BY <1>2
      <4>. QED BY <3>1, <3>2, <4>1, AwaitedStays
    <3>. QED BY <1>2, <2>2, <3>1, <3>2, OwedStays
  <2>. QED BY <2>1, <2>2
<1>. QED BY <1>1, <1>3, OwedNext

LEMMA FrameSteps ==
  ASSUME IInv, WakeUps, NEW c \in Coro,
         Create(c) \/ AwaitResume(c) \/ Return(c) \/ Finish(c)
  PROVE  WakeUps'
<1>1. CASE Create(c)
  BY <1>1, FrameMoves DEF Create, Linked
<1>2. CASE AwaitResume(c)
  <2>1. PICK b \in {"running", "unwinding"} : body' = [body EXCEPT ![c] = b]
    BY <1>2 DEF AwaitResume
  <2>. QED BY <1>2, <2>1, FrameMoves DEF AwaitResume, Linked
<1>3. CASE Return(c)
  BY <1>3, FrameMoves DEF Return, Linked
<1>4. CASE Finish(c)
  BY <1>4, FrameMoves DEF Finish, Linked
<1>. QED BY <1>1, <1>2, <1>3, <1>4

LEMMA RunPostedWakes == ASSUME IInv, WakeUps, NEW r \in Reg, RunPosted(r) PROVE WakeUps'
<1>1. SuspendedAt(r) /\ r[1] \in Coro
  BY RegFields DEF IInv, PostedIsSuspended, RunPosted
<1>2. body' = [body EXCEPT ![r[1]] = "resuming"] /\ posted' = posted \ {r}
  BY <1>1 DEF RunPosted, Resume, SuspendedAt
<1>3. Current(r[1]) = r
  BY <1>1, RegFields DEF SuspendedAt, Current
<1>. QED BY <1>1, <1>2, <1>3, FrameMoves DEF RunPosted, SuspendedAt, Linked

LEMMA PostScheduleWakes == ASSUME IInv, WakeUps, NEW r \in Reg, PostSchedule(r) PROVE WakeUps'
<1>1. /\ SuspendedAt(r) /\ r[1] \in Coro /\ phase[r] = 1 /\ Current(r[1]) = r
      /\ r \notin posted
  <2>1. SuspendedAt(r) /\ r[1] \in Coro /\ phase[r] = 1
    BY RegFields DEF IInv, PostingIsPrivate, PostSchedule
  <2>2. r \notin posted
    BY <2>1 DEF IInv, PostedIsSuspended
  <2>. QED BY <2>1, <2>2, RegFields DEF SuspendedAt, Current
<1>2. CASE poolStopped
  <2>1. body' = [body EXCEPT ![r[1]] = "unwinding"] /\ posting' = posting \ {r} /\ work' = work
    BY <1>1, <1>2 DEF PostSchedule, SuspendedAt
  <2>. QED BY <1>1, <2>1, FrameMoves DEF PostSchedule, SuspendedAt, Linked
<1>3. CASE ~ poolStopped
  <2>1. posting' = posting \ {r} /\ work' = work \cup {r} /\ body' = body
    BY <1>3 DEF PostSchedule
  <2>2. \A s : Awaited(s) => Awaited(s)'
    BY <2>1, AwaitedStays DEF PostSchedule
  <2>3. \A d \in Coro : \A s : s = <<d, at'[d]>> => Owed(d, s)'
    BY <2>1, <2>2, OwedNow, OwedStays DEF PostSchedule, Current
  <2>. QED BY <2>3, OwedNext DEF PostSchedule, WakeUps, WalksAreOwn
<1>. QED BY <1>2, <1>3

LEMMA PostMainWakes == ASSUME IInv, WakeUps, NEW r \in Reg, PostMain(r) PROVE WakeUps'
<1>1. \A s : Awaited(s) => Awaited(s)'
  BY AwaitedStays DEF PostMain
<1>2. \A d \in Coro : \A s : s = <<d, at'[d]>> => Owed(d, s)'
  BY <1>1, OwedNow, OwedStays DEF PostMain, Current
<1>. QED BY <1>2, OwedNext DEF PostMain, WakeUps, WalksAreOwn

LEMMA StopWakes == ASSUME WakeUps, StopOffload \/ StopPool \/ UNCHANGED vars PROVE WakeUps'
  BY DEF StopOffload, StopPool, vars, WakeUps, NoWakeUpIsLost, AssembledIsAwaited, CallbackIsLinked,
         WalksAreOwn, Awaited, Current

\* A registration is claimed: if its frame is suspended, it is resumed or queued to be.
LEMMA ResumeOnceWakes ==
  ASSUME IInv, WakeUps, NEW r \in Reg, NEW m \in BOOLEAN, ResumeOnce(r, m), ~ Refused(r),
         posting \cup work \cup mainQueue \cup jobs
           \subseteq posting' \cup work' \cup mainQueue' \cup jobs' \cup {r},
         active \subseteq active' \cup {r}, active' = active \/ cancelled[r[1]],
         \A t \in Coro : /\ toResume[t] \subseteq toResume'[t] \cup {r}
                         /\ toInvoke[t] \subseteq toInvoke'[t] \cup {r},
         UNCHANGED <<awaitVars, taskVars, toDeactivate>>
  PROVE  WakeUps'
<1>. USE DEF IInv
<1>1. phase' = [phase EXCEPT ![r] = 2] /\ \A s : s # r => phase'[s] = phase[s]
  BY DEF ResumeOnce, Claim, TypeOK
<1>2. phase'[r] = 2
  BY <1>1 DEF TypeOK
<1>3. \/ UNCHANGED <<body, posted>> /\ phase[r] # 1
      \/ SuspendedAt(r) /\ body' = [body EXCEPT ![r[1]] = "resuming"] /\ UNCHANGED posted
      \/ UNCHANGED body /\ posted' = posted \cup {r}
  <2>1. CASE Armed(r) /\ InPlace(r) /\ Resume(r, m) /\ UNCHANGED posted
    <3>1. SuspendedAt(r)
      BY <2>1 DEF ArmedIsSuspended, Armed
    <3>. QED BY <2>1, <3>1 DEF Resume, SuspendedAt
  <2>. QED BY <2>1 DEF ResumeOnce, Armed
<1>4. \A d \in Coro : body'[d] # body[d] =>
        d = r[1] /\ body'[d] = "resuming" /\ body[d] = "suspended" /\ at[d] = r[2]
  BY <1>3 DEF TypeOK, SuspendedAt
<1>5. \A s : s # r /\ Awaited(s) => Awaited(s)'
  <2>. SUFFICES ASSUME NEW s, s # r, Awaited(s) PROVE Awaited(s)'
    OBVIOUS
  <2>1. \A t \in Coro : body[t] = "waking" => body'[t] = "waking"
    BY <1>4
  <2>. QED BY <2>1, AwaitedStays
<1>6. ASSUME NEW d \in Coro, NEW s, s = <<d, at'[d]>> PROVE Owed(d, s)'
  <2>1. Owed(d, s)
    BY <1>6, OwedNow DEF Current
  <2>2. CASE s # r
    <3>1. body'[d] = body[d]
      BY <1>4, <1>6, <2>2, RegFields
    <3>. QED BY <1>1, <1>3, <1>5, <2>1, <2>2, <3>1, OwedStays
  <2>3. CASE s = r
    <3>1. d = r[1]
      BY <1>6, <2>3
    <3>2. CASE body'[d] # body[d]
      BY <1>4, <3>2 DEF Owed, Linked
    <3>3. CASE body'[d] = body[d]
      <4>1. body[d] = "suspended" => r \in posted'
        <5>1. ASSUME body[d] = "suspended", phase[r] # 1 PROVE r \in posted
          BY <2>1, <2>3, <5>1 DEF Owed
        <5>2. ~ (SuspendedAt(r) /\ body' = [body EXCEPT ![r[1]] = "resuming"])
          BY <3>1, <3>3 DEF SuspendedAt, TypeOK
        <5>. QED BY <1>3, <5>1, <5>2
      <4>2. ~ cancelled[d] => active' = active
        BY <3>1
      <4>. QED BY <1>2, <2>1, <2>3, <3>3, <4>1, <4>2 DEF Owed
    <3>. QED BY <3>2, <3>3
  <2>. QED BY <2>2, <2>3
<1>. QED BY <1>6, OwedNext DEF WakeUps, WalksAreOwn

LEMMA CompletionWakes == ASSUME IInv, WakeUps, NEW c \in Coro, Wake(c) PROVE WakeUps'
<1>. USE DEF IInv
<1>1. PICK r \in toResume[c] :
        toResume' = [toResume EXCEPT ![c] = @ \ {r}] /\ ResumeOnce(r, onMain[c])
  BY DEF Wake
<1>2. r \in Reg /\ onMain[c] \in BOOLEAN /\ ~ Refused(r)
  BY <1>1 DEF TypeOK, QueuesByKind, Refused
<1>3. \A t \in Coro : toResume[t] \subseteq toResume'[t] \cup {r}
  BY <1>1 DEF TypeOK
<1>. QED BY <1>1, <1>2, <1>3, ResumeOnceWakes DEF Wake

LEMMA InvokeNextWakes == ASSUME IInv, Causes, WakeUps, NEW c \in Coro, InvokeNext(c) PROVE WakeUps'
<1>. USE DEF IInv
<1>1. PICK r \in toInvoke[c] :
        toInvoke' = [toInvoke EXCEPT ![c] = @ \ {r}] /\ InvokeOnce(r, FALSE)
  BY DEF InvokeNext
<1>2. r \in Reg /\ r[1] = c /\ cancelled[c] /\ ~ Refused(r)
  BY <1>1 DEF TypeOK, QueuesByKind, Causes, WalksAreAsked, Refused
<1>3. \A t \in Coro : toInvoke[t] \subseteq toInvoke'[t] \cup {r}
  BY <1>1 DEF TypeOK
<1>4. CASE r \in active
  <2>1. active' = active \ {r} /\ work \subseteq work' \cup {r} /\ ResumeOnce(r, FALSE)
    BY <1>1, <1>4 DEF InvokeOnce
  <2>. QED BY <1>2, <1>3, <2>1, ResumeOnceWakes DEF InvokeNext
<1>5. CASE r \notin active
  <2>1. UNCHANGED <<active, work, phase, body, onMain, posted>>
    BY <1>1, <1>5 DEF InvokeOnce
  <2>2. ASSUME NEW d \in Coro, NEW s, s = <<d, at'[d]>> PROVE Owed(d, s)'
    <3>1. Owed(d, s)
      BY <2>2, OwedNow DEF InvokeNext, Current
    <3>2. Awaited(s) => Awaited(s)'
      BY <2>1, AwaitedStays DEF InvokeNext
    <3>. QED BY <1>3, <1>5, <2>1, <3>1, <3>2 DEF Owed, InvokeNext
  <2>. QED BY <2>2, OwedNext DEF WakeUps, WalksAreOwn, InvokeNext
<1>. QED BY <1>4, <1>5

LEMMA RunWakes ==
  ASSUME IInv, WakeUps, NEW r \in Reg, RunWork(r) \/ RunMain(r) \/ RunJob(r)
  PROVE  WakeUps'
<1>. USE DEF IInv
<1>1. CASE RunWork(r)
  <2>1. ~ Refused(r)
    BY <1>1 DEF RunWork, Refused
  <2>. QED BY <1>1, <2>1, ResumeOnceWakes DEF RunWork
<1>2. CASE RunMain(r)
  <2>1. ~ Refused(r)
    BY <1>2 DEF RunMain, Refused, QueuesByKind
  <2>. QED BY <1>2, <2>1, ResumeOnceWakes DEF RunMain
<1>3. CASE RunJob(r)
  <2>1. ~ Refused(r)
    BY <1>3 DEF RunJob, Refused, QueuesByKind
  <2>. QED BY <1>3, <2>1, ResumeOnceWakes DEF RunJob
<1>. QED BY <1>1, <1>2, <1>3

\* An await begins: what is to end it has been told before the frame can suspend.
LEMMA BeginAwaitWakes ==
  ASSUME IInv, WakeUps, NEW c \in Coro, NEW k \in Awaiters, NEW t, BeginAwait(c, k, t),
         NEW r, r = Upcoming(c),
         NEW b \in {"running", "adding", "linking", "unwinding", "suspended"},
         body' = [body EXCEPT ![c] = b],
         phase' = [phase EXCEPT ![r] = IF b = "suspended" THEN 1 ELSE 0],
         b = "suspended" => k = "offload" /\ r \in jobs',
         b = "linking" /\ k \in {"task", "delay"} => Awaited(r)',
         work \subseteq work', jobs \subseteq jobs',
         UNCHANGED <<active, cancelled, completed, conts, callbacks, walkVars, posting, posted, mainQueue>>
  PROVE  WakeUps'
<1>. USE DEF IInv
<1>1. /\ r \in Reg /\ r[1] = c /\ r[2] = at'[c]
      /\ kind' = [kind EXCEPT ![r] = k] /\ at' = [at EXCEPT ![c] = @ + 1]
  BY FreshRegistration
<1>2. \A s : s # r => kind'[s] = kind[s] /\ phase'[s] = phase[s]
  BY <1>1 DEF TypeOK
<1>3. kind'[r] = k /\ phase'[r] = IF b = "suspended" THEN 1 ELSE 0
  BY <1>1 DEF TypeOK
<1>4. \A d \in Coro : body'[d] = (IF d = c THEN b ELSE body[d]) /\ (d # c => at'[d] = at[d])
  BY <1>1 DEF TypeOK
<1>5. body[c] = "running"
  BY DEF BeginAwait
<1>6. ASSUME NEW s, Awaited(s) PROVE Awaited(s)'
  <2>1. \A d \in Coro : body[d] = "waking" => body'[d] = "waking"
    BY <1>4, <1>5
  <2>. QED BY <1>6, <2>1, AwaitedStays
<1>7. ASSUME NEW d \in Coro, NEW s, s = <<d, at'[d]>> PROVE Owed(d, s)'
  <2>1. CASE d # c
    <3>1. s # r /\ Owed(d, s)
      BY <1>1, <1>4, <1>7, <2>1, OwedNow DEF Current
    <3>. QED BY <1>2, <1>4, <1>6, <2>1, <3>1, OwedStays
  <2>2. CASE d = c
    <3>1. s = r
      BY <1>1, <1>7, <2>2, RegFields
    <3>2. b = "suspended" => Awaited(r)'
      BY DEF Awaited
    <3>. QED BY <1>3, <1>4, <2>2, <3>1, <3>2 DEF Owed, Linked
  <2>. QED BY <2>1, <2>2
<1>. QED BY <1>7, OwedNext DEF WakeUps, WalksAreOwn

LEMMA AwaitDelayWakes == ASSUME IInv, WakeUps, NEW c \in Coro, AwaitDelay(c) PROVE WakeUps'
<1>. USE DEF AwaitDelay
<1>1. PICK r : r = Upcoming(c)
  OBVIOUS
<1>2. BeginAwait(c, "delay", NoCoro) /\ "delay" \in Awaiters
  BY DEF Awaiters
<1>3. phase' = [phase EXCEPT ![r] = 0]
  BY <1>1, <1>2, FreshRegistration DEF IInv, TypeOK
<1>4. PICK b \in {"running", "unwinding", "linking"} :
        /\ body' = [body EXCEPT ![c] = b] /\ work \subseteq work'
        /\ b = "linking" => r \in work'
  BY <1>1, <1>2 DEF Upcoming, BeginAwait, IInv, TypeOK
<1>5. b = "linking" => Awaited(r)'
  BY <1>4 DEF Awaited
<1>. QED BY <1>1, <1>2, <1>3, <1>4, <1>5, BeginAwaitWakes

LEMMA AwaitTaskWakes ==
  ASSUME IInv, WakeUps, NEW c \in Coro, NEW t \in Coro, AwaitTask(c, t)
  PROVE  WakeUps'
<1>. USE DEF AwaitTask
<1>1. PICK r : r = Upcoming(c)
  OBVIOUS
<1>2. BeginAwait(c, "task", t) /\ "task" \in Awaiters
  BY DEF Awaiters
<1>3. phase' = [phase EXCEPT ![r] = 0]
  BY <1>1, <1>2, FreshRegistration DEF IInv, TypeOK
<1>4. PICK b \in {"running", "adding", "unwinding"} : body' = [body EXCEPT ![c] = b]
  OBVIOUS
<1>. QED BY <1>1, <1>2, <1>3, <1>4, BeginAwaitWakes

\* Behind the child's critical section, either it will find the awaiter or the awaiter
\* found it completed.
LEMMA AddContinuationWakes ==
  ASSUME IInv, Causes, WakeUps, NEW c \in Coro, AddContinuation(c)
  PROVE  WakeUps'
<1>. USE DEF IInv, AddContinuation
<1>1. PICK r, t : r = Current(c) /\ t = child[r]
  OBVIOUS
<1>2. CASE completed[t]
  <2>1. body' = [body EXCEPT ![c] = "resuming"] /\ body[c] = "adding" /\ UNCHANGED conts
    BY <1>1, <1>2
  <2>. QED BY <2>1, FrameMoves DEF Linked
<1>3. CASE ~ completed[t]
  <2>1. /\ body' = [body EXCEPT ![c] = "linking"] /\ body[c] = "adding"
        /\ conts' = [conts EXCEPT ![t] = @ \cup {r}]
    BY <1>1, <1>3
  <2>2. \A d \in Coro : body'[d] = (IF d = c THEN "linking" ELSE body[d]) /\ conts[d] \subseteq conts'[d]
    BY <2>1 DEF TypeOK
  <2>3. ASSUME NEW s, Awaited(s) PROVE Awaited(s)'
    <3>1. \A d \in Coro : body[d] = "waking" => body'[d] = "waking"
      BY <2>1, <2>2
    <3>. QED BY <2>2, <2>3, <3>1, AwaitedStays
  <2>4. ASSUME NEW d \in Coro, NEW s, s = <<d, at'[d]>> PROVE Owed(d, s)'
    <3>1. CASE d # c
      BY <2>2, <2>3, <2>4, <3>1, OwedNow, OwedStays DEF Current
    <3>2. CASE d = c
      <4>1. s = r
        BY <1>1, <2>4, <3>2 DEF Current
      <4>2. kind[r] = "task" /\ r \in Reg
        BY <1>1, <2>1, CurrentReg DEF FrameAndHandle
      <4>3. t \in Coro /\ r \in conts'[t] /\ ~ completed'[t]
        BY <1>1, <1>3, <2>1, <4>2, ChildFact DEF TypeOK
      <4>4. Awaited(r)'
        BY <4>3 DEF Awaited
      <4>. QED BY <2>2, <3>2, <4>1, <4>4 DEF Owed, Linked
    <3>. QED BY <3>1, <3>2
  <2>. QED BY <2>4, OwedNext DEF WakeUps, WalksAreOwn
<1>. QED BY <1>2, <1>3

LEMMA QuietAwaitWakes ==
  ASSUME IInv, WakeUps, NEW c \in Coro, AwaitSchedule(c) \/ AwaitMain(c)
  PROVE  WakeUps'
<1>1. PICK r : r = Upcoming(c)
  OBVIOUS
<1>2. PICK k \in {"schedule", "main"}, b \in {"running", "linking"} :
        BeginAwait(c, k, NoCoro) /\ body' = [body EXCEPT ![c] = b]
  BY DEF AwaitSchedule, AwaitMain
<1>3. k \in Awaiters
  BY DEF Awaiters
<1>4. phase' = [phase EXCEPT ![r] = 0]
  BY <1>1, <1>2, <1>3, FreshRegistration DEF IInv, TypeOK, AwaitSchedule, AwaitMain
<1>. QED BY <1>1, <1>2, <1>3, <1>4, BeginAwaitWakes DEF AwaitSchedule, AwaitMain

LEMMA AwaitOffloadWakes == ASSUME IInv, WakeUps, NEW c \in Coro, AwaitOffload(c) PROVE WakeUps'
<1>1. PICK r : r = Upcoming(c)
  OBVIOUS
<1>2. BeginAwait(c, "offload", NoCoro) /\ "offload" \in Awaiters /\ r = <<c, 1>>
  BY <1>1 DEF AwaitOffload, Awaiters, Upcoming
<1>3. r \in Reg /\ phase[r] = 0
  BY <1>1, <1>2, FreshRegistration
<1>4. PICK b \in {"suspended", "unwinding"} :
        /\ body' = [body EXCEPT ![c] = b] /\ jobs \subseteq jobs'
        /\ phase' = [phase EXCEPT ![r] = IF b = "suspended" THEN 1 ELSE 0]
        /\ b = "suspended" => r \in jobs'
  BY <1>2, <1>3 DEF AwaitOffload, IInv, TypeOK
<1>. QED BY <1>1, <1>2, <1>4, BeginAwaitWakes DEF AwaitOffload

LEMMA LinkWakes == ASSUME IInv, WakeUps, NEW c \in Coro, Link(c) PROVE WakeUps'
<1>. USE DEF IInv, Link
<1>1. PICK r, b : r = Current(c) /\ b = IF cancelled[c] THEN "invoking" ELSE "arming"
  OBVIOUS
<1>2. body' = [body EXCEPT ![c] = b] /\ body[c] = "linking"
  BY <1>1 DEF InvokesImmediately
<1>3. \A d \in Coro : body'[d] = IF d = c THEN b ELSE body[d]
  BY <1>2 DEF TypeOK
<1>4. active' = active \cup {r} /\ r \in callbacks'[c] /\ \A d \in Coro : callbacks[d] \subseteq callbacks'[d]
  BY <1>1 DEF TypeOK
<1>5. ASSUME NEW s, Awaited(s) PROVE Awaited(s)'
  <2>1. \A d \in Coro : body[d] = "waking" => body'[d] = "waking"
    BY <1>2, <1>3
  <2>. QED BY <1>5, <2>1, AwaitedStays
<1>6. ASSUME NEW d \in Coro, NEW s, s = <<d, at'[d]>> PROVE Owed(d, s)'
  <2>1. Owed(d, s)
    BY <1>6, OwedNow DEF Current
  <2>2. CASE d # c
    BY <1>3, <1>4, <1>5, <2>1, <2>2, OwedStays
  <2>3. CASE d = c
    <3>1. s = r
      BY <1>1, <1>6, <2>3 DEF Current
    <3>. QED BY <1>1, <1>2, <1>3, <1>4, <1>5, <2>1, <2>3, <3>1 DEF Owed, Linked
  <2>. QED BY <2>2, <2>3
<1>. QED BY <1>6, OwedNext DEF WakeUps, WalksAreOwn

LEMMA InvokeImmediatelyWakes ==
  ASSUME IInv, Causes, WakeUps, NEW c \in Coro, InvokeImmediately(c)
  PROVE  WakeUps'
<1>. USE DEF IInv, InvokeImmediately
<1>1. PICK r : r = Current(c)
  OBVIOUS
<1>2. r \in Reg /\ r[1] = c /\ r[2] = at[c] /\ cancelled[c] /\ body[c] = "invoking"
  BY <1>1, CurrentReg DEF FrameAndHandle, Causes, WalksAreAsked
<1>3. /\ active' = active \ {r} /\ work \subseteq work' \cup {r}
      /\ phase' = [phase EXCEPT ![r] = 2] /\ body' = [body EXCEPT ![c] = "arming"]
  BY <1>1 DEF Claim
<1>4. /\ phase'[r] = 2 /\ \A s : s # r => phase'[s] = phase[s]
      /\ \A d \in Coro : body'[d] = IF d = c THEN "arming" ELSE body[d]
  BY <1>2, <1>3 DEF TypeOK
<1>5. ASSUME NEW s, s # r, Awaited(s) PROVE Awaited(s)'
  <2>1. \A d \in Coro : body[d] = "waking" => body'[d] = "waking"
    BY <1>2, <1>4
  <2>. QED BY <1>3, <1>5, <2>1, AwaitedStays
<1>6. ASSUME NEW d \in Coro, NEW s, s = <<d, at'[d]>> PROVE Owed(d, s)'
  <2>1. Owed(d, s)
    BY <1>6, OwedNow DEF Current
  <2>2. CASE d # c
    <3>1. s # r
      BY <1>2, <1>6, <2>2
    <3>. QED BY <1>3, <1>4, <1>5, <2>1, <2>2, <3>1, OwedStays
  <2>3. CASE d = c
    <3>1. s = r
      BY <1>1, <1>6, <2>3 DEF Current
    <3>. QED BY <1>2, <1>4, <2>3, <3>1 DEF Owed, Linked
  <2>. QED BY <2>2, <2>3
<1>. QED BY <1>6, OwedNext DEF WakeUps, WalksAreOwn

\* A frame suspends only on a registration that somebody else will claim.
LEMMA ArmWakes == ASSUME IInv, WakeUps, NEW c \in Coro, Arm(c) PROVE WakeUps'
<1>. USE DEF IInv, Arm
<1>1. PICK r : r = Current(c)
  OBVIOUS
<1>2. /\ r \in Reg /\ r[1] = c /\ body[c] = "arming"
      /\ kind[r] \in {"task", "delay", "main", "schedule"}
  BY <1>1, CurrentReg DEF FrameAndHandle
<1>3. CASE phase[r] # 0
  <2>1. body' = [body EXCEPT ![c] = "resuming"] /\ UNCHANGED <<phase, posting>>
    BY <1>1, <1>3 DEF CanArm
  <2>. QED BY <1>2, <2>1, FrameMoves DEF Linked
<1>4. CASE phase[r] = 0
  <2>1. /\ body' = [body EXCEPT ![c] = "suspended"] /\ phase' = [phase EXCEPT ![r] = 1]
        /\ posting' = IF kind[r] \in {"task", "delay"} THEN posting ELSE posting \cup {r}
    BY <1>1, <1>4 DEF CanArm
  <2>2. /\ phase'[r] = 1 /\ \A s : s # r => phase'[s] = phase[s]
        /\ \A d \in Coro : body'[d] = IF d = c THEN "suspended" ELSE body[d]
    BY <1>2, <2>1 DEF TypeOK
  <2>3. ASSUME NEW s, Awaited(s) PROVE Awaited(s)'
    <3>1. \A d \in Coro : body[d] = "waking" => body'[d] = "waking"
      BY <1>2, <2>2
    <3>. QED BY <2>1, <2>3, <3>1, AwaitedStays
  <2>4. ASSUME NEW d \in Coro, NEW s, s = <<d, at'[d]>> PROVE Owed(d, s)'
    <3>1. Owed(d, s)
      BY <2>4, OwedNow DEF Current
    <3>2. CASE d # c
      <4>1. s # r
        BY <1>2, <2>4, <3>2
      <4>. QED BY <2>2, <2>3, <3>1, <3>2, <4>1, OwedStays
    <3>3. CASE d = c
      <4>1. s = r
        BY <1>1, <2>4, <3>3 DEF Current
      <4>2. Awaited(r)'
        <5>1. CASE kind[r] \in {"task", "delay"}
          BY <1>2, <1>4, <2>3, <3>1, <3>3, <4>1, <5>1 DEF Owed, Linked
        <5>2. CASE kind[r] \notin {"task", "delay"}
          BY <2>1, <5>2 DEF Awaited
        <5>. QED BY <5>1, <5>2
      <4>. QED BY <1>2, <1>4, <2>2, <3>1, <3>3, <4>1, <4>2 DEF Owed, Linked
    <3>. QED BY <3>2, <3>3
  <2>. QED BY <2>4, OwedNext DEF WakeUps, WalksAreOwn
<1>. QED BY <1>3, <1>4

LEMMA CompleteWakes == ASSUME IInv, WakeUps, NEW c \in Coro, Complete(c) PROVE WakeUps'
<1>. USE DEF IInv, Complete
<1>1. /\ \A d \in Coro : /\ body'[d] = IF d = c THEN "waking" ELSE body[d]
                         /\ completed'[d] = IF d = c THEN TRUE ELSE completed[d]
                         /\ toResume'[d] = IF d = c THEN conts[c] ELSE toResume[d]
                         /\ conts'[d] = IF d = c THEN {} ELSE conts[d]
                         /\ callbacks'[d] = IF d = c THEN {} ELSE callbacks[d]
                         /\ toDeactivate'[d] = IF d = c THEN callbacks[c] ELSE toDeactivate[d]
  BY DEF TypeOK
<1>2. ASSUME NEW s, Awaited(s) PROVE Awaited(s)'
  <2>1. \A t \in Coro : s \in conts[t] /\ ~ completed[t] =>
          (s \in conts'[t] /\ ~ completed'[t]) \/ (s \in toResume'[t] /\ body'[t] = "waking")
    BY <1>1
  <2>2. \A t \in Coro : s \in toResume[t] /\ body[t] = "waking" =>
          s \in toResume'[t] /\ body'[t] = "waking"
    BY <1>1
  <2>. QED BY <1>2, <2>1, <2>2, AwaitedStays
<1>3. ASSUME NEW d \in Coro, NEW s, s = <<d, at'[d]>> PROVE Owed(d, s)'
  <2>1. Owed(d, s)
    BY <1>3, OwedNow DEF Current
  <2>2. CASE d # c
    BY <1>1, <1>2, <2>1, <2>2, OwedStays
  <2>3. CASE d = c
    BY <1>1, <2>3 DEF Owed, Linked
  <2>. QED BY <2>2, <2>3
<1>4. WalksAreOwn'
  BY <1>1 DEF WakeUps, WalksAreOwn, QueuesByKind
<1>. QED BY <1>3, <1>4, OwedNext

LEMMA DeactivateWakes == ASSUME IInv, WakeUps, NEW c \in Coro, Deactivate(c) PROVE WakeUps'
<1>. USE DEF IInv, Deactivate
<1>1. PICK r \in toDeactivate[c] :
        active' = active \ {r} /\ toDeactivate' = [toDeactivate EXCEPT ![c] = @ \ {r}]
  OBVIOUS
<1>2. r[1] = c
  BY DEF WakeUps, WalksAreOwn
<1>3. \A s : Awaited(s) => Awaited(s)'
  BY AwaitedStays
<1>4. ASSUME NEW d \in Coro, NEW s, s = <<d, at'[d]>> PROVE Owed(d, s)'
  <2>1. Owed(d, s)
    BY <1>4, OwedNow DEF Current
  <2>2. CASE d # c
    <3>1. s # r
      BY <1>2, <1>4, <2>2
    <3>. QED BY <1>1, <1>3, <2>1, <2>2, <3>1, OwedStays
  <2>3. CASE d = c
    BY <2>3 DEF Owed, Linked
  <2>. QED BY <2>2, <2>3
<1>5. WalksAreOwn'
  BY <1>1 DEF WakeUps, WalksAreOwn, TypeOK
<1>. QED BY <1>4, <1>5, OwedNext

LEMMA CancelWakes == ASSUME IInv, WakeUps, NEW c \in Coro, Cancel(c) PROVE WakeUps'
<1>. USE DEF IInv, Cancel
<1>1. \A d \in Coro : /\ cancelled'[d] = IF d = c THEN TRUE ELSE cancelled[d]
                     /\ toInvoke'[d] = IF d = c THEN callbacks[c] ELSE toInvoke[d]
  BY DEF TypeOK
<1>2. \A s : Awaited(s) => Awaited(s)'
  BY AwaitedStays
<1>3. ASSUME NEW d \in Coro, NEW s, s = <<d, at'[d]>> PROVE Owed(d, s)'
  <2>1. Owed(d, s)
    BY <1>3, OwedNow DEF Current
  <2>2. CASE d # c
    BY <1>1, <1>2, <2>1, <2>2, OwedStays
  <2>3. CASE d = c
    BY <1>1, <1>2, <2>1, <2>3 DEF Owed, Linked, Cancellable
  <2>. QED BY <2>2, <2>3
<1>. QED BY <1>3, OwedNext DEF WakeUps, WalksAreOwn

LEMMA InitWakes == Init => WakeUps
  BY DEF Init, WakeUps, NoWakeUpIsLost, AssembledIsAwaited, CallbackIsLinked, WalksAreOwn

LEMMA NextWakes == IInv /\ Causes /\ WakeUps /\ [Next]_vars => WakeUps'
<1>. SUFFICES ASSUME IInv, Causes, WakeUps, [Next]_vars PROVE WakeUps'
  OBVIOUS
<1>1. ASSUME NEW c \in Coro, CoroStep(c) PROVE WakeUps'
  BY <1>1, AwaitDelayWakes, QuietAwaitWakes, AwaitOffloadWakes, AwaitTaskWakes,
     AddContinuationWakes, LinkWakes, InvokeImmediatelyWakes, ArmWakes, FrameSteps, CompleteWakes, DeactivateWakes, CompletionWakes
     DEF CoroStep
<1>2. ASSUME NEW c \in Coro, Create(c) \/ Cancel(c) \/ InvokeNext(c) PROVE WakeUps'
  BY <1>2, FrameSteps, CancelWakes, InvokeNextWakes
<1>3. ASSUME NEW r \in Reg, PostMain(r) \/ PostSchedule(r) \/ PoolStep(r) \/ RunMain(r) \/ RunJob(r)
      PROVE  WakeUps'
  BY <1>3, PostMainWakes, PostScheduleWakes, RunPostedWakes, RunWakes DEF PoolStep
<1>4. CASE StopOffload \/ StopPool \/ Quiescent \/ UNCHANGED vars
  BY <1>4, StopWakes DEF Quiescent
<1>. QED BY <1>1, <1>2, <1>3, <1>4 DEF Next

LEMMA WakeUpsHold == Spec => []WakeUps
  BY Invariance, CausesHold, InitWakes, NextWakes, PTL DEF Spec

\* No wake-up is lost: whoever is suspended is about to be resumed, or is armed and still
\* awaited by an executor or an uncompleted child, and once it has been cancelled the walk
\* of Cancel has still to come to it (Arm, ResumeOnce, Complete, Cancel).
THEOREM EveryFrameIsAwaited == Spec => []NoWakeUpIsLost
<1>1. WakeUps => NoWakeUpIsLost
  BY DEF WakeUps
<1>. QED BY <1>1, WakeUpsHold, PTL
===============================================================================
