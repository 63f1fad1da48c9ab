---------------------------- MODULE DnsJobProofs ----------------------------
(***************************************************************************)
(* Proofs about DnsJob, for any number of threads, addresses and hosts and *)
(* any deadline: types, the ownership of jobs, and whose answer a call     *)
(* returns.                                                                *)
(***************************************************************************)
EXTENDS DnsJob, TLAPS

\* The thread t has not yet published the answer to the job at a.
Working(t, a) == worker[t].job = a /\ worker[t].pc \in {"resolve", "lock", "publish"}

\* The thread t has published it and found it abandoned.
Leaving(t, a) == worker[t].job = a /\ worker[t].pc = "leave" /\ worker[t].abandoned

Allocated(a) == a \in Address /\ Live(a)

\* What holds of the job a thread works on.
WorkingInv == \A t \in Thread : worker[t].pc \in {"resolve", "lock", "publish"} =>
                LET a == worker[t].job IN
                  /\ Allocated(a) /\ heap[a].made_for = t /\ ~heap[a].done
                  /\ worker[t].pc # "resolve" /\ worker[t].ok
                       => heap[a].ip = heap[a].host

\* What holds of the job a thread is about to free.
LeavingInv == \A t \in Thread : worker[t].pc = "leave" /\ worker[t].abandoned =>
                LET a == worker[t].job IN
                  /\ Allocated(a) /\ heap[a].made_for = t
                  /\ heap[a].done /\ heap[a].abandoned
                  /\ ~CallerFrees(a)

\* What holds of the job the caller has.
CallerInv == /\ pc = "idle" => host = Nobody /\ job = Nobody
             /\ pc # "idle" => /\ Allocated(job) /\ host = heap[job].host
                               /\ heap[job].abandoned <=> pc = "drop"
                               /\ pc \in {"release", "drop"} => heap[job].done
             /\ got.ok => pc = "release" /\ got.ip = host

\* What holds of every job.
JobOK(a) == /\ ~heap[a].done => Working(heap[a].made_for, a)
            /\ heap[a].done /\ heap[a].ok => heap[a].ip = heap[a].host
            /\ ~CallerFrees(a) => /\ heap[a].abandoned
                                  /\ \/ Working(heap[a].made_for, a)
                                     \/ Leaving(heap[a].made_for, a)

JobInv == \A a \in Address : Live(a) => JobOK(a)

MutexInv == \A a \in Address : Live(a) =>
              /\ heap[a].mu = "caller" <=> pc \in {"poll", "abandon"} /\ job = a
              /\ \A t \in Thread :
                   heap[a].mu = t <=> worker[t].pc = "publish" /\ worker[t].job = a

IInv == TypeOK /\ WorkingInv /\ LeavingInv /\ CallerInv /\ JobInv /\ MutexInv

USE DEF Gone, Live, Allocated

\* The locals of a caller without an answer.
LEMMA NoAnswerType == NoAnswer \in [ok : BOOLEAN, ip : Host \cup {Nobody}] /\ ~NoAnswer.ok
  BY DEF NoAnswer

\* What calloc and memcpy make is a job.
LEMMA CallOf ==
  ASSUME NEW h \in Host, NEW t \in Thread
  PROVE  [host |-> h, ip |-> Nobody, done |-> FALSE, ok |-> FALSE,
          abandoned |-> FALSE, mu |-> Nobody, made_for |-> t] \in Job
  BY DEF Job

\* At first there is no job and no thread.
LEMMA InitHolds == Init => IInv
  BY DnsAssumption, NoAnswerType DEF Init, IInv, TypeOK, WorkingInv, LeavingInv, CallerInv,
     JobInv, JobOK, MutexInv, CallerFrees

-----------------------------------------------------------------------------

\* A lookup without a deadline touches no job.
LEMMA CallPlainKeeps ==
  ASSUME NEW h \in Host, IInv, CallPlain(h)
  PROVE  IInv'
  <1> USE DnsAssumption, NoAnswerType DEF CallPlain, Returns
  <1>1. TypeOK'
    <2>1. result' \in [err : {0, 2, 3, 8}, ip : Host \cup {Nobody}]
      BY DEF IInv, TypeOK
    <2>2. worker' = worker /\ heap' = heap
      OBVIOUS
    <2>3. QED
      BY <2>1, <2>2 DEF IInv, TypeOK
  <1>2. WorkingInv'
    BY DEF Job, IInv, TypeOK, WorkingInv, CallerInv, LeavingInv, MutexInv, JobInv, JobOK, CallerFrees, Working, Leaving
  <1>3. LeavingInv'
    BY DEF Job, IInv, TypeOK, WorkingInv, CallerInv, LeavingInv, MutexInv, JobInv, JobOK, CallerFrees, Working, Leaving
  <1>4. CallerInv'
    BY DEF Job, IInv, TypeOK, WorkingInv, CallerInv, LeavingInv, MutexInv, JobInv, JobOK, CallerFrees, Working, Leaving
  <1>5. JobInv'
    BY DEF Job, IInv, TypeOK, WorkingInv, CallerInv, LeavingInv, MutexInv, JobInv, JobOK, CallerFrees, Working, Leaving
  <1>6. MutexInv'
    BY DEF Job, IInv, TypeOK, WorkingInv, CallerInv, LeavingInv, MutexInv, JobInv, JobOK, CallerFrees, Working, Leaving
  <1>7. QED
    BY <1>1, <1>2, <1>3, <1>4, <1>5, <1>6 DEF IInv

\* Nor does a call that fails before its thread runs.
LEMMA CallFailsKeeps ==
  ASSUME IInv, CallFails
  PROVE  IInv'
  <1> USE DnsAssumption, NoAnswerType DEF CallFails, Returns
  <1>1. TypeOK'
    BY DEF Job, IInv, TypeOK
  <1>2. WorkingInv'
    BY DEF Job, IInv, TypeOK, WorkingInv, CallerInv, LeavingInv, MutexInv, JobInv, JobOK, CallerFrees, Working, Leaving
  <1>3. LeavingInv'
    BY DEF Job, IInv, TypeOK, WorkingInv, CallerInv, LeavingInv, MutexInv, JobInv, JobOK, CallerFrees, Working, Leaving
  <1>4. CallerInv'
    BY DEF Job, IInv, TypeOK, WorkingInv, CallerInv, LeavingInv, MutexInv, JobInv, JobOK, CallerFrees, Working, Leaving
  <1>5. JobInv'
    BY DEF Job, IInv, TypeOK, WorkingInv, CallerInv, LeavingInv, MutexInv, JobInv, JobOK, CallerFrees, Working, Leaving
  <1>6. MutexInv'
    BY DEF Job, IInv, TypeOK, WorkingInv, CallerInv, LeavingInv, MutexInv, JobInv, JobOK, CallerFrees, Working, Leaving
  <1>7. QED
    BY <1>1, <1>2, <1>3, <1>4, <1>5, <1>6 DEF IInv

\* A new job is its own thread's and its caller's, at an address nobody has.
LEMMA CallKeeps ==
  ASSUME NEW h \in Host, NEW a \in Address, NEW t \in Thread, IInv, Call(h, a, t)
  PROVE  IInv'
  <1> USE DnsAssumption, NoAnswerType DEF Call
  <1>1. TypeOK'
    <2>1. heap' \in [Address -> Job \cup {Freed}]
      BY CallOf DEF IInv, TypeOK
    <2>2. worker' \in [Thread -> [pc : {"gone", "resolve", "lock", "publish", "leave"},
                                 job : Address \cup {Nobody}, ok : BOOLEAN,
                                 abandoned : BOOLEAN]]
      BY DEF IInv, TypeOK
    <2>3. QED
      BY <2>1, <2>2 DEF IInv, TypeOK
  <1>2. WorkingInv'
    <2>1. \A b \in Address : heap'[b] = IF b = a THEN
                     [host |-> h, ip |-> Nobody, done |-> FALSE, ok |-> FALSE,
                      abandoned |-> FALSE, mu |-> Nobody, made_for |-> t]
                     ELSE heap[b]
      BY DEF IInv, TypeOK
    <2>2. Live(a)'
      BY <2>1, CallOf
    <2>3. \A u \in Thread : worker'[u] = IF u = t
                     THEN [Gone EXCEPT !.pc = "resolve", !.job = a] ELSE worker[u]
      BY DEF IInv, TypeOK
    <2>4. QED
      BY <2>1, <2>2, <2>3 DEF IInv, WorkingInv
  <1>3. LeavingInv'
    BY DEF Job, IInv, TypeOK, WorkingInv, CallerInv, LeavingInv, MutexInv, JobInv, JobOK, CallerFrees, Working, Leaving
  <1>4. CallerInv'
    <2>1. heap'[a] = [host |-> h, ip |-> Nobody, done |-> FALSE, ok |-> FALSE,
                      abandoned |-> FALSE, mu |-> Nobody, made_for |-> t]
      BY DEF IInv, TypeOK
    <2>2. Live(a)'
      BY <2>1, CallOf
    <2>3. ~got.ok
      BY DEF IInv, CallerInv
    <2>4. QED
      BY <2>1, <2>2, <2>3 DEF IInv, CallerInv
  <1>5. JobInv'
    BY DEF Job, IInv, TypeOK, WorkingInv, CallerInv, LeavingInv, MutexInv, JobInv, JobOK, CallerFrees, Working, Leaving
  <1>6. MutexInv'
    BY DEF Job, IInv, TypeOK, WorkingInv, CallerInv, LeavingInv, MutexInv, JobInv, JobOK, CallerFrees, Working, Leaving
  <1>7. QED
    BY <1>1, <1>2, <1>3, <1>4, <1>5, <1>6 DEF IInv

\* The caller takes a free mutex, at a poll or past the deadline.
LEMMA CallerLocksKeeps ==
  ASSUME IInv, CallerLocks
  PROVE  IInv'
  <1> USE DnsAssumption, NoAnswerType DEF CallerLocks
  <1>1. TypeOK'
    <2>1. job \in Address /\ heap[job] \in Job
      BY DEF IInv, TypeOK, CallerInv, WorkingInv, LeavingInv
    <2>0. heap[job].abandoned \in BOOLEAN
      BY <2>1 DEF Job
    <2>2. [heap[job] EXCEPT !.mu = "caller"] \in Job \cup {Freed}
      BY <2>1 DEF Job, IInv, TypeOK
    <2>3. heap' = [heap EXCEPT ![job] = [heap[job] EXCEPT !.mu = "caller"]]
      BY <2>1 DEF Job, IInv, TypeOK
    <2>4. heap' \in [Address -> Job \cup {Freed}]
      BY <2>1, <2>2, <2>3 DEF IInv, TypeOK
    <2>5. worker' \in [Thread -> [pc : {"gone", "resolve", "lock", "publish", "leave"},
                                 job : Address \cup {Nobody}, ok : BOOLEAN,
                                 abandoned : BOOLEAN]]
      BY <2>1, <2>0 DEF IInv, TypeOK
    <2>6. result' \in [err : {0, 2, 3, 8}, ip : Host \cup {Nobody}]
      BY DEF IInv, TypeOK
    <2>7. got' \in [ok : BOOLEAN, ip : Host \cup {Nobody}]
      BY <2>1 DEF Job, IInv, TypeOK
    <2>8. QED
      BY <2>4, <2>5, <2>6, <2>7 DEF IInv, TypeOK
  <1>2. WorkingInv'
    BY DEF Job, IInv, TypeOK, WorkingInv, CallerInv, LeavingInv, MutexInv, JobInv, JobOK, CallerFrees, Working, Leaving
  <1>3. LeavingInv'
    BY DEF Job, IInv, TypeOK, WorkingInv, CallerInv, LeavingInv, MutexInv, JobInv, JobOK, CallerFrees, Working, Leaving
  <1>4. CallerInv'
    BY DEF Job, IInv, TypeOK, WorkingInv, CallerInv, LeavingInv, MutexInv, JobInv, JobOK, CallerFrees, Working, Leaving
  <1>5. JobInv'
    BY DEF Job, IInv, TypeOK, WorkingInv, CallerInv, LeavingInv, MutexInv, JobInv, JobOK, CallerFrees, Working, Leaving
  <1>6. MutexInv'
    BY DEF Job, IInv, TypeOK, WorkingInv, CallerInv, LeavingInv, MutexInv, JobInv, JobOK, CallerFrees, Working, Leaving
  <1>7. QED
    BY <1>1, <1>2, <1>3, <1>4, <1>5, <1>6 DEF IInv

\* The caller looks at the job under the lock and lets it go.
LEMMA PollKeeps ==
  ASSUME IInv, Poll
  PROVE  IInv'
  <1> USE DnsAssumption, NoAnswerType DEF Poll
  <1>1. TypeOK'
    <2>1. job \in Address /\ heap[job] \in Job
      BY DEF IInv, TypeOK, CallerInv, WorkingInv, LeavingInv
    <2>0. heap[job].abandoned \in BOOLEAN
      BY <2>1 DEF Job
    <2>2. [heap[job] EXCEPT !.mu = Nobody] \in Job \cup {Freed}
      BY <2>1 DEF Job, IInv, TypeOK
    <2>3. heap' = [heap EXCEPT ![job] = [heap[job] EXCEPT !.mu = Nobody]]
      BY <2>1 DEF Job, IInv, TypeOK
    <2>4. heap' \in [Address -> Job \cup {Freed}]
      BY <2>1, <2>2, <2>3 DEF IInv, TypeOK
    <2>5. worker' \in [Thread -> [pc : {"gone", "resolve", "lock", "publish", "leave"},
                                 job : Address \cup {Nobody}, ok : BOOLEAN,
                                 abandoned : BOOLEAN]]
      BY <2>1, <2>0 DEF IInv, TypeOK
    <2>6. result' \in [err : {0, 2, 3, 8}, ip : Host \cup {Nobody}]
      BY DEF IInv, TypeOK
    <2>7. got' \in [ok : BOOLEAN, ip : Host \cup {Nobody}]
      BY <2>1 DEF Job, IInv, TypeOK
    <2>8. QED
      BY <2>4, <2>5, <2>6, <2>7 DEF IInv, TypeOK
  <1>2. WorkingInv'
    BY DEF Job, IInv, TypeOK, WorkingInv, CallerInv, LeavingInv, MutexInv, JobInv, JobOK, CallerFrees, Working, Leaving
  <1>3. LeavingInv'
    BY DEF Job, IInv, TypeOK, WorkingInv, CallerInv, LeavingInv, MutexInv, JobInv, JobOK, CallerFrees, Working, Leaving
  <1>4. CallerInv'
    BY DEF Job, IInv, TypeOK, WorkingInv, CallerInv, LeavingInv, MutexInv, JobInv, JobOK, CallerFrees, Working, Leaving
  <1>5. JobInv'
    BY DEF Job, IInv, TypeOK, WorkingInv, CallerInv, LeavingInv, MutexInv, JobInv, JobOK, CallerFrees, Working, Leaving
  <1>6. MutexInv'
    BY DEF Job, IInv, TypeOK, WorkingInv, CallerInv, LeavingInv, MutexInv, JobInv, JobOK, CallerFrees, Working, Leaving
  <1>7. QED
    BY <1>1, <1>2, <1>3, <1>4, <1>5, <1>6 DEF IInv

\* Waiting changes no job.
LEMMA ClockKeeps ==
  ASSUME IInv, Clock
  PROVE  IInv'
  <1> USE DnsAssumption, NoAnswerType DEF Clock
  <1>1. TypeOK'
    BY DEF Job, IInv, TypeOK
  <1>2. WorkingInv'
    BY DEF Job, IInv, TypeOK, WorkingInv, CallerInv, LeavingInv, MutexInv, JobInv, JobOK, CallerFrees, Working, Leaving
  <1>3. LeavingInv'
    BY DEF Job, IInv, TypeOK, WorkingInv, CallerInv, LeavingInv, MutexInv, JobInv, JobOK, CallerFrees, Working, Leaving
  <1>4. CallerInv'
    BY DEF Job, IInv, TypeOK, WorkingInv, CallerInv, LeavingInv, MutexInv, JobInv, JobOK, CallerFrees, Working, Leaving
  <1>5. JobInv'
    BY DEF Job, IInv, TypeOK, WorkingInv, CallerInv, LeavingInv, MutexInv, JobInv, JobOK, CallerFrees, Working, Leaving
  <1>6. MutexInv'
    BY DEF Job, IInv, TypeOK, WorkingInv, CallerInv, LeavingInv, MutexInv, JobInv, JobOK, CallerFrees, Working, Leaving
  <1>7. QED
    BY <1>1, <1>2, <1>3, <1>4, <1>5, <1>6 DEF IInv

\* Past the deadline the job is handed to its thread, unless that is done.
LEMMA AbandonKeeps ==
  ASSUME IInv, Abandon
  PROVE  IInv'
  <1> USE DnsAssumption, NoAnswerType DEF Abandon, Returns
  <1>1. TypeOK'
    <2>1. job \in Address /\ heap[job] \in Job
      BY DEF IInv, TypeOK, CallerInv, WorkingInv, LeavingInv
    <2>0. heap[job].abandoned \in BOOLEAN
      BY <2>1 DEF Job
    <2>2. [heap[job] EXCEPT !.mu = Nobody, !.abandoned = TRUE] \in Job \cup {Freed}
      BY <2>1 DEF Job, IInv, TypeOK
    <2>3. heap' = [heap EXCEPT ![job] = [heap[job] EXCEPT !.mu = Nobody, !.abandoned = TRUE]]
      BY <2>1 DEF Job, IInv, TypeOK
    <2>4. heap' \in [Address -> Job \cup {Freed}]
      BY <2>1, <2>2, <2>3 DEF IInv, TypeOK
    <2>5. worker' \in [Thread -> [pc : {"gone", "resolve", "lock", "publish", "leave"},
                                 job : Address \cup {Nobody}, ok : BOOLEAN,
                                 abandoned : BOOLEAN]]
      BY <2>1, <2>0 DEF IInv, TypeOK
    <2>6. result' \in [err : {0, 2, 3, 8}, ip : Host \cup {Nobody}]
      BY DEF IInv, TypeOK
    <2>7. got' \in [ok : BOOLEAN, ip : Host \cup {Nobody}]
      BY <2>1 DEF Job, IInv, TypeOK
    <2>8. QED
      BY <2>4, <2>5, <2>6, <2>7 DEF IInv, TypeOK
  <1>2. WorkingInv'
    BY DEF Job, IInv, TypeOK, WorkingInv, CallerInv, LeavingInv, MutexInv, JobInv, JobOK, CallerFrees, Working, Leaving
  <1>3. LeavingInv'
    BY DEF Job, IInv, TypeOK, WorkingInv, CallerInv, LeavingInv, MutexInv, JobInv, JobOK, CallerFrees, Working, Leaving
  <1>4. CallerInv'
    BY DEF Job, IInv, TypeOK, WorkingInv, CallerInv, LeavingInv, MutexInv, JobInv, JobOK, CallerFrees, Working, Leaving
  <1>5. JobInv'
    BY DEF Job, IInv, TypeOK, WorkingInv, CallerInv, LeavingInv, MutexInv, JobInv, JobOK, CallerFrees, Working, Leaving
  <1>6. MutexInv'
    BY DEF Job, IInv, TypeOK, WorkingInv, CallerInv, LeavingInv, MutexInv, JobInv, JobOK, CallerFrees, Working, Leaving
  <1>7. QED
    BY <1>1, <1>2, <1>3, <1>4, <1>5, <1>6 DEF IInv

\* The caller frees its job only when the thread is done with it.
LEMMA ReleaseKeeps ==
  ASSUME IInv, Release
  PROVE  IInv'
  <1> USE DnsAssumption, NoAnswerType DEF Release, Returns
  <1>1. TypeOK'
    <2>1. job \in Address /\ heap[job] \in Job
      BY DEF IInv, TypeOK, CallerInv, WorkingInv, LeavingInv
    <2>0. heap[job].abandoned \in BOOLEAN
      BY <2>1 DEF Job
    <2>2. Freed \in Job \cup {Freed}
      BY <2>1 DEF Job, IInv, TypeOK
    <2>3. heap' = [heap EXCEPT ![job] = Freed]
      BY <2>1 DEF Job, IInv, TypeOK
    <2>4. heap' \in [Address -> Job \cup {Freed}]
      BY <2>1, <2>2, <2>3 DEF IInv, TypeOK
    <2>5. worker' \in [Thread -> [pc : {"gone", "resolve", "lock", "publish", "leave"},
                                 job : Address \cup {Nobody}, ok : BOOLEAN,
                                 abandoned : BOOLEAN]]
      BY <2>1, <2>0 DEF IInv, TypeOK
    <2>6. result' \in [err : {0, 2, 3, 8}, ip : Host \cup {Nobody}]
      BY DEF IInv, TypeOK
    <2>7. got' \in [ok : BOOLEAN, ip : Host \cup {Nobody}]
      BY <2>1 DEF Job, IInv, TypeOK
    <2>8. QED
      BY <2>4, <2>5, <2>6, <2>7 DEF IInv, TypeOK
  <1>2. WorkingInv'
    BY DEF Job, IInv, TypeOK, WorkingInv, CallerInv, LeavingInv, MutexInv, JobInv, JobOK, CallerFrees, Working, Leaving
  <1>3. LeavingInv'
    BY DEF Job, IInv, TypeOK, WorkingInv, CallerInv, LeavingInv, MutexInv, JobInv, JobOK, CallerFrees, Working, Leaving
  <1>4. CallerInv'
    BY DEF Job, IInv, TypeOK, WorkingInv, CallerInv, LeavingInv, MutexInv, JobInv, JobOK, CallerFrees, Working, Leaving
  <1>5. JobInv'
    BY DEF Job, IInv, TypeOK, WorkingInv, CallerInv, LeavingInv, MutexInv, JobInv, JobOK, CallerFrees, Working, Leaving
  <1>6. MutexInv'
    BY DEF Job, IInv, TypeOK, WorkingInv, CallerInv, LeavingInv, MutexInv, JobInv, JobOK, CallerFrees, Working, Leaving
  <1>7. QED
    BY <1>1, <1>2, <1>3, <1>4, <1>5, <1>6 DEF IInv

\* A step in which a thread updates its job, keeping whose it is, for whom and
\* whether it is abandoned, and goes on with it.
Advances(t, nj, nw) ==
  LET j == heap[worker[t].job] IN
  /\ worker[t].pc \in {"resolve", "lock", "publish"}
  /\ nj \in Job
  /\ nw \in [pc : {"lock", "publish", "leave"}, job : Address, ok : BOOLEAN, abandoned : BOOLEAN]
  /\ heap' = [heap EXCEPT ![worker[t].job] = nj]
  /\ worker' = [worker EXCEPT ![t] = nw]
  /\ UNCHANGED callerVars
  /\ nw.job = worker[t].job
  /\ nj.host = j.host /\ nj.made_for = j.made_for /\ nj.abandoned = j.abandoned
  /\ nj.done <=> nw.pc = "leave"
  /\ nw.pc = "leave" => nw.abandoned = nj.abandoned
  /\ nw.pc # "leave" /\ nw.ok => nj.ip = nj.host
  /\ nj.done /\ nj.ok => nj.ip = nj.host
  /\ nj.mu \in {"caller", Nobody, t}
  /\ nj.mu = t <=> nw.pc = "publish"
  /\ nj.mu = "caller" <=> j.mu = "caller"

LEMMA ThreadKeeps ==
  ASSUME IInv, NEW t \in Thread, NEW nj, NEW nw, Advances(t, nj, nw)
  PROVE  IInv'
  <1> USE DEF Advances
  <1> DEFINE a == worker[t].job
             PCs == {"gone", "resolve", "lock", "publish", "leave"}
  <1>0. /\ worker \in [Thread -> [pc : PCs, job : Address \cup {Nobody},
                                  ok : BOOLEAN, abandoned : BOOLEAN]]
        /\ heap \in [Address -> Job \cup {Freed}]
    BY DEF IInv, TypeOK
  <1>1. /\ a \in Address /\ heap[a] # Freed /\ heap[a].made_for = t
        /\ ~heap[a].done
    BY DEF IInv, WorkingInv
  <1>2. /\ \A b \in Address : b # a => heap'[b] = heap[b]
        /\ heap'[a] = nj /\ nj # Freed
        /\ heap' \in [Address -> Job \cup {Freed}]
    BY <1>0, <1>1, DnsAssumption
  <1>3. /\ \A u \in Thread : u # t => worker'[u] = worker[u]
        /\ worker'[t] = nw
        /\ worker' \in [Thread -> [pc : PCs, job : Address \cup {Nobody},
                                   ok : BOOLEAN, abandoned : BOOLEAN]]
    BY <1>0
  <1>4. /\ pc' = pc /\ job' = job /\ host' = host /\ left' = left
        /\ got' = got /\ result' = result
    BY DEF callerVars
  <1>5. TypeOK'
    BY <1>2, <1>3, <1>4 DEF IInv, TypeOK
  <1>6. \A b : CallerFrees(b)' <=> CallerFrees(b)
    BY <1>4 DEF CallerFrees
  <1>7. CallerFrees(a) => ~heap[a].abandoned
    BY <1>1 DEF CallerFrees, IInv, CallerInv
  <1>8. WorkingInv'
    <2> SUFFICES ASSUME NEW u \in Thread,
                        worker'[u].pc \in {"resolve", "lock", "publish"}
                 PROVE  LET b == worker'[u].job IN
                          /\ b \in Address /\ heap'[b] # Freed
                          /\ heap'[b].made_for = u /\ ~heap'[b].done
                          /\ worker'[u].pc # "resolve" /\ worker'[u].ok
                               => heap'[b].ip = heap'[b].host
      BY DEF WorkingInv
    <2>1. CASE u = t
      BY <2>1, <1>1, <1>2, <1>3
    <2>2. CASE u # t
      <3>1. LET b == worker[u].job IN
              /\ b \in Address /\ heap[b] # Freed
              /\ heap[b].made_for = u /\ ~heap[b].done
              /\ worker[u].pc # "resolve" /\ worker[u].ok
                   => heap[b].ip = heap[b].host
        BY <2>2, <1>3 DEF IInv, WorkingInv
      <3>2. worker[u].job # a
        BY <3>1, <2>2, <1>1
      <3>3. QED
        BY <3>1, <3>2, <2>2, <1>2, <1>3
    <2>3. QED
      BY <2>1, <2>2
  <1>9. LeavingInv'
    <2> SUFFICES ASSUME NEW u \in Thread, worker'[u].pc = "leave", worker'[u].abandoned
                 PROVE  LET b == worker'[u].job IN
                          /\ b \in Address /\ heap'[b] # Freed
                          /\ heap'[b].made_for = u
                          /\ heap'[b].done /\ heap'[b].abandoned
                          /\ ~(pc' # "idle" /\ job' = b)
      BY DEF LeavingInv, CallerFrees
    <2>1. CASE u = t
      BY <2>1, <1>1, <1>2, <1>3, <1>4, <1>7 DEF CallerFrees
    <2>2. CASE u # t
      <3>1. LET b == worker[u].job IN
              /\ b \in Address /\ heap[b] # Freed
              /\ heap[b].made_for = u
              /\ heap[b].done /\ heap[b].abandoned
              /\ ~(pc # "idle" /\ job = b)
        BY <2>2, <1>3 DEF IInv, LeavingInv, CallerFrees
      <3>2. worker[u].job # a
        BY <3>1, <2>2, <1>1
      <3>3. QED
        BY <3>1, <3>2, <2>2, <1>2, <1>3, <1>4
    <2>3. QED
      BY <2>1, <2>2
  <1>10. CallerInv'
    <2>1. CASE job = a
      BY <2>1, <1>1, <1>2, <1>4 DEF IInv, CallerInv
    <2>2. CASE job # a
      BY <2>2, <1>2, <1>4 DEF IInv, CallerInv
    <2>3. QED
      BY <2>1, <2>2
  <1>11. JobInv'
    <2> SUFFICES ASSUME NEW b \in Address, heap'[b] # Freed
                 PROVE  JobOK(b)'
      BY DEF JobInv
    <2>1. CASE b = a
      <3>1. Working(t, a)' \/ Leaving(t, a)' \/ ~nj.abandoned
        BY <1>3 DEF Working, Leaving
      <3>2. ~nj.done => Working(t, a)'
        BY <1>3 DEF Working
      <3>3. ~CallerFrees(a) => nj.abandoned
        BY <1>1 DEF IInv, JobInv, JobOK
      <3>4. QED
        BY <2>1, <3>1, <3>2, <3>3, <1>1, <1>2, <1>6 DEF JobOK
    <2>2. CASE b # a
      <3>1. heap'[b] = heap[b] /\ JobOK(b)
        BY <2>2, <1>2 DEF IInv, JobInv
      <3>2. \A u \in Thread : (Working(u, b)' <=> Working(u, b)) /\ (Leaving(u, b)' <=> Leaving(u, b))
        BY <2>2, <1>3 DEF Working, Leaving
      <3>3. heap[b].made_for \in Thread
        BY <3>1, <1>0 DEF Job
      <3>4. QED
        BY <3>1, <3>2, <3>3, <1>6 DEF JobOK
    <2>3. QED
      BY <2>1, <2>2
  <1>12. MutexInv'
    <2> SUFFICES ASSUME NEW b \in Address, heap'[b] # Freed
                 PROVE  /\ heap'[b].mu = "caller" <=> pc \in {"poll", "abandon"} /\ job = b
                        /\ \A u \in Thread :
                             heap'[b].mu = u <=> worker'[u].pc = "publish" /\ worker'[u].job = b
      BY <1>4 DEF MutexInv
    <2>1. CASE b = a
      <3>1. /\ heap[a].mu = "caller" <=> pc \in {"poll", "abandon"} /\ job = a
        BY <1>1 DEF IInv, MutexInv
      <3>2. ASSUME NEW u \in Thread, u # t
            PROVE  nj.mu # u /\ ~(worker'[u].pc = "publish" /\ worker'[u].job = a)
        <4>1. nj.mu # u
          BY <3>2, DnsAssumption
        <4>2. worker[u].pc = "publish" => worker[u].job # a
          BY <3>2, <1>1 DEF IInv, WorkingInv
        <4>3. QED
          BY <3>2, <4>1, <4>2, <1>3
      <3>3. QED
        BY <2>1, <3>1, <3>2, <1>2, <1>3
    <2>2. CASE b # a
      <3>1. /\ heap[b].mu = "caller" <=> pc \in {"poll", "abandon"} /\ job = b
            /\ \A u \in Thread :
                 heap[b].mu = u <=> worker[u].pc = "publish" /\ worker[u].job = b
        BY <2>2, <1>2 DEF IInv, MutexInv
      <3>2. heap[b].mu # t
        BY <3>1, <2>2
      <3>3. QED
        BY <2>2, <3>1, <3>2, <1>2, <1>3
    <2>3. QED
      BY <2>1, <2>2
  <1>13. QED
    BY <1>5, <1>8, <1>9, <1>10, <1>11, <1>12 DEF IInv

\* What is known of a thread that has its job, and of the job.
LEMMA ThreadHas ==
  ASSUME IInv, NEW t \in Thread, worker[t].pc \in {"resolve", "lock", "publish"}
  PROVE  /\ worker[t].job \in Address /\ heap[worker[t].job] \in Job
         /\ ~heap[worker[t].job].done
         /\ worker[t] \in [pc : {"gone", "resolve", "lock", "publish", "leave"},
                           job : Address \cup {Nobody}, ok : BOOLEAN, abandoned : BOOLEAN]
         /\ worker[t].pc # "resolve" /\ worker[t].ok
              => heap[worker[t].job].ip = heap[worker[t].job].host
         /\ heap[worker[t].job].mu = t <=> worker[t].pc = "publish"
  <1>1. /\ worker[t].job \in Address /\ heap[worker[t].job] # Freed
        /\ ~heap[worker[t].job].done
        /\ worker[t].pc # "resolve" /\ worker[t].ok
              => heap[worker[t].job].ip = heap[worker[t].job].host
    BY DEF IInv, WorkingInv
  <1>2. QED
    BY <1>1 DEF IInv, TypeOK, MutexInv

\* The only thread that may hold the mutex of a job is the one it was made for.
LEMMA MutexOfJob ==
  ASSUME IInv, NEW t \in Thread, worker[t].pc \in {"resolve", "lock", "publish"},
         heap[worker[t].job].mu \in Thread
  PROVE  heap[worker[t].job].mu = t
  <1> DEFINE a == worker[t].job
             u == heap[a].mu
  <1>1. a \in Address /\ heap[a] # Freed /\ heap[a].made_for = t
    BY DEF IInv, WorkingInv
  <1>2. worker[u].pc = "publish" /\ worker[u].job = a
    BY <1>1 DEF IInv, MutexInv
  <1>3. heap[a].made_for = u
    BY <1>2 DEF IInv, WorkingInv
  <1>4. QED
    BY <1>1, <1>3

\* The thread writes the answer into its own job.
LEMMA ResolveKeeps ==
  ASSUME NEW t \in Thread, IInv, Resolve(t)
  PROVE  IInv'
  <1> DEFINE a == worker[t].job
             j == heap[a]
             w == worker[t]
  <1>1. PICK ok \in BOOLEAN :
          /\ worker' = [worker EXCEPT ![t].pc = "lock", ![t].ok = ok]
          /\ heap' = IF ok THEN [heap EXCEPT ![a].ip = j.host] ELSE heap
    BY DEF Resolve
  <1>2. w.pc = "resolve" /\ UNCHANGED callerVars
    BY DEF Resolve
  <1>3. /\ a \in Address /\ j \in Job /\ ~j.done /\ j.mu # t
        /\ w \in [pc : {"gone", "resolve", "lock", "publish", "leave"},
                  job : Address \cup {Nobody}, ok : BOOLEAN, abandoned : BOOLEAN]
    BY <1>2, ThreadHas
  <1> DEFINE nj == IF ok THEN [j EXCEPT !.ip = j.host] ELSE j
             nw == [w EXCEPT !.pc = "lock", !.ok = ok]
  <1>4. nj \in Job /\ nw \in [pc : {"lock", "publish", "leave"}, job : Address,
                               ok : BOOLEAN, abandoned : BOOLEAN]
    BY <1>3 DEF Job
  <1>5. heap' = [heap EXCEPT ![a] = nj]
    <2>1. heap \in [Address -> Job \cup {Freed}]
      BY DEF IInv, TypeOK
    <2>2. CASE ok
      BY <2>2, <1>1
    <2>3. CASE ~ok
      <3>1. nj = j
        BY <2>3
      <3> HIDE DEF nj
      <3>2. QED
        BY <2>1, <2>3, <3>1, <1>1
    <2>4. QED
      BY <2>2, <2>3
  <1>6. worker' = [worker EXCEPT ![t] = nw]
    <2>1. worker \in [Thread -> [pc : {"gone", "resolve", "lock", "publish", "leave"},
                job : Address \cup {Nobody}, ok : BOOLEAN, abandoned : BOOLEAN]]
      BY DEF IInv, TypeOK
    <2>2. QED
      BY <2>1, <1>1
  <1>7. j.mu \in {"caller", Nobody, t}
    <2>1. j.mu \in Thread => j.mu = t
      BY <1>2, <1>3, MutexOfJob
    <2>2. QED
      BY <2>1, <1>3 DEF Job
  <1>8. t # "caller" /\ t # Nobody
    BY DnsAssumption
  <1>f. /\ nj.host = j.host /\ nj.made_for = j.made_for /\ nj.abandoned = j.abandoned
        /\ nw.job = a /\ nw.pc = "lock" /\ nj.done = j.done /\ nj.mu = j.mu
        /\ (nw.ok => nj.ip = nj.host) /\ nj.ok = j.ok
    BY <1>3 DEF Job
  <1>e. a = worker[t].job /\ j = heap[a] /\ w = worker[t]
    OBVIOUS
  <1> HIDE DEF nj, nw, a, j, w
  <1>9. Advances(t, nj, nw)
    BY <1>2, <1>3, <1>4, <1>5, <1>6, <1>7, <1>8, <1>e, <1>f DEF Advances
  <1>10. QED
    BY <1>9, ThreadKeeps

\* The thread takes a free mutex.
LEMMA WorkerLocksKeeps ==
  ASSUME NEW t \in Thread, IInv, WorkerLocks(t)
  PROVE  IInv'
  <1> DEFINE a == worker[t].job
             j == heap[a]
             w == worker[t]
  <1>1. /\ worker' = [worker EXCEPT ![t].pc = "publish"]
        /\ heap' = [heap EXCEPT ![a].mu = t]
        /\ w.pc = "lock" /\ j.mu = Nobody /\ UNCHANGED callerVars
    BY DEF WorkerLocks
  <1>3. /\ a \in Address /\ j \in Job /\ ~j.done
        /\ (w.ok => j.ip = j.host)
        /\ w \in [pc : {"gone", "resolve", "lock", "publish", "leave"},
                  job : Address \cup {Nobody}, ok : BOOLEAN, abandoned : BOOLEAN]
    BY <1>1, ThreadHas
  <1> DEFINE nj == [j EXCEPT !.mu = t]
             nw == [w EXCEPT !.pc = "publish"]
  <1>4. nj \in Job /\ nw \in [pc : {"lock", "publish", "leave"}, job : Address,
                               ok : BOOLEAN, abandoned : BOOLEAN]
    BY <1>3 DEF Job
  <1>5. heap' = [heap EXCEPT ![a] = nj]
    BY <1>1
  <1>6. worker' = [worker EXCEPT ![t] = nw]
    <2>1. worker \in [Thread -> [pc : {"gone", "resolve", "lock", "publish", "leave"},
                job : Address \cup {Nobody}, ok : BOOLEAN, abandoned : BOOLEAN]]
      BY DEF IInv, TypeOK
    <2>2. QED
      BY <2>1, <1>1
  <1>8. t # "caller" /\ t # Nobody /\ Nobody # "caller"
    BY DnsAssumption
  <1>f. /\ nj.host = j.host /\ nj.made_for = j.made_for /\ nj.abandoned = j.abandoned
        /\ nw.job = a /\ nw.pc = "publish" /\ nj.done = j.done /\ nj.mu = t
        /\ nw.ok = w.ok /\ nj.ip = j.ip
    BY <1>3 DEF Job
  <1>e. a = worker[t].job /\ j = heap[a] /\ w = worker[t]
    OBVIOUS
  <1> HIDE DEF nj, nw, a, j, w
  <1>9. Advances(t, nj, nw)
    BY <1>1, <1>3, <1>4, <1>5, <1>6, <1>8, <1>e, <1>f DEF Advances
  <1>10. QED
    BY <1>9, ThreadKeeps

\* The thread says done and learns whether the caller still waits.
LEMMA PublishKeeps ==
  ASSUME NEW t \in Thread, IInv, Publish(t)
  PROVE  IInv'
  <1> DEFINE a == worker[t].job
             j == heap[a]
             w == worker[t]
  <1>1. /\ worker' = [worker EXCEPT ![t].pc = "leave", ![t].abandoned = j.abandoned]
        /\ heap' = [heap EXCEPT ![a].ok = w.ok, ![a].done = TRUE, ![a].mu = Nobody]
        /\ w.pc = "publish" /\ UNCHANGED callerVars
    BY DEF Publish
  <1>3. /\ a \in Address /\ j \in Job /\ ~j.done /\ j.mu = t
        /\ (w.ok => j.ip = j.host)
        /\ w \in [pc : {"gone", "resolve", "lock", "publish", "leave"},
                  job : Address \cup {Nobody}, ok : BOOLEAN, abandoned : BOOLEAN]
    BY <1>1, ThreadHas
  <1> DEFINE nj == [j EXCEPT !.ok = w.ok, !.done = TRUE, !.mu = Nobody]
             nw == [w EXCEPT !.pc = "leave", !.abandoned = j.abandoned]
  <1>4. nj \in Job /\ nw \in [pc : {"lock", "publish", "leave"}, job : Address,
                               ok : BOOLEAN, abandoned : BOOLEAN]
    BY <1>3 DEF Job
  <1>5. heap' = [heap EXCEPT ![a] = nj]
    <2>0. heap \in [Address -> Job \cup {Freed}]
      BY DEF IInv, TypeOK
    <2>1. QED
      BY <2>0, <1>1, <1>3
  <1>6. worker' = [worker EXCEPT ![t] = nw]
    <2>1. worker \in [Thread -> [pc : {"gone", "resolve", "lock", "publish", "leave"},
                job : Address \cup {Nobody}, ok : BOOLEAN, abandoned : BOOLEAN]]
      BY DEF IInv, TypeOK
    <2>2. QED
      BY <2>1, <1>1
  <1>8. t # "caller" /\ t # Nobody /\ Nobody # "caller"
    BY DnsAssumption
  <1>f. /\ nj.host = j.host /\ nj.made_for = j.made_for /\ nj.abandoned = j.abandoned
        /\ nw.job = a /\ nw.pc = "leave" /\ nj.done /\ nj.mu = Nobody
        /\ nj.ok = w.ok /\ nj.ip = j.ip /\ nw.abandoned = j.abandoned
    BY <1>3 DEF Job
  <1>e. a = worker[t].job /\ j = heap[a] /\ w = worker[t]
    OBVIOUS
  <1> HIDE DEF nj, nw, a, j, w
  <1>m. /\ nj.mu # t /\ nj.mu # "caller" /\ j.mu # "caller" /\ nw.pc # "publish"
        /\ nj.ok => nj.ip = nj.host
    BY <1>3, <1>8, <1>f
  <1>9. Advances(t, nj, nw)
    BY <1>1, <1>4, <1>5, <1>6, <1>e, <1>f, <1>m DEF Advances
  <1>10. QED
    BY <1>9, ThreadKeeps

\* The thread frees a job it has found abandoned, and only such a one.
LEMMA LeaveKeeps ==
  ASSUME NEW t \in Thread, IInv, Leave(t)
  PROVE  IInv'
  <1> USE DnsAssumption, NoAnswerType DEF Leave, callerVars
  <1>1. TypeOK'
    BY DEF Job, IInv, TypeOK
  <1>2. WorkingInv'
    BY DEF Job, IInv, TypeOK, WorkingInv, CallerInv, LeavingInv, MutexInv, JobInv, JobOK, CallerFrees, Working, Leaving
  <1>3. LeavingInv'
    BY DEF Job, IInv, TypeOK, WorkingInv, CallerInv, LeavingInv, MutexInv, JobInv, JobOK, CallerFrees, Working, Leaving
  <1>4. CallerInv'
    BY DEF Job, IInv, TypeOK, WorkingInv, CallerInv, LeavingInv, MutexInv, JobInv, JobOK, CallerFrees, Working, Leaving
  <1>5. JobInv'
    BY DEF Job, IInv, TypeOK, WorkingInv, CallerInv, LeavingInv, MutexInv, JobInv, JobOK, CallerFrees, Working, Leaving
  <1>6. MutexInv'
    BY DEF Job, IInv, TypeOK, WorkingInv, CallerInv, LeavingInv, MutexInv, JobInv, JobOK, CallerFrees, Working, Leaving
  <1>7. QED
    BY <1>1, <1>2, <1>3, <1>4, <1>5, <1>6 DEF IInv
-----------------------------------------------------------------------------
\* Every step of the caller, of a thread or of calloc keeps IInv.
LEMMA StepKeeps == IInv /\ [Next]_vars => IInv'
  <1> SUFFICES ASSUME IInv, [Next]_vars PROVE IInv'
    OBVIOUS
  <1>1. CASE \E h \in Host : CallPlain(h)
    BY <1>1, CallPlainKeeps
  <1>2. CASE CallFails
    BY <1>2, CallFailsKeeps
  <1>3. CASE \E h \in Host, a \in Address, t \in Thread : Call(h, a, t)
    BY <1>3, CallKeeps
  <1>4. CASE CallerStep
    BY <1>4, CallerLocksKeeps, PollKeeps, ClockKeeps, AbandonKeeps, ReleaseKeeps
       DEF CallerStep
  <1>5. CASE \E t \in Thread : Resolve(t) \/ WorkerStep(t)
    BY <1>5, ResolveKeeps, WorkerLocksKeeps, PublishKeeps, LeaveKeeps
       DEF WorkerStep
  <1>6. CASE UNCHANGED vars
    BY <1>6 DEF vars, IInv, TypeOK, WorkingInv, LeavingInv, CallerInv, JobInv,
       JobOK, MutexInv, CallerFrees, Working, Leaving
  <1>7. QED
    BY <1>1, <1>2, <1>3, <1>4, <1>5, <1>6 DEF Next

\* IInv holds in every state of a lookup.
LEMMA Inductive == Spec => []IInv
  BY InitHolds, StepKeeps, PTL DEF Spec

\* Every variable of the caller, the threads and the heap keeps its type.
THEOREM DnsTypeCorrect == Spec => []TypeOK
  BY Inductive, PTL DEF IInv

\* The parties that free are the ones IInv speaks of.
LEMMA WhoFrees ==
  ASSUME IInv, NEW a \in Address, NEW t \in Thread
  PROVE  /\ WorkerFrees(t, a) => /\ Live(a) /\ heap[a].made_for = t
                                /\ ~CallerFrees(a)
         /\ Working(t, a) /\ Live(a) /\ heap[a].abandoned => WorkerFrees(t, a)
         /\ Leaving(t, a) => WorkerFrees(t, a)
  <1>1. CASE Leaving(t, a)
    BY <1>1 DEF Leaving, WorkerFrees, IInv, LeavingInv
  <1>2. CASE Working(t, a)
    <2>1. Live(a) /\ heap[a].made_for = t /\ ~heap[a].done
      BY <1>2 DEF Working, IInv, WorkingInv
    <2>2. heap[a].abandoned => ~CallerFrees(a)
      BY <2>1 DEF CallerFrees, IInv, CallerInv
    <2>3. QED
      BY <1>2, <2>1, <2>2 DEF Working, Leaving, WorkerFrees
  <1>3. QED
    BY <1>1, <1>2 DEF WorkerFrees, Working, Leaving

\* For any threads, addresses and deadline, an allocated job has exactly one
\* party that will free it, and a free address has none: no leak, no double
\* free, whatever the order in which answer and deadline arrive.
THEOREM JobsHaveOneOwner == Spec => []OneOwner
  <1>1. IInv => OneOwner
    <2> SUFFICES ASSUME IInv, NEW a \in Address
                 PROVE  /\ Live(a) <=> CallerFrees(a) \/ \E t \in Thread : WorkerFrees(t, a)
                        /\ \A t \in Thread :
                             WorkerFrees(t, a) =>
                               /\ ~CallerFrees(a)
                               /\ \A u \in Thread : WorkerFrees(u, a) => u = t
      BY DEF OneOwner
    <2>1. CallerFrees(a) => Live(a)
      BY DEF CallerFrees, IInv, CallerInv
    <2>2. Live(a) /\ ~CallerFrees(a) => WorkerFrees(heap[a].made_for, a)
                                       /\ heap[a].made_for \in Thread
      <3> SUFFICES ASSUME Live(a), ~CallerFrees(a)
                   PROVE  WorkerFrees(heap[a].made_for, a) /\ heap[a].made_for \in Thread
        OBVIOUS
      <3>1. heap[a].made_for \in Thread
        BY DEF Job, IInv, TypeOK
      <3>2. /\ heap[a].abandoned
            /\ Working(heap[a].made_for, a) \/ Leaving(heap[a].made_for, a)
        BY DEF IInv, JobInv, JobOK
      <3>3. QED
        BY <3>1, <3>2, WhoFrees
    <2>3. QED
      BY <2>1, <2>2, WhoFrees
  <1>2. QED
    BY <1>1, Inductive, PTL

\* A thread that still uses its job finds its own, whatever calloc has handed
\* out since, and no mutex is destroyed while somebody holds it.
THEOREM ThreadsUseTheirOwnJob == Spec => []JobIsOwn
  <1>1. IInv => JobIsOwn
    BY DEF IInv, WorkingInv, MutexInv, JobIsOwn
  <1>2. QED
    BY <1>1, Inductive, PTL

\* An answer returned within the deadline is the address of the host that
\* this call, and not an earlier one, was asked for.
THEOREM AnswersAreOwn == Spec => AnswerIsOwn
  <1>1. IInv /\ [Next]_vars =>
          [result' # result /\ result'.err = 0 /\ host # Nobody
             => result'.ip = host]_vars
    <2> SUFFICES ASSUME IInv, Next, result' # result, result'.err = 0, host # Nobody
                 PROVE  result'.ip = host
      OBVIOUS
    <2>1. pc # "idle"
      BY DEF IInv, CallerInv
    <2>2. CASE CallerStep
      <3>1. ~CallerLocks /\ ~Poll /\ ~Clock
        BY DEF CallerLocks, Poll, Clock
      <3>2. ~Abandon
        BY DEF Abandon, Returns
      <3>3. Release
        BY <2>2, <3>1, <3>2 DEF CallerStep
      <3>4. QED
        BY <3>3 DEF Release, Returns, IInv, CallerInv
    <2>3. CASE \E t \in Thread : Resolve(t) \/ WorkerStep(t)
      BY <2>3 DEF Resolve, WorkerStep, WorkerLocks, Publish, Leave, callerVars
    <2>4. QED
      BY <2>1, <2>2, <2>3 DEF Next, CallPlain, CallFails, Call
  <1>2. QED
    BY <1>1, Inductive, PTL DEF Spec, AnswerIsOwn
=============================================================================
