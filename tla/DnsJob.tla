------------------------------- MODULE DnsJob -------------------------------
(***************************************************************************)
(* gethostbyname_timeout of stdlib/socket.c: the caller starts a detached  *)
(* thread for each lookup, polls a job they share until it is done or the  *)
(* deadline has passed, and in the second case abandons the job to the     *)
(* thread.  One of the two frees it.                                       *)
(*                                                                         *)
(* Calls follow one another while threads of earlier, abandoned calls are  *)
(* still in getaddrinfo, and calloc hands out addresses that were freed.   *)
(***************************************************************************)
EXTENDS Integers

CONSTANTS Host, Thread,
          Address,    \* what calloc may return
          Freed,      \* the content of an address that is not allocated
          Nobody,     \* the owner of a free mutex, the job of no call
          Deadline    \* the most polls that fit into `seconds`

\* ip is the host whose address was written there; calloc leaves it empty.
\* made_for, which the code has not, is the thread the job was made for.
Job == [host : Host, ip : Host \cup {Nobody}, done : BOOLEAN, ok : BOOLEAN,
        abandoned : BOOLEAN, mu : Thread \cup {"caller", Nobody},
        made_for : Thread]

ASSUME DnsAssumption ==
  /\ Deadline \in Nat
  /\ Freed \notin Job
  /\ Nobody \notin Host \cup Address \cup Thread \cup {"caller"}
  /\ "caller" \notin Thread

VARIABLES pc,        \* where the caller is
          job,       \* its job pointer
          host,      \* what it was asked for
          left,      \* the polls left until the deadline
          got,       \* got_ok and ip_copy
          result,    \* what the last call returned
          worker,    \* the threads: where they are and their locals
          heap

callerVars == <<pc, job, host, left, got, result>>
vars == <<pc, job, host, left, got, result, worker, heap>>

Gone == [pc |-> "gone", job |-> Nobody, ok |-> FALSE, abandoned |-> FALSE]

NoAnswer == [ok |-> FALSE, ip |-> Nobody]

Live(a) == heap[a] # Freed

-----------------------------------------------------------------------------
Init == /\ pc = "idle" /\ job = Nobody /\ host = Nobody /\ left = 0
        /\ got = NoAnswer /\ result = [err |-> 0, ip |-> Nobody]
        /\ worker = [t \in Thread |-> Gone]
        /\ heap = [a \in Address |-> Freed]

\* The call returns, and with it go its locals.
Returns(err, ip) == /\ pc' = "idle" /\ job' = Nobody /\ host' = Nobody
                    /\ left' = 0 /\ got' = NoAnswer
                    /\ result' = [err |-> err, ip |-> ip]

\* A lookup without a deadline: the plain gethostbyname, which may fail.
CallPlain(h) == /\ pc = "idle"
                /\ Returns(0, h) \/ Returns(8, Nobody)
                /\ UNCHANGED <<worker, heap>>

\* The name is too long, there is no memory, or pthread_create fails and the job is freed again.
CallFails == /\ pc = "idle"
             /\ Returns(2, Nobody)
             /\ UNCHANGED <<worker, heap>>

Call(h, a, t) ==
  /\ pc = "idle" /\ ~Live(a) /\ worker[t] = Gone
  /\ heap' = [heap EXCEPT ![a] =
                [host |-> h, ip |-> Nobody, done |-> FALSE, ok |-> FALSE,
                 abandoned |-> FALSE, mu |-> Nobody, made_for |-> t]]
  /\ worker' = [worker EXCEPT ![t] = [Gone EXCEPT !.pc = "resolve", !.job = a]]
  /\ pc' = "lock" /\ job' = a /\ host' = h /\ left' = Deadline
  /\ UNCHANGED <<got, result>>

\* pthread_mutex_lock, at the top of the poll and after the deadline.
CallerLocks == /\ pc \in {"lock", "expire"}
               /\ heap[job].mu = Nobody
               /\ heap' = [heap EXCEPT ![job].mu = "caller"]
               /\ pc' = IF pc = "lock" THEN "poll" ELSE "abandon"
               /\ UNCHANGED <<job, host, left, got, result, worker>>

Poll == /\ pc = "poll"
        /\ got' = IF heap[job].done /\ heap[job].ok
                  THEN [ok |-> TRUE, ip |-> heap[job].ip] ELSE NoAnswer
        /\ pc' = IF heap[job].done THEN "release" ELSE "clock"
        /\ heap' = [heap EXCEPT ![job].mu = Nobody]
        /\ UNCHANGED <<job, host, left, result, worker>>

\* Mutant: the deadline is compared after one more sleep.
ClockLate == /\ pc = "clock"
             /\ \/ left < 0 /\ pc' = "expire" /\ left' = left
                \/ left >= 0 /\ pc' = "lock" /\ left' = left - 1
             /\ UNCHANGED <<job, host, got, result, worker, heap>>

\* The deadline has passed, or the caller sleeps, 10 ms or longer.
Clock == /\ pc = "clock"
         /\ \/ left = 0 /\ pc' = "expire" /\ left' = left
            \/ left > 0 /\ pc' = "lock" /\ left' \in 0 .. left - 1
         /\ UNCHANGED <<job, host, got, result, worker, heap>>

\* Mutant: the caller always leaves the job to the thread.
AbandonAlways == /\ pc = "abandon"
                 /\ heap' = [heap EXCEPT ![job].mu = Nobody,
                                         ![job].abandoned = TRUE]
                 /\ Returns(3, Nobody)
                 /\ UNCHANGED worker

\* Mutant: already_done is not looked at, and the caller always frees.
AbandonNever == /\ pc = "abandon"
                /\ heap' = [heap EXCEPT ![job] = Freed]
                /\ Returns(3, Nobody)
                /\ UNCHANGED worker

\* Mutant: the caller joins the thread it has given up on.
AbandonWaits == /\ pc = "abandon"
                /\ heap' = [heap EXCEPT ![job].mu = Nobody,
                                        ![job].abandoned = heap[job].done]
                /\ \/ heap[job].done /\ Returns(3, Nobody)
                   \/ /\ ~heap[job].done /\ pc' = "expire"
                      /\ UNCHANGED <<job, host, left, got, result>>
                /\ UNCHANGED worker

Abandon == /\ pc = "abandon"
           /\ heap' = [heap EXCEPT ![job].mu = Nobody,
                                   ![job].abandoned = TRUE]
           /\ \/ /\ heap[job].done
                 /\ pc' = "drop"
                 /\ UNCHANGED <<job, host, left, got, result>>
              \/ ~heap[job].done /\ Returns(3, Nobody)
           /\ UNCHANGED worker

\* pthread_mutex_destroy and free, after an answer or a late one.
Release == /\ pc \in {"release", "drop"}
           /\ heap' = [heap EXCEPT ![job] = Freed]
           /\ IF pc = "drop" THEN Returns(3, Nobody)
              ELSE IF got.ok THEN Returns(0, got.ip)
              ELSE Returns(8, Nobody)
           /\ UNCHANGED worker

CallerStep == CallerLocks \/ Poll \/ Clock \/ Abandon \/ Release

-----------------------------------------------------------------------------
\* getaddrinfo returns, if it ever does; on success the thread writes the
\* address into the job, without the lock.
Resolve(t) ==
  /\ worker[t].pc = "resolve"
  /\ \E ok \in BOOLEAN :
       /\ worker' = [worker EXCEPT ![t].pc = "lock", ![t].ok = ok]
       /\ heap' = IF ok THEN [heap EXCEPT ![worker[t].job].ip =
                                            heap[worker[t].job].host]
                  ELSE heap
  /\ UNCHANGED callerVars

WorkerLocks(t) == /\ worker[t].pc = "lock"
                  /\ heap[worker[t].job].mu = Nobody
                  /\ heap' = [heap EXCEPT ![worker[t].job].mu = t]
                  /\ worker' = [worker EXCEPT ![t].pc = "publish"]
                  /\ UNCHANGED callerVars

\* Mutant: the thread does not re-check the abandoned flag.
PublishBlind(t) ==
  /\ worker[t].pc = "publish"
  /\ heap' = [heap EXCEPT ![worker[t].job].ok = worker[t].ok,
                          ![worker[t].job].done = TRUE,
                          ![worker[t].job].mu = Nobody]
  /\ worker' = [worker EXCEPT ![t].pc = "leave"]
  /\ UNCHANGED callerVars

\* Mutant: the thread does not look at what getaddrinfo returned.
PublishUnchecked(t) ==
  /\ worker[t].pc = "publish"
  /\ heap' = [heap EXCEPT ![worker[t].job].ok = TRUE,
                          ![worker[t].job].done = TRUE,
                          ![worker[t].job].mu = Nobody]
  /\ worker' = [worker EXCEPT ![t].pc = "leave",
                              ![t].abandoned = heap[worker[t].job].abandoned]
  /\ UNCHANGED callerVars

Publish(t) ==
  /\ worker[t].pc = "publish"
  /\ heap' = [heap EXCEPT ![worker[t].job].ok = worker[t].ok,
                          ![worker[t].job].done = TRUE,
                          ![worker[t].job].mu = Nobody]
  /\ worker' = [worker EXCEPT ![t].pc = "leave",
                              ![t].abandoned = heap[worker[t].job].abandoned]
  /\ UNCHANGED callerVars

Leave(t) == /\ worker[t].pc = "leave"
            /\ heap' = IF worker[t].abandoned
                       THEN [heap EXCEPT ![worker[t].job] = Freed] ELSE heap
            /\ worker' = [worker EXCEPT ![t] = Gone]
            /\ UNCHANGED callerVars

WorkerStep(t) == WorkerLocks(t) \/ Publish(t) \/ Leave(t)

Next == \/ \E h \in Host : CallPlain(h)
        \/ CallFails
        \/ \E h \in Host, a \in Address, t \in Thread : Call(h, a, t)
        \/ CallerStep
        \/ \E t \in Thread : Resolve(t) \/ WorkerStep(t)

\* Both threads are scheduled; getaddrinfo may take for ever.
Fairness == WF_vars(CallerStep) /\ \A t \in Thread : WF_vars(WorkerStep(t))

Spec == Init /\ [][Next]_vars /\ Fairness

-----------------------------------------------------------------------------
TypeOK ==
  /\ pc \in {"idle", "lock", "poll", "clock", "expire", "abandon", "drop",
             "release"}
  /\ job \in Address \cup {Nobody} /\ host \in Host \cup {Nobody}
  /\ left \in 0 .. Deadline /\ got \in [ok : BOOLEAN, ip : Host \cup {Nobody}]
  /\ result \in [err : {0, 2, 3, 8}, ip : Host \cup {Nobody}]
  /\ worker \in [Thread -> [pc : {"gone", "resolve", "lock", "publish", "leave"},
                            job : Address \cup {Nobody}, ok : BOOLEAN,
                            abandoned : BOOLEAN]]
  /\ heap \in [Address -> Job \cup {Freed}]

\* The one who will free the job at a: the caller until it has returned ...
CallerFrees(a) == pc # "idle" /\ job = a

\* ... and a thread once its job has been abandoned without an answer.
WorkerFrees(t, a) ==
  /\ worker[t].job = a
  /\ \/ /\ worker[t].pc \in {"resolve", "lock", "publish"}
        /\ heap[a] # Freed /\ heap[a].abandoned
     \/ worker[t].pc = "leave" /\ worker[t].abandoned

\* A job that is allocated has exactly one party that will free it, so none
\* leaks and none is freed twice; an address that is free has none, so that
\* nobody frees what calloc has since given to another call.
OneOwner ==
  \A a \in Address :
    /\ Live(a) <=> CallerFrees(a) \/ \E t \in Thread : WorkerFrees(t, a)
    /\ \A t \in Thread :
         WorkerFrees(t, a) => /\ ~CallerFrees(a)
                              /\ \A u \in Thread : WorkerFrees(u, a) => u = t

\* A thread that will still read or write its job finds its own there, also
\* after the caller has given up and other calls have allocated theirs; and
\* a mutex is held by one who will unlock it, so never destroyed while held.
JobIsOwn ==
  /\ \A t \in Thread :
       worker[t].pc \in {"resolve", "lock", "publish"} =>
         /\ Live(worker[t].job)
         /\ heap[worker[t].job].made_for = t
  /\ \A a \in Address :
       Live(a) =>
         /\ heap[a].mu = "caller" <=> pc \in {"poll", "abandon"} /\ job = a
         /\ \A t \in Thread :
              heap[a].mu = t <=> worker[t].pc = "publish" /\ worker[t].job = a

\* What a call returns without an error is the address of the host it was
\* asked for: never that of an earlier lookup, and never the empty buffer.
AnswerIsOwn == [][result' # result /\ result'.err = 0 /\ host # Nobody
                    => result'.ip = host]_vars

\* A call with a deadline returns, however long getaddrinfo takes.
CallReturns == pc # "idle" ~> pc = "idle"

\* A job whose lookup has ended is freed, abandoned or not.
JobsAreFreed ==
  \A a \in Address :
    (/\ Live(a)
     /\ \A t \in Thread : ~(worker[t].pc = "resolve" /\ worker[t].job = a))
      ~> ~Live(a)
=============================================================================
