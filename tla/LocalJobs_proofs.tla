---------------------------- MODULE LocalJobs_proofs ----------------------------
(***************************************************************************)
(* Proofs about LocalJobs, for any runs, callbacks and failures: one flow  *)
(* holds the job at a time, and a callback of an older run changes nothing.*)
(* As long as nothing fails, callbacks do not undo each other, and a flow  *)
(* that ends with nothing under way leaves a closed record.  The flows     *)
(* implement the lifecycle of runs.                                        *)
(***************************************************************************)
EXTENDS LocalJobs, TLAPS

-----------------------------------------------------------------------------
(* The inductive invariant *)

\* The steps of a flow that has a write of its own under way.
Saving == {"starting", "preparing", "saving", "closing"}

\* The writes of the queue: the first alone is under way, only callbacks read
\* before they write, and a callback whose write waits is unanswered.
QueueShape ==
  \A i \in 1..Len(lock) :
    /\ lock[i].op = "filling" => i = 1
    /\ lock[i].op = "read" => lock[i].by[1] = "post"
    /\ lock[i].by[1] = "post" => lock[i].op # "put" /\ post[lock[i].by[2]].pc = "queued"

\* A flow or a callback waits for one write at a time.
WaitsOnce ==
  \A i, j \in 1..Len(lock) :
    lock[i].by[1] \in {"flow", "post"} /\ lock[i].by = lock[j].by => i = j

\* A flow whose write failed waits for no other.
ThrownWaitNot == \A r \in Runs : <<"flow", r>> \in thrown => ~Waits(<<"flow", r>>)

\* A flow that waits for a write, or has one that failed, is live.
WritersAreLive ==
  \A r \in Runs :
    Waits(<<"flow", r>>) \/ <<"flow", r>> \in thrown => flow[r].pc \in Saving

\* A callback under way has found the session of a run.
PostsHaveRuns == \A p \in Posts : post[p].pc \in InFlight => post[p].run \in Runs

\* What a callback is filling the file with is what it read, or the record of
\* its own run.
FillsFairly ==
  lock # <<>> /\ lock[1].op = "filling" /\ lock[1].by[1] = "post" =>
    \/ lock[1].rec \in {NoRecord, file}
    \/ file.run = post[lock[1].by[2]].run /\ lock[1].rec.run = file.run

QueueInv == QueueShape /\ WaitsOnce /\ ThrownWaitNot /\ FillsFairly

IInv == LocalTypeOK /\ QueueInv /\ WritersAreLive /\ PostsHaveRuns

-----------------------------------------------------------------------------
(* Records and queues *)

LEMMA RecordsTyped ==
  /\ NoRecord \in Record
  /\ \A r \in Runs, s \in Status : RecordOf(r, s) \in Record
BY DEF NoRecord, Record, RecordOf, Status

LEMMA FailsTyped == LocalTypeOK /\ Fails => failures' \in 0..MaxFailures
BY LocalConstants DEF LocalTypeOK, Fails

LEMMA ReadsTyped == LocalTypeOK => ReadJob \in Record
BY RecordsTyped DEF LocalTypeOK, ReadJob

\* A write at the end of the queue.
LEMMA Grows ==
  ASSUME lock \in Seq(Task), NEW w \in Writers, NEW op \in {"read", "put"}, NEW rec \in Record,
         Enqueue(w, op, rec)
  PROVE  /\ lock' \in Seq(Task)
         /\ Len(lock') = Len(lock) + 1
         /\ \A i \in 1..Len(lock) : lock'[i] = lock[i]
         /\ lock'[Len(lock) + 1] = [by |-> w, op |-> op, rec |-> rec]
         /\ \A v \in Writers : Waits(v)' <=> Waits(v) \/ v = w
<1> DEFINE t == [by |-> w, op |-> op, rec |-> rec]
<1>1. t \in Task
  BY DEF Task
<1>2. /\ lock' = Append(lock, t)
      /\ lock' \in Seq(Task)
      /\ Len(lock') = Len(lock) + 1
      /\ \A i \in 1..Len(lock) : lock'[i] = lock[i]
      /\ lock'[Len(lock) + 1] = t
  BY <1>1 DEF Enqueue
<1>3. DOMAIN lock = 1..Len(lock) /\ DOMAIN lock' = 1..Len(lock) + 1 /\ Len(lock) \in Nat
  BY <1>2
<1>4. ASSUME NEW v \in Writers PROVE Waits(v)' <=> Waits(v) \/ v = w
  <2>1. Waits(v)' => Waits(v) \/ v = w
    BY <1>2, <1>3 DEF Waits
  <2>2. Waits(v) => Waits(v)'
    BY <1>2, <1>3 DEF Waits
  <2>3. v = w => Waits(v)'
    BY <1>2, <1>3 DEF Waits
  <2> QED BY <2>1, <2>2, <2>3
<1> QED BY <1>2, <1>4

\* The first write leaves the queue.
LEMMA Shrinks ==
  ASSUME lock \in Seq(Task), lock # <<>>, lock' = Tail(lock)
  PROVE  /\ lock' \in Seq(Task)
         /\ Len(lock) \in Nat \ {0} /\ Len(lock') = Len(lock) - 1
         /\ \A i \in 1..Len(lock') : lock'[i] = lock[i + 1]
         /\ \A v : Waits(v)' => \E i \in 2..Len(lock) : lock[i].by = v
         /\ Head(lock) = lock[1]
<1>1. /\ lock' \in Seq(Task)
      /\ Len(lock) \in Nat \ {0} /\ Len(lock') = Len(lock) - 1
      /\ \A i \in 1..Len(lock') : lock'[i] = lock[i + 1]
      /\ Head(lock) = lock[1]
  OBVIOUS
<1>2. DOMAIN lock' = 1..Len(lock) - 1
  BY <1>1
<1>3. ASSUME NEW v, Waits(v)' PROVE \E i \in 2..Len(lock) : lock[i].by = v
  <2>1. PICK i \in 1..Len(lock) - 1 : lock'[i].by = v
    BY <1>2, <1>3 DEF Waits
  <2>2. lock[i + 1].by = v /\ i + 1 \in 2..Len(lock)
    BY <1>1, <2>1
  <2> QED BY <2>2
<1> QED BY <1>1, <1>3

-----------------------------------------------------------------------------
(* Steps that leave file and callbacks alone *)

\* A step without a write.
LEMMA QueueRests ==
  ASSUME IInv, UNCHANGED <<file, lock, post>>, thrown' \subseteq thrown
  PROVE  QueueInv' /\ PostsHaveRuns'
<1>1. \A v : Waits(v)' <=> Waits(v)
  BY DEF Waits
<1>2. QueueShape' /\ WaitsOnce' /\ FillsFairly' /\ PostsHaveRuns'
  BY DEF IInv, QueueInv, QueueShape, WaitsOnce, FillsFairly, PostsHaveRuns
<1>3. ThrownWaitNot'
  BY <1>1 DEF IInv, QueueInv, ThrownWaitNot
<1> QED BY <1>2, <1>3 DEF QueueInv

\* A write of a whole record, by a flow, a progress report or a failure handler.
LEMMA QueueTakesPut ==
  ASSUME IInv, UNCHANGED <<file, post>>, thrown' \subseteq thrown,
         NEW k \in {"flow", "progress", "handler"}, NEW r \in Runs, NEW rec \in Record,
         WriteJob(<<k, r>>, rec),
         k = "flow" => ~Waits(<<"flow", r>>) /\ <<"flow", r>> \notin thrown'
  PROVE  /\ lock' \in Seq(Task)
         /\ QueueInv' /\ PostsHaveRuns'
         /\ \A v \in Writers : Waits(v)' <=> Waits(v) \/ v = <<k, r>>
<1> DEFINE w == <<k, r>>
<1>1. w \in Writers /\ w[1] = k /\ w[2] = r
  BY DEF Writers
<1>2. lock \in Seq(Task)
  BY DEF IInv, LocalTypeOK
<1> HIDE DEF w
<1>3. Enqueue(w, "put", rec)
  BY DEF WriteJob, w
<1>4. /\ lock' \in Seq(Task)
      /\ Len(lock') = Len(lock) + 1
      /\ \A i \in 1..Len(lock) : lock'[i] = lock[i]
      /\ lock'[Len(lock) + 1] = [by |-> w, op |-> "put", rec |-> rec]
      /\ \A v \in Writers : Waits(v)' <=> Waits(v) \/ v = w
  BY <1>1, <1>2, <1>3, Grows
<1>5. Len(lock) \in Nat /\ DOMAIN lock = 1..Len(lock)
  BY <1>2
<1>6. \A i \in 1..Len(lock') : i \in 1..Len(lock) \/ i = Len(lock) + 1
  BY <1>4, <1>5
<1>7. QueueShape'
  BY <1>1, <1>4, <1>5, <1>6 DEF IInv, QueueInv, QueueShape
<1>8. k = "flow" => \A i \in 1..Len(lock) : lock[i].by # w
  BY <1>5 DEF Waits, w
<1>9. WaitsOnce'
  <2> SUFFICES ASSUME NEW i \in 1..Len(lock'), NEW j \in 1..Len(lock'),
                      lock'[i].by[1] \in {"flow", "post"}, lock'[i].by = lock'[j].by
               PROVE  i = j
    BY DEF WaitsOnce
  <2>1. CASE i \in 1..Len(lock) /\ j \in 1..Len(lock)
    BY <1>4, <2>1 DEF IInv, QueueInv, WaitsOnce
  <2>2. CASE i = Len(lock) + 1 /\ j \in 1..Len(lock)
    BY <1>1, <1>4, <1>8, <2>2
  <2>3. CASE i \in 1..Len(lock) /\ j = Len(lock) + 1
    BY <1>1, <1>4, <1>8, <2>3
  <2> QED BY <1>6, <2>1, <2>2, <2>3
<1>10. ThrownWaitNot'
  <2> SUFFICES ASSUME NEW s \in Runs, <<"flow", s>> \in thrown' PROVE ~Waits(<<"flow", s>>)'
    BY DEF ThrownWaitNot
  <2>1. <<"flow", s>> \in Writers /\ ~Waits(<<"flow", s>>)
    BY DEF Writers, IInv, QueueInv, ThrownWaitNot
  <2>2. <<"flow", s>> # w
    BY DEF w
  <2> QED BY <1>4, <2>1, <2>2
<1>11. FillsFairly' /\ PostsHaveRuns'
  <2>1. PostsHaveRuns'
    BY DEF IInv, PostsHaveRuns
  <2>2. ASSUME lock # <<>> PROVE lock'[1] = lock[1]
    BY <1>2, <1>4, <2>2
  <2>3. ASSUME lock = <<>> PROVE lock'[1].op = "put"
    BY <1>4, <2>3
  <2> QED BY <2>1, <2>2, <2>3 DEF IInv, QueueInv, FillsFairly
<1> QED BY <1>4, <1>7, <1>9, <1>10, <1>11 DEF QueueInv, w

-----------------------------------------------------------------------------
(* The queue of writes *)

LEMMA FillsEntry ==
  ASSUME NEW t \in Task, NEW rec
  PROVE  [[t EXCEPT !.op = "filling"] EXCEPT !.rec = rec]
           = [by |-> t.by, op |-> "filling", rec |-> rec]
<1>1. PICK b \in Writers, o \in {"read", "put", "filling"}, c \in Record :
        t = [by |-> b, op |-> o, rec |-> c]
  BY DEF Task
<1>2. [t EXCEPT !.op = "filling"] = [by |-> b, op |-> "filling", rec |-> c]
  BY <1>1
<1>3. [[by |-> b, op |-> "filling", rec |-> c] EXCEPT !.rec = rec]
        = [by |-> b, op |-> "filling", rec |-> rec]
  OBVIOUS
<1>4. t.by = b
  BY <1>1
<1> QED BY <1>2, <1>3, <1>4

LEMMA TakeTurnStep == IInv /\ TakeTurn => IInv'
<1> SUFFICES ASSUME IInv, TakeTurn PROVE IInv'
  OBVIOUS
<1>1. lock \in Seq(Task) /\ lock # <<>> /\ Len(lock) \in Nat \ {0} /\ Head(lock) = lock[1]
      /\ DOMAIN lock = 1..Len(lock) /\ lock[1] \in Task
  BY DEF IInv, LocalTypeOK, TakeTurn
<1> DEFINE p == lock[1].by[2]
           new == IF lock[1].op = "read" THEN Updated(p, ReadJob) ELSE lock[1].rec
<1>2. lock[1].op = "read" => p \in Posts /\ lock[1].by = <<"post", p>>
  BY <1>1 DEF IInv, QueueInv, QueueShape, Task, Writers
<1>3. new \in Record
  <2>1. lock[1].rec \in Record
    BY <1>1 DEF Task
  <2>2. ASSUME p \in Posts PROVE Updated(p, ReadJob) \in Record
    <3>1. ReadJob \in Record /\ post[p].says \in Status
      BY <2>2, ReadsTyped DEF IInv, LocalTypeOK, Post, Done, Status
    <3> QED BY <2>2, <3>1 DEF Updated, Record
  <2> QED BY <1>2, <2>1, <2>2
<1>4. /\ lock' = [lock EXCEPT ![1] = [by |-> lock[1].by, op |-> "filling", rec |-> new]]
      /\ UNCHANGED <<file, thrown, running, session, flow, post, handler, failures>>
      /\ torn' = TRUE
  <2>1. [[lock[1] EXCEPT !.op = "filling"] EXCEPT !.rec = new]
          = [by |-> lock[1].by, op |-> "filling", rec |-> new]
    BY <1>1, FillsEntry
  <2>2. lock' = [lock EXCEPT ![1] = [[lock[1] EXCEPT !.op = "filling"] EXCEPT !.rec = new]]
    BY <1>1 DEF TakeTurn
  <2> QED BY <2>1, <2>2 DEF TakeTurn
<1> HIDE DEF new
<1>5. [by |-> lock[1].by, op |-> "filling", rec |-> new] \in Task
  BY <1>1, <1>3 DEF Task
<1>6. /\ lock' \in Seq(Task) /\ Len(lock') = Len(lock) /\ DOMAIN lock' = 1..Len(lock)
      /\ lock'[1] = [by |-> lock[1].by, op |-> "filling", rec |-> new]
      /\ \A i \in 2..Len(lock) : lock'[i] = lock[i]
  BY <1>1, <1>4, <1>5
<1>7. \A i \in 1..Len(lock) : lock'[i].by = lock[i].by
  BY <1>1, <1>6
<1>8. \A v : Waits(v)' <=> Waits(v)
  BY <1>1, <1>6, <1>7 DEF Waits
<1>9. LocalTypeOK'
  BY <1>4, <1>6 DEF IInv, LocalTypeOK
<1>10. WritersAreLive' /\ ThrownWaitNot' /\ PostsHaveRuns'
  BY <1>4, <1>8 DEF IInv, QueueInv, WritersAreLive, ThrownWaitNot, PostsHaveRuns
<1>11. WaitsOnce'
  BY <1>6, <1>7 DEF IInv, QueueInv, WaitsOnce
<1>12. QueueShape'
  BY <1>4, <1>6, <1>7 DEF IInv, QueueInv, QueueShape
<1>13. FillsFairly'
  <2> SUFFICES ASSUME lock[1].by[1] = "post"
               PROVE  new \in {NoRecord, file} \/ (file.run = post[p].run /\ new.run = file.run)
    BY <1>4, <1>6 DEF FillsFairly
  <2>1. lock[1].op = "read"
    BY <1>1 DEF IInv, QueueInv, QueueShape, TakeTurn
  <2>2. new = Updated(p, ReadJob) /\ p \in Posts
    BY <1>2, <2>1 DEF new
  <2>3. post[p].run \in Runs
    BY <1>1, <2>1, <2>2 DEF IInv, QueueInv, QueueShape, PostsHaveRuns, InFlight
  <2>4. CASE torn
    BY <2>2, <2>3, <2>4, LocalConstants DEF Updated, ReadJob, NoRecord
  <2>5. CASE ~torn
    <3>1. file \in Record /\ new = Updated(p, file)
      BY <2>2, <2>5 DEF ReadJob, IInv, LocalTypeOK
    <3>2. CASE file.run # post[p].run
      BY <3>1, <3>2 DEF Updated
    <3>3. CASE file.run = post[p].run
      BY <3>1, <3>3 DEF Updated, Record
    <3> QED BY <3>2, <3>3
  <2> QED BY <2>4, <2>5
<1> QED BY <1>9, <1>10, <1>11, <1>12, <1>13 DEF IInv, QueueInv

\* The first write is done or has failed, and whoever waited for it learns of it.
LEMMA HeadLeaves ==
  ASSUME IInv, lock # <<>>, lock' = Tail(lock), NEW answer \in {"acked", "lost"},
         post' = IF Head(lock).by[1] = "post"
                 THEN [post EXCEPT ![Head(lock).by[2]] = Settled(@, answer)]
                 ELSE post,
         thrown' \in {thrown, thrown \cup {Head(lock).by}},
         Head(lock).by[1] = "post" => thrown' = thrown,
         UNCHANGED flow
  PROVE  /\ lock' \in Seq(Task) /\ post' \in [Posts -> Post] /\ thrown' \subseteq Writers
         /\ QueueInv' /\ WritersAreLive' /\ PostsHaveRuns'
<1> DEFINE h == lock[1]
           p == h.by[2]
<1>1. /\ lock \in Seq(Task) /\ post \in [Posts -> Post] /\ thrown \subseteq Writers
  BY DEF IInv, LocalTypeOK
<1>2. /\ lock' \in Seq(Task)
      /\ Len(lock) \in Nat \ {0} /\ Len(lock') = Len(lock) - 1
      /\ \A i \in 1..Len(lock') : lock'[i] = lock[i + 1]
      /\ \A v : Waits(v)' => \E i \in 2..Len(lock) : lock[i].by = v
      /\ Head(lock) = h
  BY <1>1, Shrinks
<1>3. DOMAIN lock = 1..Len(lock) /\ h \in Task /\ h.by \in Writers
  <2>1. DOMAIN lock = 1..Len(lock) /\ h \in Task
    BY <1>1, <1>2
  <2> QED BY <2>1 DEF Task
<1>4. h.by[1] = "post" => p \in Posts /\ h.by = <<"post", p>>
  BY <1>3 DEF Writers
<1>5. \A v : Waits(v)' => Waits(v)
  BY <1>2, <1>3 DEF Waits
<1>6. post' \in [Posts -> Post] /\ PostsHaveRuns'
  <2>1. CASE h.by[1] # "post"
    BY <1>1, <1>2, <2>1 DEF IInv, PostsHaveRuns
  <2>2. CASE h.by[1] = "post"
    <3>1. post' = [post EXCEPT ![p] = Settled(post[p], answer)] /\ p \in Posts
      BY <1>1, <1>2, <1>4, <2>2
    <3>2. /\ Settled(post[p], answer) \in Post
          /\ Settled(post[p], answer).pc \notin InFlight
      BY <1>1, <3>1 DEF Settled, Post, InFlight
    <3> QED BY <1>1, <3>1, <3>2 DEF IInv, PostsHaveRuns
  <2> QED BY <2>1, <2>2
<1>7. QueueShape'
  <2> SUFFICES ASSUME NEW i \in 1..Len(lock')
               PROVE  /\ lock'[i].op # "filling"
                      /\ lock'[i].op = "read" => lock'[i].by[1] = "post"
                      /\ lock'[i].by[1] = "post" =>
                           lock'[i].op # "put" /\ post'[lock'[i].by[2]].pc = "queued"
    BY DEF QueueShape
  <2>1. i + 1 \in 2..Len(lock) /\ lock'[i] = lock[i + 1] /\ lock[i + 1] \in Task
    BY <1>1, <1>2
  <2>2. /\ lock[i + 1].op # "filling"
        /\ lock[i + 1].op = "read" => lock[i + 1].by[1] = "post"
        /\ lock[i + 1].by[1] = "post" =>
             lock[i + 1].op # "put" /\ post[lock[i + 1].by[2]].pc = "queued"
    BY <1>2, <2>1 DEF IInv, QueueInv, QueueShape
  <2>3. ASSUME lock[i + 1].by[1] = "post"
        PROVE  post'[lock[i + 1].by[2]] = post[lock[i + 1].by[2]]
    <3> DEFINE q == lock[i + 1].by[2]
    <3>1. q \in Posts /\ lock[i + 1].by = <<"post", q>>
      BY <2>1, <2>3 DEF Task, Writers
    <3>2. lock[i + 1].by # h.by
      BY <1>2, <2>1, <2>3 DEF IInv, QueueInv, WaitsOnce
    <3>3. h.by[1] = "post" => q # p
      BY <1>4, <3>1, <3>2
    <3> QED BY <1>1, <1>2, <1>4, <3>1, <3>3
  <2> QED BY <2>1, <2>2, <2>3
<1>8. WaitsOnce'
  <2> SUFFICES ASSUME NEW i \in 1..Len(lock'), NEW j \in 1..Len(lock'),
                      lock'[i].by[1] \in {"flow", "post"}, lock'[i].by = lock'[j].by
               PROVE  i = j
    BY DEF WaitsOnce
  <2>1. i + 1 \in 1..Len(lock) /\ j + 1 \in 1..Len(lock)
    BY <1>2
  <2>2. i + 1 = j + 1
    BY <1>2, <2>1 DEF IInv, QueueInv, WaitsOnce
  <2> QED BY <2>2
<1>9. ThrownWaitNot'
  <2> SUFFICES ASSUME NEW r \in Runs, <<"flow", r>> \in thrown', Waits(<<"flow", r>>)'
               PROVE  FALSE
    BY DEF ThrownWaitNot
  <2>1. Waits(<<"flow", r>>)
    BY <1>5
  <2>2. <<"flow", r>> = h.by
    BY <1>2, <2>1 DEF IInv, QueueInv, ThrownWaitNot
  <2>3. PICK i \in 2..Len(lock) : lock[i].by = <<"flow", r>>
    BY <1>2
  <2>4. i = 1
    BY <1>2, <2>2, <2>3 DEF IInv, QueueInv, WaitsOnce
  <2> QED BY <2>3, <2>4
<1>10. FillsFairly'
  <2>1. ASSUME lock' # <<>> PROVE lock'[1].op # "filling"
    <3>1. 1 \in 1..Len(lock') /\ 2 \in 1..Len(lock) /\ lock'[1] = lock[2]
      BY <1>2, <2>1
    <3> QED BY <3>1 DEF IInv, QueueInv, QueueShape
  <2> QED BY <2>1 DEF FillsFairly
<1>11. WritersAreLive'
  <2>1. Waits(h.by)
    BY <1>2, <1>3 DEF Waits
  <2> QED BY <1>2, <1>5, <2>1 DEF IInv, WritersAreLive
<1>12. thrown' \subseteq Writers
  BY <1>1, <1>2, <1>3
<1> QED BY <1>2, <1>6, <1>7, <1>8, <1>9, <1>10, <1>11, <1>12 DEF QueueInv

LEMMA FillStep == IInv /\ Fill => IInv'
<1> SUFFICES ASSUME IInv, Fill PROVE IInv'
  OBVIOUS
<1>1. /\ lock' \in Seq(Task) /\ post' \in [Posts -> Post] /\ thrown' \subseteq Writers
      /\ QueueInv' /\ WritersAreLive' /\ PostsHaveRuns'
  BY HeadLeaves DEF Fill
<1>2. file' \in Record
  <2>1. Head(lock) \in Task
    BY DEF IInv, LocalTypeOK, Fill
  <2> QED BY <2>1 DEF Fill, Task
<1>3. LocalTypeOK'
  BY <1>1, <1>2 DEF IInv, LocalTypeOK, Fill
<1> QED BY <1>1, <1>3 DEF IInv

LEMMA WriteFailsStep == IInv /\ WriteFails => IInv'
<1> SUFFICES ASSUME IInv, WriteFails PROVE IInv'
  OBVIOUS
<1>1. /\ lock' \in Seq(Task) /\ post' \in [Posts -> Post] /\ thrown' \subseteq Writers
      /\ QueueInv' /\ WritersAreLive' /\ PostsHaveRuns'
  <2>1. CASE Head(lock).by[1] = "post"
    BY <2>1, HeadLeaves DEF WriteFails, ReleaseLock
  <2>2. CASE Head(lock).by[1] # "post"
    BY <2>2, HeadLeaves DEF WriteFails, ReleaseLock
  <2> QED BY <2>1, <2>2
<1>2. LocalTypeOK'
  BY <1>1, FailsTyped DEF IInv, LocalTypeOK, WriteFails
<1> QED BY <1>1, <1>2 DEF IInv

-----------------------------------------------------------------------------
(* Flows *)

\* A step of one run that neither takes the job nor gives it back.
LEMMA RunGoesOn ==
  ASSUME IInv, NEW r \in Runs,
         flow' \in [Runs -> Flow], \A s \in Runs \ {r} : flow'[s] = flow[s],
         flow'[r].pc \in Live <=> flow[r].pc \in Live,
         UNCHANGED <<file, torn, running, session, post>>,
         handler' \in [Runs -> {"none", "reading", "done"}],
         failures' \in 0..MaxFailures, thrown' \subseteq thrown,
         \/ UNCHANGED lock
         \/ \E k \in {"flow", "progress", "handler"}, rec \in Record :
              /\ WriteJob(<<k, r>>, rec)
              /\ k = "flow" => /\ ~Waits(<<"flow", r>>) /\ <<"flow", r>> \notin thrown'
                               /\ flow'[r].pc \in Saving,
         Waits(<<"flow", r>>) \/ <<"flow", r>> \in thrown' => flow'[r].pc \in Saving
  PROVE  IInv'
<1>1. /\ lock' \in Seq(Task) /\ QueueInv' /\ PostsHaveRuns'
      /\ \A s \in Runs : /\ s # r /\ Waits(<<"flow", s>>)' => Waits(<<"flow", s>>)
                         /\ Waits(<<"flow", r>>)' =>
                              Waits(<<"flow", r>>) \/ flow'[r].pc \in Saving
  <2>1. CASE UNCHANGED lock
    <3>1. \A v : Waits(v)' <=> Waits(v)
      BY <2>1 DEF Waits
    <3> QED BY <2>1, <3>1, QueueRests DEF IInv, LocalTypeOK
  <2>2. CASE lock' # lock
    <3>0. PICK k \in {"flow", "progress", "handler"}, rec \in Record :
            /\ WriteJob(<<k, r>>, rec)
            /\ k = "flow" => /\ ~Waits(<<"flow", r>>) /\ <<"flow", r>> \notin thrown'
                             /\ flow'[r].pc \in Saving
      BY <2>2
    <3>1. /\ lock' \in Seq(Task)
          /\ QueueInv' /\ PostsHaveRuns'
          /\ \A v \in Writers : Waits(v)' <=> Waits(v) \/ v = <<k, r>>
      BY <3>0, QueueTakesPut
    <3>2. \A s \in Runs : <<"flow", s>> \in Writers /\ (<<"flow", s>> = <<k, r>> => s = r /\ k = "flow")
      BY DEF Writers
    <3> QED BY <3>0, <3>1, <3>2
  <2> QED BY <2>1, <2>2
<1>2. LocalTypeOK'
  <2>1. \A s \in Runs : flow'[s].pc \in Live <=> running = s
    BY DEF IInv, LocalTypeOK
  <2>2. thrown' \subseteq Writers
    BY DEF IInv, LocalTypeOK
  <2> QED BY <1>1, <2>1, <2>2 DEF IInv, LocalTypeOK
<1>3. WritersAreLive'
  <2> SUFFICES ASSUME NEW s \in Runs, Waits(<<"flow", s>>)' \/ <<"flow", s>> \in thrown'
               PROVE  flow'[s].pc \in Saving
    BY DEF WritersAreLive
  <2>1. CASE s = r
    BY <1>1, <2>1
  <2>2. CASE s # r
    BY <1>1, <2>2 DEF IInv, WritersAreLive
  <2> QED BY <2>1, <2>2
<1> QED BY <1>1, <1>2, <1>3 DEF IInv

\* The end of a flow.
LEMMA RunIsOver ==
  ASSUME IInv, NEW r \in Runs, NEW threw \in BOOLEAN, flow[r].pc \in Live, End(r, threw),
         UNCHANGED <<file, torn, lock, post>>, failures' \in 0..MaxFailures,
         thrown' \subseteq thrown, ~Waits(<<"flow", r>>), <<"flow", r>> \notin thrown'
  PROVE  IInv'
<1>1. /\ flow' \in [Runs -> Flow] /\ flow'[r].pc = "over"
      /\ \A s \in Runs \ {r} : flow'[s] = flow[s]
  BY DEF IInv, LocalTypeOK, End, Flow
<1>2. QueueInv' /\ PostsHaveRuns'
  BY QueueRests
<1>3. running = r /\ running' = NoRun /\ session' = NoRun /\ NoRun \notin Runs
  BY LocalConstants DEF IInv, LocalTypeOK, End
<1>4. \A s \in Runs : flow'[s].pc \in Live <=> running' = s
  BY <1>1, <1>3 DEF IInv, LocalTypeOK, Live
<1>5. handler' \in [Runs -> {"none", "reading", "done"}]
  BY DEF IInv, LocalTypeOK, End
<1>6. LocalTypeOK'
  BY <1>1, <1>3, <1>4, <1>5 DEF IInv, LocalTypeOK
<1>7. \A v : Waits(v)' <=> Waits(v)
  BY DEF Waits
<1>8. WritersAreLive'
  BY <1>1, <1>7 DEF IInv, WritersAreLive
<1> QED BY <1>2, <1>6, <1>8 DEF IInv

\* A change of one field of one flow; the rest stays.
LEMMA SetsPc ==
  ASSUME NEW F \in [Runs -> Flow], NEW r \in Runs, NEW v \in {"idle", "over"} \cup Live
  PROVE  /\ [F EXCEPT ![r].pc = v] \in [Runs -> Flow]
         /\ [F EXCEPT ![r].pc = v][r].pc = v
         /\ \A s \in Runs \ {r} : [F EXCEPT ![r].pc = v][s] = F[s]
BY DEF Flow

LEMMA SetsKind ==
  ASSUME NEW F \in [Runs -> Flow], NEW r \in Runs, NEW v \in Kinds
  PROVE  /\ [F EXCEPT ![r].kind = v] \in [Runs -> Flow]
         /\ [F EXCEPT ![r].kind = v][r].pc = F[r].pc
         /\ \A s \in Runs \ {r} : [F EXCEPT ![r].kind = v][s] = F[s]
BY DEF Flow

LEMMA SetsLaunched ==
  ASSUME NEW F \in [Runs -> Flow], NEW r \in Runs, NEW v \in BOOLEAN
  PROVE  /\ [F EXCEPT ![r].launched = v] \in [Runs -> Flow]
         /\ [F EXCEPT ![r].launched = v][r].pc = F[r].pc
         /\ \A s \in Runs \ {r} : [F EXCEPT ![r].launched = v][s] = F[s]
BY DEF Flow

LEMMA SetsMem ==
  ASSUME NEW F \in [Runs -> Flow], NEW r \in Runs, NEW v \in Status
  PROVE  /\ [F EXCEPT ![r].mem = v] \in [Runs -> Flow]
         /\ [F EXCEPT ![r].mem = v][r].pc = F[r].pc
         /\ \A s \in Runs \ {r} : [F EXCEPT ![r].mem = v][s] = F[s]
BY DEF Flow

LEMMA SetsVerdict ==
  ASSUME NEW F \in [Runs -> Flow], NEW r \in Runs, NEW v \in {"none", "succeeded", "failed", "missing"}
  PROVE  /\ [F EXCEPT ![r].verdict = v] \in [Runs -> Flow]
         /\ [F EXCEPT ![r].verdict = v][r].pc = F[r].pc
         /\ \A s \in Runs \ {r} : [F EXCEPT ![r].verdict = v][s] = F[s]
BY DEF Flow

LEMMA SetsDue ==
  ASSUME NEW F \in [Runs -> Flow], NEW r \in Runs, NEW v \in 0..MaxProgress
  PROVE  /\ [F EXCEPT ![r].due = v] \in [Runs -> Flow]
         /\ [F EXCEPT ![r].due = v][r].pc = F[r].pc
         /\ \A s \in Runs \ {r} : [F EXCEPT ![r].due = v][s] = F[s]
BY DEF Flow

LEMMA SetsPosted ==
  ASSUME NEW F \in [Runs -> Flow], NEW r \in Runs, NEW v \in {"none"} \cup Status
  PROVE  /\ [F EXCEPT ![r].posted = v] \in [Runs -> Flow]
         /\ [F EXCEPT ![r].posted = v][r].pc = F[r].pc
         /\ \A s \in Runs \ {r} : [F EXCEPT ![r].posted = v][s] = F[s]
BY DEF Flow

LEMMA SetsQuiet ==
  ASSUME NEW F \in [Runs -> Flow], NEW r \in Runs, NEW v \in BOOLEAN
  PROVE  /\ [F EXCEPT ![r].quiet = v] \in [Runs -> Flow]
         /\ [F EXCEPT ![r].quiet = v][r].pc = F[r].pc
         /\ \A s \in Runs \ {r} : [F EXCEPT ![r].quiet = v][s] = F[s]
BY DEF Flow

LEMMA StartStep == \A r \in Runs : IInv /\ Start(r) => IInv'
<1> SUFFICES ASSUME NEW r \in Runs, IInv, Start(r) PROVE IInv'
  OBVIOUS
<1>1. PICK k \in KindsOf[r] :
        /\ session' = IF k = "container" THEN r ELSE session
        /\ flow' = [flow EXCEPT ![r].pc = "starting", ![r].kind = k, ![r].mem = "running"]
  BY DEF Start
<1>2. k \in Kinds
  BY LocalConstants
<1>3. /\ flow' \in [Runs -> Flow] /\ flow'[r].pc = "starting"
      /\ \A s \in Runs \ {r} : flow'[s] = flow[s]
  <2> DEFINE f1 == [flow EXCEPT ![r].pc = "starting"]
             f2 == [f1 EXCEPT ![r].kind = k]
             f3 == [f2 EXCEPT ![r].mem = "running"]
  <2>1. /\ flow \in [Runs -> Flow] /\ "running" \in Status
        /\ "starting" \in {"idle", "over"} \cup Live
    BY DEF IInv, LocalTypeOK, Live, Status
  <2>2. f1 \in [Runs -> Flow] /\ f1[r].pc = "starting" /\ \A s \in Runs \ {r} : f1[s] = flow[s]
    BY <2>1, SetsPc
  <2> HIDE DEF f1
  <2>3. f2 \in [Runs -> Flow] /\ f2[r].pc = "starting" /\ \A s \in Runs \ {r} : f2[s] = flow[s]
    BY <1>2, <2>2, SetsKind
  <2> HIDE DEF f2
  <2>4. f3 \in [Runs -> Flow] /\ f3[r].pc = "starting" /\ \A s \in Runs \ {r} : f3[s] = flow[s]
    BY <2>1, <2>3, SetsMem
  <2>5. flow' = f3
    BY <1>1 DEF f1, f2
  <2> QED BY <2>4, <2>5
<1>4. RecordOf(r, "running") \in Record
  BY RecordsTyped DEF Status
<1>5. ~Waits(<<"flow", r>>) /\ <<"flow", r>> \notin thrown
  BY DEF Start, IInv, WritersAreLive, Saving
<1>6. /\ lock' \in Seq(Task) /\ QueueInv' /\ PostsHaveRuns'
      /\ \A v \in Writers : Waits(v)' <=> Waits(v) \/ v = <<"flow", r>>
  BY <1>4, <1>5, QueueTakesPut DEF Start
<1>7. LocalTypeOK'
  <2>1. running = NoRun /\ running' = r /\ session' \in {r, NoRun}
    BY <1>1 DEF Start, JobIsFree, IInv, LocalTypeOK
  <2>2. \A s \in Runs : flow'[s].pc \in Live <=> running' = s
    BY <1>3, <2>1, LocalConstants DEF IInv, LocalTypeOK, Live
  <2> QED BY <1>3, <1>6, <2>1, <2>2 DEF Start, IInv, LocalTypeOK
<1>8. WritersAreLive'
  <2>1. \A s \in Runs : <<"flow", s>> \in Writers /\ (<<"flow", s>> = <<"flow", r>> => s = r)
    BY DEF Writers
  <2> QED BY <1>3, <1>6, <2>1 DEF Start, IInv, WritersAreLive, Saving
<1> QED BY <1>6, <1>7, <1>8 DEF IInv

\* A run whose flow goes to pc, whatever else of it changes.
Moves(r, pc) ==
  /\ flow' \in [Runs -> Flow] /\ flow'[r].pc = pc
  /\ \A s \in Runs \ {r} : flow'[s] = flow[s]

LEMMA FlowTyped ==
  ASSUME IInv
  PROVE  /\ flow \in [Runs -> Flow] /\ Quiet \in BOOLEAN
         /\ Live \subseteq {"idle", "over"} \cup Live
         /\ \A r \in Runs : flow[r].mem \in Status
BY DEF IInv, LocalTypeOK, Flow, Quiet, Live

LEMMA MovesOnly ==
  ASSUME IInv, NEW r \in Runs, NEW v \in Live, flow' = [flow EXCEPT ![r].pc = v]
  PROVE  Moves(r, v)
BY FlowTyped, SetsPc DEF Moves

\* The work of a container ends.
LEMMA MovesToExited ==
  ASSUME IInv, NEW r \in Runs, NEW v \in {"succeeded", "failed", "missing"},
         flow' = [flow EXCEPT ![r].pc = "exited", ![r].verdict = v, ![r].quiet = Quiet]
  PROVE  Moves(r, "exited")
<1> DEFINE f1 == [flow EXCEPT ![r].pc = "exited"]
           f2 == [f1 EXCEPT ![r].verdict = v]
           f3 == [f2 EXCEPT ![r].quiet = Quiet]
<1>0. v \in {"none", "succeeded", "failed", "missing"}
  OBVIOUS
<1>1. f1 \in [Runs -> Flow] /\ f1[r].pc = "exited" /\ \A s \in Runs \ {r} : f1[s] = flow[s]
  BY FlowTyped, SetsPc DEF Live
<1> HIDE DEF f1
<1>2. f2 \in [Runs -> Flow] /\ f2[r].pc = "exited" /\ \A s \in Runs \ {r} : f2[s] = flow[s]
  BY <1>0, <1>1, SMT DEF Flow
<1> HIDE DEF f2
<1>3. f3 \in [Runs -> Flow] /\ f3[r].pc = "exited" /\ \A s \in Runs \ {r} : f3[s] = flow[s]
  BY <1>2, FlowTyped, SetsQuiet
<1>4. flow' = f3
  BY DEF f1, f2
<1> QED BY <1>3, <1>4 DEF Moves

\* A flow closes the record it keeps in memory.
LEMMA MovesWithMemory ==
  ASSUME IInv, NEW r \in Runs, NEW pc \in Live, NEW v \in Done,
         flow' = [flow EXCEPT ![r].pc = pc, ![r].verdict = v, ![r].mem = v]
  PROVE  Moves(r, pc)
<1> DEFINE f1 == [flow EXCEPT ![r].pc = pc]
           f2 == [f1 EXCEPT ![r].verdict = v]
           f3 == [f2 EXCEPT ![r].mem = v]
<1>0. v \in {"none", "succeeded", "failed", "missing"} /\ v \in Status
  BY DEF Done, Status
<1>1. f1 \in [Runs -> Flow] /\ f1[r].pc = pc /\ \A s \in Runs \ {r} : f1[s] = flow[s]
  BY FlowTyped, SetsPc
<1> HIDE DEF f1
<1>2. f2 \in [Runs -> Flow] /\ f2[r].pc = pc /\ \A s \in Runs \ {r} : f2[s] = flow[s]
  BY <1>0, <1>1, SMT DEF Flow
<1> HIDE DEF f2
<1>3. f3 \in [Runs -> Flow] /\ f3[r].pc = pc /\ \A s \in Runs \ {r} : f3[s] = flow[s]
  BY <1>0, <1>2, SetsMem
<1>4. flow' = f3
  BY DEF f1, f2
<1> QED BY <1>3, <1>4 DEF Moves

LEMMA CatchStep ==
  ASSUME IInv, NEW r \in Runs, flow[r].pc \in Live, Catch(r),
         ~Waits(<<"flow", r>>), <<"flow", r>> \notin thrown', thrown' \subseteq thrown,
         UNCHANGED <<file, torn, running, session, post, handler>>,
         failures' \in 0..MaxFailures
  PROVE  IInv'
<1>1. CASE flow[r].kind = "container"
  <2>1. Moves(r, "exited") /\ UNCHANGED lock
    BY <1>1, MovesToExited DEF Catch
  <2> QED BY <2>1, RunGoesOn DEF Moves, Live, IInv, LocalTypeOK
<1>2. CASE flow[r].kind # "container"
  <2> DEFINE f1 == [flow EXCEPT ![r].pc = "closing"]
             f2 == [f1 EXCEPT ![r].verdict = "failed"]
             f3 == [f2 EXCEPT ![r].mem = "failed"]
             f4 == [f3 EXCEPT ![r].quiet = Quiet]
  <2>1. f1 \in [Runs -> Flow] /\ f1[r].pc = "closing" /\ \A s \in Runs \ {r} : f1[s] = flow[s]
    BY FlowTyped, SetsPc DEF Live
  <2> HIDE DEF f1
  <2>2. f2 \in [Runs -> Flow] /\ f2[r].pc = "closing" /\ \A s \in Runs \ {r} : f2[s] = flow[s]
    BY <2>1, SetsVerdict
  <2> HIDE DEF f2
  <2>3. f3 \in [Runs -> Flow] /\ f3[r].pc = "closing" /\ \A s \in Runs \ {r} : f3[s] = flow[s]
    BY <2>2, SetsMem DEF Status
  <2> HIDE DEF f3
  <2>4. f4 \in [Runs -> Flow] /\ f4[r].pc = "closing" /\ \A s \in Runs \ {r} : f4[s] = flow[s]
    BY <2>3, FlowTyped, SetsQuiet
  <2>5. flow' = f4
    BY <1>2 DEF Catch, f1, f2, f3
  <2>6. Moves(r, "closing")
    BY <2>4, <2>5 DEF Moves
  <2>7. WriteJob(<<"flow", r>>, RecordOf(r, "failed")) /\ RecordOf(r, "failed") \in Record
    BY <1>2, RecordsTyped DEF Catch, Status
  <2> QED BY <2>6, <2>7, RunGoesOn DEF Moves, Live, Saving, IInv, LocalTypeOK
<1> QED BY <1>1, <1>2

LEMMA NoticesFailureStep == \A r \in Runs : IInv /\ NoticesFailure(r) => IInv'
<1> SUFFICES ASSUME NEW r \in Runs, IInv, NoticesFailure(r) PROVE IInv'
  OBVIOUS
<1>1. /\ flow[r].pc \in Live
      /\ ~Waits(<<"flow", r>>) /\ thrown' \subseteq thrown /\ <<"flow", r>> \notin thrown'
      /\ UNCHANGED <<file, torn, post>> /\ failures' \in 0..MaxFailures
  BY DEF NoticesFailure, IInv, LocalTypeOK, QueueInv, ThrownWaitNot, WritersAreLive, Saving, Live
<1>2. CASE flow[r].pc \in {"preparing", "saving"}
  BY <1>1, <1>2, CatchStep DEF NoticesFailure
<1>3. CASE flow[r].pc \notin {"preparing", "saving"}
  BY <1>1, <1>3, RunIsOver DEF NoticesFailure
<1> QED BY <1>2, <1>3

LEMMA PrepareStep == \A r \in Runs : IInv /\ Prepare(r) => IInv'
<1> SUFFICES ASSUME NEW r \in Runs, IInv, Prepare(r) PROVE IInv'
  OBVIOUS
<1>1. Moves(r, "preparing")
  BY MovesOnly DEF Prepare, Live
<1>2. RecordOf(r, flow[r].mem) \in Record /\ WriteJob(<<"flow", r>>, RecordOf(r, flow[r].mem))
  BY FlowTyped, RecordsTyped DEF Prepare
<1> QED
  BY <1>1, <1>2, RunGoesOn DEF Prepare, Written, Moves, Live, Saving, IInv, LocalTypeOK

LEMMA CleaningFailsStep == \A r \in Runs : IInv /\ CleaningFails(r) => IInv'
BY RunIsOver, FailsTyped DEF CleaningFails, Written, Live, IInv

LEMMA PrepareFailsStep == \A r \in Runs : IInv /\ PrepareFails(r) => IInv'
BY CatchStep, FailsTyped DEF PrepareFails, Written, Live, IInv

LEMMA LaunchStep == \A r \in Runs : IInv /\ Launch(r) => IInv'
<1> SUFFICES ASSUME NEW r \in Runs, IInv, Launch(r) PROVE IInv'
  OBVIOUS
<1>1. Moves(r, "working")
  <2> DEFINE f1 == [flow EXCEPT ![r].pc = "working"]
  <2>1. f1 \in [Runs -> Flow] /\ f1[r].pc = "working" /\ \A s \in Runs \ {r} : f1[s] = flow[s]
    BY FlowTyped, SetsPc DEF Live
  <2>2. flow' = [f1 EXCEPT ![r].launched = TRUE]
    BY DEF Launch
  <2> HIDE DEF f1
  <2> QED BY <2>1, <2>2, SetsLaunched DEF Moves
<1> QED BY <1>1, RunGoesOn DEF Launch, Written, Moves, Live, IInv, LocalTypeOK

\* A flow at work, or past it, has no write of its own under way.
LEMMA NoWriteUnderWay ==
  ASSUME IInv, NEW r \in Runs, flow[r].pc \notin Saving
  PROVE  ~Waits(<<"flow", r>>) /\ <<"flow", r>> \notin thrown
BY DEF IInv, WritersAreLive

LEMMA ExitStep == \A r \in Runs : IInv /\ Exit(r) => IInv'
<1> SUFFICES ASSUME NEW r \in Runs, IInv, Exit(r) PROVE IInv'
  OBVIOUS
<1>1. Moves(r, "exited")
  BY MovesToExited DEF Exit
<1>2. ~Waits(<<"flow", r>>) /\ <<"flow", r>> \notin thrown
  BY NoWriteUnderWay DEF Exit, Saving
<1> QED BY <1>1, <1>2, RunGoesOn DEF Exit, Moves, Live, IInv, LocalTypeOK

LEMMA FinalizeStep == \A r \in Runs : IInv /\ Finalize(r) => IInv'
<1> SUFFICES ASSUME NEW r \in Runs, IInv, Finalize(r) PROVE IInv'
  OBVIOUS
<1>1. ~Waits(<<"flow", r>>) /\ <<"flow", r>> \notin thrown
  BY NoWriteUnderWay DEF Finalize, Saving
<1>2. CASE UNCHANGED lock /\ End(r, FALSE)
  BY <1>1, <1>2, RunIsOver DEF Finalize, Live, IInv, LocalTypeOK
<1>3. CASE ~(UNCHANGED lock /\ End(r, FALSE))
  <2> DEFINE rec == [ReadJob EXCEPT !.status = IF flow[r].verdict = "succeeded"
                                               THEN "succeeded" ELSE "failed"]
  <2>1. /\ flow' = [flow EXCEPT ![r].pc = "closing"]
        /\ WriteJob(<<"flow", r>>, rec)
        /\ UNCHANGED <<file, torn, thrown, running, session, post, handler, failures>>
    BY <1>3 DEF Finalize
  <2>2. rec \in Record
    BY ReadsTyped DEF IInv, Record, Status
  <2>3. Moves(r, "closing")
    BY <2>1, MovesOnly DEF Live
  <2> HIDE DEF rec
  <2> QED BY <1>1, <2>1, <2>2, <2>3, RunGoesOn DEF Finalize, Moves, Live, Saving, IInv, LocalTypeOK
<1> QED BY <1>2, <1>3

LEMMA FinishStep == \A r \in Runs : IInv /\ Finish(r) => IInv'
BY RunIsOver DEF Finish, Written, Live, IInv, LocalTypeOK

-----------------------------------------------------------------------------
(* Progress reports and failure handlers *)

\* A step that leaves the flow where it is.
LEMMA RunStays ==
  ASSUME IInv, NEW r \in Runs, Moves(r, flow[r].pc),
         UNCHANGED <<file, torn, running, session, post>>,
         handler' \in [Runs -> {"none", "reading", "done"}],
         failures' \in 0..MaxFailures, thrown' \subseteq thrown,
         \/ UNCHANGED lock
         \/ \E k \in {"progress", "handler"}, rec \in Record : WriteJob(<<k, r>>, rec)
  PROVE  IInv'
<1>1. Waits(<<"flow", r>>) \/ <<"flow", r>> \in thrown' => flow'[r].pc \in Saving
  BY DEF IInv, WritersAreLive, Moves
<1>2. \/ UNCHANGED lock
      \/ \E k \in {"flow", "progress", "handler"}, rec \in Record :
           WriteJob(<<k, r>>, rec) /\ k # "flow"
  OBVIOUS
<1> QED BY <1>1, <1>2, RunGoesOn DEF Moves

LEMMA ReportStays == \A r \in Runs : IInv /\ Report(r) => IInv'
<1> SUFFICES ASSUME NEW r \in Runs, IInv, Report(r) PROVE IInv'
  OBVIOUS
<1>1. flow[r].due + 1 \in 0..MaxProgress
  BY FlowTyped, LocalConstants DEF Report, Flow
<1>2. Moves(r, flow[r].pc)
  BY <1>1, FlowTyped, SMT DEF Report, Moves, Flow
<1> QED BY <1>2, RunStays DEF Report, IInv, LocalTypeOK

LEMMA PostProgressStep == \A r \in Runs : IInv /\ PostProgress(r) => IInv'
<1> SUFFICES ASSUME NEW r \in Runs, IInv, PostProgress(r) PROVE IInv'
  OBVIOUS
<1> DEFINE f1 == [flow EXCEPT ![r].due = @ - 1]
           f2 == [f1 EXCEPT ![r].posted = flow[r].mem]
<1>1. flow[r].due - 1 \in 0..MaxProgress /\ flow[r].mem \in Status
  BY FlowTyped, LocalConstants DEF PostProgress, Flow
<1>2. f1 \in [Runs -> Flow] /\ f1[r].pc = flow[r].pc /\ \A s \in Runs \ {r} : f1[s] = flow[s]
  BY <1>1, FlowTyped, SMT DEF Flow
<1> HIDE DEF f1
<1>3. f2 \in [Runs -> Flow] /\ f2[r].pc = flow[r].pc /\ \A s \in Runs \ {r} : f2[s] = flow[s]
  BY <1>1, <1>2, SMT DEF Flow
<1>4. flow' = f2
  BY DEF PostProgress, f1
<1>5. Moves(r, flow[r].pc)
  BY <1>3, <1>4 DEF Moves
<1>6. /\ WriteJob(<<"progress", r>>, RecordOf(r, flow[r].mem))
      /\ RecordOf(r, flow[r].mem) \in Record
  BY <1>1, RecordsTyped DEF PostProgress
<1> QED BY <1>5, <1>6, RunStays DEF PostProgress, IInv, LocalTypeOK

LEMMA ProgressPostedStep == \A r \in Runs : IInv /\ ProgressPosted(r) => IInv'
<1> SUFFICES ASSUME NEW r \in Runs, IInv, ProgressPosted(r) PROVE IInv'
  OBVIOUS
<1> DEFINE f1 == [flow EXCEPT ![r].posted = "none"]
<1>1. f1 \in [Runs -> Flow] /\ f1[r].pc = flow[r].pc /\ \A s \in Runs \ {r} : f1[s] = flow[s]
  BY FlowTyped, SMT DEF Flow
<1>2. flow[r].posted \in Status
  BY FlowTyped DEF ProgressPosted, Flow
<1> HIDE DEF f1
<1>3. flow' \in {[f1 EXCEPT ![r].verdict = "failed"], [f1 EXCEPT ![r].mem = flow[r].posted]}
  BY DEF ProgressPosted, f1
<1>4. /\ [f1 EXCEPT ![r].verdict = "failed"] \in [Runs -> Flow]
      /\ [f1 EXCEPT ![r].verdict = "failed"][r].pc = flow[r].pc
      /\ \A s \in Runs \ {r} : [f1 EXCEPT ![r].verdict = "failed"][s] = flow[s]
  BY <1>1, SMT DEF Flow
<1>5. /\ [f1 EXCEPT ![r].mem = flow[r].posted] \in [Runs -> Flow]
      /\ [f1 EXCEPT ![r].mem = flow[r].posted][r].pc = flow[r].pc
      /\ \A s \in Runs \ {r} : [f1 EXCEPT ![r].mem = flow[r].posted][s] = flow[s]
  BY <1>1, <1>2, SMT DEF Flow
<1>6. Moves(r, flow[r].pc)
  BY <1>3, <1>4, <1>5 DEF Moves
<1> QED BY <1>6, RunStays DEF ProgressPosted, IInv, LocalTypeOK

LEMMA EngineReturnsStep == \A r \in Runs : IInv /\ EngineReturns(r) => IInv'
<1> SUFFICES ASSUME NEW r \in Runs, IInv, EngineReturns(r) PROVE IInv'
  OBVIOUS
<1>1. PICK v \in Done :
        /\ flow' = [flow EXCEPT ![r].pc = "saving", ![r].verdict = v, ![r].mem = v]
        /\ WriteJob(<<"flow", r>>, RecordOf(r, v))
  BY DEF EngineReturns
<1>2. Moves(r, "saving") /\ RecordOf(r, v) \in Record
  BY <1>1, MovesWithMemory, RecordsTyped DEF Live, Done, Status
<1>3. ~Waits(<<"flow", r>>) /\ <<"flow", r>> \notin thrown
  BY NoWriteUnderWay DEF EngineReturns, Saving
<1> QED
  BY <1>1, <1>2, <1>3, RunGoesOn DEF EngineReturns, Moves, Live, Saving, IInv, LocalTypeOK

LEMMA EngineThrowsStep == \A r \in Runs : IInv /\ EngineThrows(r) => IInv'
BY NoWriteUnderWay, CatchStep DEF EngineThrows, Live, Saving, IInv, LocalTypeOK

LEMMA HandlerReadsStep == \A r \in Runs : IInv /\ HandlerReads(r) => IInv'
<1> SUFFICES ASSUME NEW r \in Runs, IInv, HandlerReads(r) PROVE IInv'
  OBVIOUS
<1> DEFINE rec == [ReadJob EXCEPT !.status = "failed"]
<1>1. rec \in Record
  BY ReadsTyped DEF IInv, Record, Status
<1>2. WriteJob(<<"handler", r>>, rec)
  BY DEF HandlerReads
<1> HIDE DEF rec
<1>3. Moves(r, flow[r].pc) /\ handler' \in [Runs -> {"none", "reading", "done"}]
  BY FlowTyped DEF HandlerReads, Moves, IInv, LocalTypeOK
<1> QED BY <1>1, <1>2, <1>3, RunStays DEF HandlerReads, IInv, LocalTypeOK

-----------------------------------------------------------------------------
(* Callbacks *)

LEMMA ArriveStep == \A p \in Posts : IInv /\ Arrive(p) => IInv'
<1> SUFFICES ASSUME NEW p \in Posts, IInv, Arrive(p) PROVE IInv'
  OBVIOUS
<1>1. PICK s \in {"running"} \cup Done :
        post' = [post EXCEPT ![p] = [pc |-> "reading", run |-> session, says |-> s]]
  BY DEF Arrive
<1>2. session \in Runs
  BY DEF Arrive, IInv, LocalTypeOK
<1>3. post' \in [Posts -> Post] /\ \A q \in Posts \ {p} : post'[q] = post[q]
  BY <1>1, <1>2 DEF IInv, LocalTypeOK, Post
<1>4. post'[p].run \in Runs
  BY <1>1, <1>2 DEF IInv, LocalTypeOK
<1>11. /\ flow' \in [Runs -> Flow]
       /\ \A r \in Runs : flow'[r].pc = flow[r].pc
  <2> DEFINE v == flow[session].quiet /\ flow[session].pc = "working"
  <2>1. flow' = [flow EXCEPT ![session].quiet = v]
    BY DEF Arrive
  <2>2. v \in BOOLEAN
    OBVIOUS
  <2> HIDE DEF v
  <2> QED BY <1>2, <2>1, <2>2, FlowTyped, SetsQuiet
<1>5. LocalTypeOK' /\ PostsHaveRuns'
  BY <1>3, <1>4, <1>11 DEF Arrive, IInv, LocalTypeOK, PostsHaveRuns
<1>6. \A v : Waits(v)' <=> Waits(v)
  BY DEF Arrive, Waits
<1>7. WaitsOnce' /\ ThrownWaitNot' /\ WritersAreLive'
  BY <1>6, <1>11 DEF Arrive, IInv, QueueInv, WaitsOnce, ThrownWaitNot, WritersAreLive
<1>8. \A i \in 1..Len(lock) :
        lock[i].by[1] = "post" => lock[i].by[2] \in Posts \ {p}
  <2> SUFFICES ASSUME NEW i \in 1..Len(lock), lock[i].by[1] = "post"
               PROVE  lock[i].by[2] \in Posts \ {p}
    OBVIOUS
  <2>1. lock[i] \in Task
    BY DEF IInv, LocalTypeOK
  <2>2. lock[i].by[2] \in Posts
    BY <2>1 DEF Task, Writers
  <2> QED BY <2>2 DEF Arrive, IInv, QueueInv, QueueShape
<1>9. QueueShape'
  BY <1>3, <1>8 DEF Arrive, IInv, QueueInv, QueueShape
<1>10. FillsFairly'
  <2>1. lock # <<>> => 1 \in 1..Len(lock)
    BY DEF IInv, LocalTypeOK
  <2> QED BY <1>3, <1>8, <2>1 DEF Arrive, IInv, QueueInv, FillsFairly
<1> QED BY <1>5, <1>7, <1>9, <1>10 DEF IInv, QueueInv

LEMMA AcceptStep == \A p \in Posts : IInv /\ Accept(p) => IInv'
<1> SUFFICES ASSUME NEW p \in Posts, IInv, Accept(p) PROVE IInv'
  OBVIOUS
<1> DEFINE w == <<"post", p>>
<1>1. /\ lock \in Seq(Task) /\ w \in Writers /\ NoRecord \in Record
      /\ w[1] = "post" /\ w[2] = p
  BY RecordsTyped DEF IInv, LocalTypeOK, Writers
<1>2. post' = [post EXCEPT ![p].pc = "queued"] /\ post[p].pc = "reading"
  BY DEF Accept
<1>3. /\ post' \in [Posts -> Post] /\ post'[p].pc = "queued" /\ post'[p].run = post[p].run
      /\ \A q \in Posts \ {p} : post'[q] = post[q]
  BY <1>2, SMT DEF IInv, LocalTypeOK, Post
<1>4. \A i \in 1..Len(lock) :
        lock[i].by[1] = "post" => lock[i].by[2] \in Posts \ {p}
  <2> SUFFICES ASSUME NEW i \in 1..Len(lock), lock[i].by[1] = "post"
               PROVE  lock[i].by[2] \in Posts \ {p}
    OBVIOUS
  <2>1. lock[i] \in Task
    BY <1>1
  <2>2. lock[i].by[2] \in Posts
    BY <2>1 DEF Task, Writers
  <2> QED BY <1>2, <2>2 DEF IInv, QueueInv, QueueShape
<1> HIDE DEF w
<1>5. Enqueue(w, "read", NoRecord)
  BY DEF Accept, w
<1>6. /\ lock' \in Seq(Task)
      /\ Len(lock') = Len(lock) + 1
      /\ \A i \in 1..Len(lock) : lock'[i] = lock[i]
      /\ lock'[Len(lock) + 1] = [by |-> w, op |-> "read", rec |-> NoRecord]
      /\ \A v \in Writers : Waits(v)' <=> Waits(v) \/ v = w
  BY <1>1, <1>5, Grows
<1>7. Len(lock) \in Nat /\ \A i \in 1..Len(lock') : i \in 1..Len(lock) \/ i = Len(lock) + 1
  BY <1>1, <1>6
<1>8. QueueShape'
  <2> SUFFICES ASSUME NEW i \in 1..Len(lock')
               PROVE  /\ lock'[i].op = "filling" => i = 1
                      /\ lock'[i].op = "read" => lock'[i].by[1] = "post"
                      /\ lock'[i].by[1] = "post" =>
                           lock'[i].op # "put" /\ post'[lock'[i].by[2]].pc = "queued"
    BY DEF QueueShape
  <2>1. CASE i \in 1..Len(lock)
    BY <1>3, <1>4, <1>6, <2>1 DEF IInv, QueueInv, QueueShape
  <2>2. CASE i = Len(lock) + 1
    BY <1>1, <1>3, <1>6, <2>2
  <2> QED BY <1>7, <2>1, <2>2
<1>9. WaitsOnce'
  <2> SUFFICES ASSUME NEW i \in 1..Len(lock'), NEW j \in 1..Len(lock'),
                      lock'[i].by[1] \in {"flow", "post"}, lock'[i].by = lock'[j].by
               PROVE  i = j
    BY DEF WaitsOnce
  <2>1. CASE i \in 1..Len(lock) /\ j \in 1..Len(lock)
    BY <1>6, <2>1 DEF IInv, QueueInv, WaitsOnce
  <2>2. CASE i = Len(lock) + 1 /\ j \in 1..Len(lock)
    BY <1>1, <1>4, <1>6, <2>2
  <2>3. CASE i \in 1..Len(lock) /\ j = Len(lock) + 1
    BY <1>1, <1>4, <1>6, <2>3
  <2> QED BY <1>7, <2>1, <2>2, <2>3
<1>10. \A r \in Runs : Waits(<<"flow", r>>)' => Waits(<<"flow", r>>)
  <2>1. \A r \in Runs : <<"flow", r>> \in Writers /\ <<"flow", r>> # w
    BY DEF Writers, w
  <2> QED BY <1>6, <2>1
<1>11. ThrownWaitNot' /\ WritersAreLive'
  BY <1>10 DEF Accept, IInv, QueueInv, ThrownWaitNot, WritersAreLive
<1>12. FillsFairly'
  <2>1. CASE lock = <<>>
    BY <1>6, <2>1 DEF FillsFairly
  <2>2. CASE lock # <<>>
    <3>1. 1 \in 1..Len(lock) /\ lock'[1] = lock[1]
      BY <1>1, <1>6, <2>2
    <3> QED BY <1>3, <1>4, <2>2, <3>1 DEF Accept, IInv, QueueInv, FillsFairly
  <2> QED BY <2>1, <2>2
<1>13. LocalTypeOK' /\ PostsHaveRuns'
  BY <1>3, <1>6 DEF Accept, IInv, LocalTypeOK, PostsHaveRuns, InFlight
<1> QED BY <1>8, <1>9, <1>11, <1>12, <1>13 DEF IInv, QueueInv

-----------------------------------------------------------------------------
(* The theorems *)

LEMMA InitInv == Init => IInv
<1> SUFFICES ASSUME Init PROVE IInv
  OBVIOUS
<1>1. lock = <<>> /\ Len(lock) = 0 /\ \A v : ~Waits(v)
  BY DEF Init, Waits
<1>2. LocalTypeOK
  <2>1. flow \in [Runs -> Flow] /\ post \in [Posts -> Post]
    BY LocalConstants DEF Init, Flow, Post, Kinds, Status, Live, Done
  <2>2. \A r \in Runs : flow[r].pc \in Live <=> running = r
    BY LocalConstants DEF Init, Live
  <2>3. /\ file \in Record /\ torn \in BOOLEAN /\ thrown \subseteq Writers
        /\ running \in Runs \cup {NoRun} /\ session \in {running, NoRun}
    BY RecordsTyped DEF Init
  <2>5. lock \in Seq(Task)
    BY <1>1
  <2>6. handler \in [Runs -> {"none", "reading", "done"}]
    BY DEF Init
  <2>4. failures \in 0..MaxFailures
    BY LocalConstants DEF Init
  <2> QED BY <2>1, <2>2, <2>3, <2>4, <2>5, <2>6 DEF LocalTypeOK
<1>3. QueueInv /\ WritersAreLive /\ PostsHaveRuns
  BY <1>1 DEF Init, QueueInv, QueueShape, WaitsOnce, ThrownWaitNot, FillsFairly,
              WritersAreLive, PostsHaveRuns, InFlight
<1> QED BY <1>2, <1>3 DEF IInv

LEMMA NextInv == IInv /\ [Next]_vars => IInv'
<1> SUFFICES ASSUME IInv, [Next]_vars PROVE IInv'
  OBVIOUS
<1>1. CASE WriteStep
  BY <1>1, TakeTurnStep, FillStep, WriteFailsStep DEF WriteStep
<1>2. ASSUME NEW r \in Runs, RunStep(r) PROVE IInv'
  BY <1>2, StartStep, NoticesFailureStep, PrepareStep, CleaningFailsStep, PrepareFailsStep,
     LaunchStep, ExitStep, FinalizeStep, FinishStep, ReportStays, PostProgressStep,
     ProgressPostedStep, EngineReturnsStep, EngineThrowsStep, HandlerReadsStep
  DEF RunStep, OpeningStep, ClosingStep, WorkStep, ReportStep
<1>3. ASSUME NEW p \in Posts, PostStep(p) PROVE IInv'
  BY <1>3, ArriveStep, AcceptStep DEF PostStep
<1>4. CASE UNCHANGED vars
  <2>1. \A v : Waits(v)' <=> Waits(v)
    BY <1>4 DEF vars, Waits
  <2> QED BY <1>4, <2>1 DEF vars, IInv, LocalTypeOK, QueueInv, QueueShape, WaitsOnce,
             ThrownWaitNot, FillsFairly, WritersAreLive, PostsHaveRuns
<1> QED BY <1>1, <1>2, <1>3, <1>4 DEF Next

\* The invariant behind the two results below: the queue of writes holds what its
\* waiters expect, and whoever has a write under way is live (jobs.ts:122-181).
THEOREM InductiveInvariant == Spec => []IInv
BY InitInv, NextInv, PTL DEF Spec

\* Whatever runs, callbacks and failed writes there are, records and queue are
\* well-typed and the flow of one run holds the job at a time: runningJobs and
\* callbackSessions name the run whose flow is live (api-server.ts:588-835).
THEOREM OneFlowHoldsTheJob == Spec => []LocalTypeOK
BY InductiveInvariant, PTL DEF IInv

\* A callback that was let in for an older run leaves the record of a newer one
\* as it is, however long it waited for its turn to write (api-server.ts:441).
THEOREM StaleCallbacksAreHarmless == Spec => StaleCallbacksChangeNothing
<1> DEFINE A == (lock # <<>> /\ Head(lock).by[1] = "post" /\ file' \notin {file, NoRecord})
                => /\ file.run = post[Head(lock).by[2]].run
                   /\ file'.run = file.run
<1>1. ASSUME IInv, Fill PROVE A
  BY <1>1 DEF Fill, IInv, LocalTypeOK, QueueInv, FillsFairly
<1>2. ASSUME Next, file' # file PROVE Fill
  BY <1>2 DEF Next, WriteStep, RunStep, OpeningStep, ClosingStep, WorkStep, ReportStep, PostStep,
     TakeTurn, WriteFails, Start, NoticesFailure, Prepare, CleaningFails, PrepareFails, Launch, Exit,
     Finalize, Finish, Report, PostProgress, ProgressPosted, EngineReturns, EngineThrows,
     HandlerReads, Arrive, Accept
<1>3. IInv /\ [Next]_vars => [A]_<<file, lock>>
  BY <1>1, <1>2 DEF vars
<1> QED BY <1>3, InductiveInvariant, PTL DEF Spec, StaleCallbacksChangeNothing

-----------------------------------------------------------------------------
(***************************************************************************)
(* The record as long as nothing fails.                                    *)
(***************************************************************************)

\* The steps of a flow before its work, and behind it.
Before == {"idle", "starting", "preparing"}
After == {"exited", "saving", "closing", "over"}

\* The file is truncated only while a write of the queue fills it.
NoMishap ==
  /\ thrown = {} /\ \A r \in Runs : handler[r] = "none"
  /\ \A i \in 1..Len(lock) : lock[i].by[1] # "handler"
  /\ torn <=> lock # <<>> /\ lock[1].op = "filling"

\* Flows and their reports write records of their own run.
PutsAreOwn ==
  \A i \in 1..Len(lock) :
    lock[i].by[1] \in {"flow", "progress"} => lock[i].rec.run = lock[i].by[2]

\* Only a storage copy at work, or one that did not wait for them, has reports to post.
ReportsOf(r) ==
  /\ Waits(<<"progress", r>>) => flow[r].posted # "none"
  /\ \/ flow[r].kind = "container" \/ flow[r].pc \in Before
     \/ flow[r].pc \in After /\ flow[r].quiet
     => flow[r].due = 0 /\ flow[r].posted = "none"

ReportsEnd == \A r \in Runs : ReportsOf(r)

\* Callbacks come from a container that was started; one whose flow has gone on, or
\* that did not wait for its answer, does not leave it quiet.
PostsFollow ==
  /\ session # NoRun => flow[session].kind = "container"
  /\ \A r \in Runs : flow[r].launched => flow[r].pc \notin Before
  /\ \A p \in Posts :
       /\ post[p].pc \in InFlight \cup {"acked"} =>
            /\ post[p].run \in Runs
            /\ flow[post[p].run].kind = "container" /\ flow[post[p].run].pc \notin Before
       /\ post[p].pc \in InFlight =>
            flow[post[p].run].pc = "working" \/ ~flow[post[p].run].quiet

\* Until a run works, its own writes are the only ones.
OwnWrites(r) ==
  /\ \A i \in 1..Len(lock) : lock[i].by = <<"flow", r>>
  /\ file.run = r \/ (flow[r].pc = "starting" /\ Waits(<<"flow", r>>))

\* While its container works, callbacks alone write; none undoes another.
CallbacksAdd(r) ==
  /\ file.run = r
  /\ \A p \in Posts : post[p].pc = "acked" /\ post[p].run = r => p \in file.events
  /\ \A i \in 1..Len(lock) :
       /\ lock[i].by[1] = "post" /\ post[lock[i].by[2]].run = r
       /\ lock[i].op = "filling" =>
            lock[i].rec.run = r /\ file.events \cup {lock[i].by[2]} \subseteq lock[i].rec.events

AllQuiet == \A r \in Runs : flow[r].pc = "over" => flow[r].quiet

Ordered(r) ==
  /\ flow[r].pc \in {"starting", "preparing"} => OwnWrites(r)
  /\ flow[r].pc \in {"working", "exited"} /\ flow[r].kind = "container" => CallbacksAdd(r)

WritesAreOrdered == AllQuiet => \A r \in Runs : Ordered(r)

\* A container that exits when all is quiet finds the queue empty.
ExitsQuietly(r) ==
  flow[r].pc = "exited" =>
    /\ flow[r].kind = "container"
    /\ flow[r].quiet =>
         /\ lock = <<>>
         /\ \A p \in Posts : post[p].pc \notin InFlight
         /\ \A s \in Runs : flow[s].due = 0

QuietExits == \A r \in Runs : ExitsQuietly(r)

\* A record that closes a run.
Closes(r, rec) ==
  /\ rec.status \in Done
  /\ flow[r].verdict # "succeeded" => rec.status = "failed"
  /\ flow[r].kind = "memory" => rec.status = flow[r].verdict

\* The last write of a flow closes its record, and nothing opens it again.
StaysClosed(r) ==
  flow[r].pc \in {"saving", "closing", "over"} /\ flow[r].quiet =>
    /\ \A i \in 1..Len(lock) : lock[i].by = <<"flow", r>> => Closes(r, lock[i].rec)
    /\ Waits(<<"flow", r>>) \/ (file.run = r => Closes(r, file))

RecordsClose == \A r \in Runs : StaysClosed(r)

CleanRecord ==
  /\ NoMishap /\ PutsAreOwn /\ ReportsEnd /\ PostsFollow
  /\ WritesAreOrdered /\ QuietExits /\ RecordsClose

\* The invariant of the record.
RecordInv == failures = 0 => CleanRecord

\* What the invariant says of one run.
LEMMA LiveIsOne ==
  ASSUME IInv, NEW r \in Runs, NEW s \in Runs, flow[r].pc \in Live, flow[s].pc \in Live
  PROVE  r = s
BY DEF IInv, LocalTypeOK

LEMMA Entries ==
  ASSUME IInv
  PROVE  /\ lock \in Seq(Task) /\ Len(lock) \in Nat /\ DOMAIN lock = 1..Len(lock)
         /\ \A i \in 1..Len(lock) :
              /\ lock[i] \in Task
              /\ \/ \E k \in {"flow", "progress", "handler"}, r \in Runs : lock[i].by = <<k, r>>
                 \/ \E p \in Posts : lock[i].by = <<"post", p>> /\ post[p].pc = "queued"
<1>1. lock \in Seq(Task) /\ Len(lock) \in Nat /\ DOMAIN lock = 1..Len(lock)
  BY DEF IInv, LocalTypeOK
<1>2. ASSUME NEW i \in 1..Len(lock)
      PROVE  /\ lock[i] \in Task
             /\ \/ \E k \in {"flow", "progress", "handler"}, r \in Runs : lock[i].by = <<k, r>>
                \/ \E p \in Posts : lock[i].by = <<"post", p>> /\ post[p].pc = "queued"
  <2>1. lock[i] \in Task /\ lock[i].by \in Writers
    <3>1. lock[i] \in Task
      BY <1>1
    <3> QED BY <3>1 DEF Task
  <2>2. CASE \E k \in {"flow", "progress", "handler"}, r \in Runs : lock[i].by = <<k, r>>
    BY <2>1, <2>2
  <2>3. CASE \E p \in Posts : lock[i].by = <<"post", p>>
    <3>1. PICK p \in Posts : lock[i].by = <<"post", p>>
      BY <2>3
    <3>2. lock[i].by[1] = "post" /\ lock[i].by[2] = p
      BY <3>1
    <3>3. post[p].pc = "queued"
      BY <3>2 DEF IInv, QueueInv, QueueShape
    <3> QED BY <2>1, <3>1, <3>3
  <2> QED BY <2>1, <2>2, <2>3 DEF Writers
<1> QED BY <1>1, <1>2

\* Nothing waits when no flow saves, no report is posted and no callback queued.
LEMMA QueueIsEmpty ==
  ASSUME IInv, CleanRecord, \A r \in Runs : flow[r].pc \notin Saving /\ flow[r].posted = "none",
         \A p \in Posts : post[p].pc # "queued"
  PROVE  lock = <<>> /\ ~torn
<1>1. SUFFICES ASSUME lock # <<>> PROVE FALSE
  BY DEF CleanRecord, NoMishap
<1>2. 1 \in 1..Len(lock)
  BY <1>1, Entries
<1>3. CASE \E r \in Runs : lock[1].by = <<"flow", r>>
  BY <1>2, <1>3, Entries DEF IInv, WritersAreLive, Waits
<1>4. CASE \E r \in Runs : lock[1].by = <<"progress", r>>
  BY <1>2, <1>4, Entries DEF CleanRecord, ReportsEnd, ReportsOf, Waits
<1>5. CASE \E r \in Runs : lock[1].by = <<"handler", r>>
  <2>1. lock[1].by[1] = "handler"
    BY <1>5
  <2> QED BY <1>2, <2>1 DEF CleanRecord, NoMishap
<1> QED BY <1>2, <1>3, <1>4, <1>5, Entries

-----------------------------------------------------------------------------
(* The queue of writes goes on *)

LEMMA TakeTurnCleanly ==
  ASSUME IInv, IInv', CleanRecord, TakeTurn
  PROVE  CleanRecord'
<1> DEFINE p == lock[1].by[2]
           new == IF lock[1].op = "read" THEN Updated(p, ReadJob) ELSE lock[1].rec
<1>1. lock # <<>> /\ Head(lock) = lock[1] /\ Len(lock) \in Nat \ {0} /\ lock[1] \in Task
      /\ lock[1].op \in {"read", "put"} /\ lock \in Seq(Task)
  BY Entries DEF TakeTurn
<1>2. /\ lock' = [lock EXCEPT ![1] = [by |-> lock[1].by, op |-> "filling", rec |-> new]]
      /\ UNCHANGED <<file, thrown, running, session, flow, post, handler, failures>>
      /\ torn' = TRUE
  <2>1. [[lock[1] EXCEPT !.op = "filling"] EXCEPT !.rec = new]
          = [by |-> lock[1].by, op |-> "filling", rec |-> new]
    BY <1>1, FillsEntry
  <2>2. lock' = [lock EXCEPT ![1] = [[lock[1] EXCEPT !.op = "filling"] EXCEPT !.rec = new]]
    BY <1>1 DEF TakeTurn
  <2> QED BY <2>1, <2>2 DEF TakeTurn
<1> HIDE DEF new
<1>3. /\ lock' # <<>> /\ Len(lock') = Len(lock) /\ DOMAIN lock' = 1..Len(lock) /\ DOMAIN lock = 1..Len(lock)
      /\ lock'[1].by = lock[1].by /\ lock'[1].op = "filling" /\ lock'[1].rec = new
      /\ \A i \in 2..Len(lock) : lock'[i] = lock[i]
      /\ \A i \in 1..Len(lock) : lock'[i].by = lock[i].by
  BY <1>1, <1>2
<1>4. \A v : Waits(v)' <=> Waits(v)
  BY <1>3 DEF Waits
<1>5. lock[1].by[1] # "post" => new = lock[1].rec
  BY <1>1 DEF new, IInv, QueueInv, QueueShape
<1>6. lock[1].by[1] = "post" => new = Updated(p, file)
  BY <1>1 DEF new, IInv, QueueInv, QueueShape, CleanRecord, NoMishap, ReadJob
<1>7. NoMishap'
  BY <1>2, <1>3 DEF CleanRecord, NoMishap
<1>8. PutsAreOwn'
  BY <1>1, <1>3, <1>5 DEF CleanRecord, PutsAreOwn
<1>9. ReportsEnd' /\ PostsFollow'
  BY <1>2, <1>4 DEF CleanRecord, ReportsEnd, ReportsOf, PostsFollow
<1>10. WritesAreOrdered'
  <2>1. ASSUME NEW r \in Runs, OwnWrites(r) PROVE OwnWrites(r)'
    BY <1>2, <1>3, <1>4, <2>1 DEF OwnWrites
  <2>2. ASSUME NEW r \in Runs, CallbacksAdd(r) PROVE CallbacksAdd(r)'
    <3>1. file \in Record /\ file.run = r
      BY <2>2 DEF CallbacksAdd, IInv, LocalTypeOK
    <3>2. lock[1].by[1] = "post" /\ post[p].run = r
      BY <1>1, <2>2 DEF CallbacksAdd
    <3>3. new = [file EXCEPT !.status = post[p].says, !.events = @ \cup {p}]
      BY <1>6, <3>1, <3>2 DEF Updated
    <3>4. new.run = r /\ file.events \cup {p} \subseteq new.events
      BY <3>1, <3>3 DEF Record
    <3>5. \A i \in 2..Len(lock) : lock[i].op # "filling"
      BY DEF IInv, QueueInv, QueueShape
    <3> QED BY <1>2, <1>3, <2>2, <3>4, <3>5 DEF CallbacksAdd
  <2> QED BY <1>2, <2>1, <2>2 DEF CleanRecord, WritesAreOrdered, Ordered, AllQuiet
<1>11. QuietExits'
  BY <1>1, <1>2 DEF CleanRecord, QuietExits, ExitsQuietly
<1>12. RecordsClose'
  <2>1. ASSUME NEW r \in Runs, NEW i \in 1..Len(lock), lock[i].by = <<"flow", r>>
        PROVE  lock'[i].rec = lock[i].rec
    <3>1. lock[i].by[1] = "flow"
      BY <2>1
    <3> QED BY <1>3, <1>5, <3>1
  <2> QED BY <1>2, <1>3, <1>4, <2>1 DEF CleanRecord, RecordsClose, StaysClosed, Closes
<1> QED BY <1>7, <1>8, <1>9, <1>10, <1>11, <1>12 DEF CleanRecord

LEMMA FillCleanly ==
  ASSUME IInv, IInv', CleanRecord, Fill
  PROVE  CleanRecord'
<1> DEFINE h == lock[1]
           p == h.by[2]
<1>1. /\ lock # <<>> /\ Len(lock) \in Nat \ {0} /\ Len(lock') = Len(lock) - 1
      /\ \A i \in 1..Len(lock') : lock'[i] = lock[i + 1]
      /\ \A v : Waits(v)' => \E i \in 2..Len(lock) : lock[i].by = v
      /\ Head(lock) = h /\ h \in Task /\ lock \in Seq(Task)
      /\ DOMAIN lock = 1..Len(lock) /\ DOMAIN lock' = 1..Len(lock) - 1
  BY Entries, Shrinks DEF Fill
<1>2. /\ h.op = "filling" /\ file' = h.rec /\ torn' = FALSE
      /\ UNCHANGED <<thrown, running, session, flow, handler, failures>>
      /\ post' = IF h.by[1] = "post" THEN [post EXCEPT ![p] = Settled(post[p], "acked")] ELSE post
  BY <1>1 DEF Fill, IInv, LocalTypeOK
<1>3. h.by[1] = "post" => p \in Posts /\ h.by = <<"post", p>> /\ post[p].pc = "queued"
  BY <1>1, Entries
<1>4. /\ \A v : Waits(v)' => Waits(v)
      /\ \A v : Waits(v) /\ h.by # v => Waits(v)'
  <2>1. \A v : Waits(v)' => Waits(v)
    BY <1>1 DEF Waits
  <2>2. ASSUME NEW v, Waits(v), h.by # v PROVE Waits(v)'
    <3>1. PICK i \in 1..Len(lock) : lock[i].by = v
      BY <1>1, <2>2 DEF Waits
    <3>2. i - 1 \in DOMAIN lock' /\ lock'[i - 1] = lock[i]
      BY <1>1, <2>2, <3>1
    <3> QED BY <3>1, <3>2 DEF Waits
  <2> QED BY <2>1, <2>2
<1>5. \A q \in Posts :
        \/ post'[q] = post[q]
        \/ /\ h.by = <<"post", q>> /\ post[q].pc = "queued"
           /\ post'[q].pc = "acked" /\ post'[q].run = post[q].run
  <2>1. post \in [Posts -> Post]
    BY DEF IInv, LocalTypeOK
  <2> QED BY <1>2, <1>3, <2>1 DEF Settled
<1>6. \A i \in 2..Len(lock) : lock[i].op # "filling"
  BY DEF IInv, QueueInv, QueueShape
<1>7. NoMishap'
  <2>1. lock' # <<>> => lock'[1] = lock[2] /\ 2 \in 2..Len(lock)
    BY <1>1
  <2> QED BY <1>1, <1>2, <1>6, <2>1 DEF CleanRecord, NoMishap
<1>8. PutsAreOwn'
  BY <1>1 DEF CleanRecord, PutsAreOwn
<1>9. ReportsEnd'
  BY <1>2, <1>4 DEF CleanRecord, ReportsEnd, ReportsOf
<1>10. PostsFollow'
  BY <1>2, <1>5 DEF CleanRecord, PostsFollow, InFlight
<1>11. WritesAreOrdered'
  <2>1. ASSUME NEW r \in Runs, OwnWrites(r) PROVE OwnWrites(r)'
    <3>1. h.by = <<"flow", r>> /\ h.by[1] = "flow" /\ h.by[2] = r
      BY <1>1, <2>1 DEF OwnWrites
    <3>2. file'.run = r
      <4>1. 1 \in 1..Len(lock)
        BY <1>1
      <4> QED BY <1>2, <3>1, <4>1 DEF CleanRecord, PutsAreOwn
    <3>3. ASSUME NEW i \in 1..Len(lock') PROVE lock'[i].by = <<"flow", r>>
      <4>1. i + 1 \in 1..Len(lock) /\ lock'[i] = lock[i + 1]
        BY <1>1
      <4> QED BY <2>1, <4>1 DEF OwnWrites
    <3> QED BY <3>2, <3>3 DEF OwnWrites
  <2>2. ASSUME NEW r \in Runs, CallbacksAdd(r) PROVE CallbacksAdd(r)'
    <3>1. /\ h.by[1] = "post" /\ post[p].run = r
          /\ file'.run = r /\ file.events \cup {p} \subseteq file'.events
      BY <1>1, <1>2, <2>2 DEF CallbacksAdd
    <3>2. \A q \in Posts : post'[q].pc = "acked" /\ post'[q].run = r => q \in file'.events
      <4>1. SUFFICES ASSUME NEW q \in Posts, post'[q].pc = "acked", post'[q].run = r
                     PROVE  q \in file'.events
        OBVIOUS
      <4>2. CASE post'[q] = post[q]
        BY <2>2, <3>1, <4>1, <4>2 DEF CallbacksAdd
      <4>3. CASE h.by = <<"post", q>>
        <5>1. q = p
          BY <4>3
        <5> QED BY <3>1, <5>1
      <4> QED BY <1>5, <4>2, <4>3
    <3>3. ASSUME NEW i \in 1..Len(lock')
          PROVE  /\ lock'[i].by[1] = "post" /\ post'[lock'[i].by[2]].run = r
                 /\ lock'[i].op # "filling"
      <4>1. i + 1 \in 2..Len(lock) /\ lock'[i] = lock[i + 1] /\ i + 1 \in 1..Len(lock)
        BY <1>1
      <4>2. PICK q \in Posts : lock[i + 1].by = <<"post", q>>
        <5>1. lock[i + 1].by[1] = "post"
          BY <2>2, <4>1 DEF CallbacksAdd
        <5> QED BY <4>1, <5>1, Entries
      <4>3. lock[i + 1].by[2] = q
        BY <4>2
      <4>4. post[q].run = r
        BY <2>2, <4>1, <4>3 DEF CallbacksAdd
      <4>5. post'[q].run = post[q].run
        BY <1>5
      <4> QED BY <1>6, <4>1, <4>2, <4>3, <4>4, <4>5
    <3> QED BY <3>1, <3>2, <3>3 DEF CallbacksAdd
  <2> QED BY <1>2, <2>1, <2>2 DEF CleanRecord, WritesAreOrdered, Ordered, AllQuiet
<1>12. QuietExits'
  BY <1>1, <1>2 DEF CleanRecord, QuietExits, ExitsQuietly
<1>13. RecordsClose'
  <2>1. SUFFICES ASSUME NEW r \in Runs, flow[r].pc \in {"saving", "closing", "over"}, flow[r].quiet
                 PROVE  /\ \A i \in 1..Len(lock') : lock'[i].by = <<"flow", r>> => Closes(r, lock'[i].rec)
                        /\ Waits(<<"flow", r>>)' \/ (file'.run = r => Closes(r, file'))
    BY <1>2 DEF RecordsClose, StaysClosed, Closes
  <2>2. /\ \A i \in 1..Len(lock) : lock[i].by = <<"flow", r>> => Closes(r, lock[i].rec)
        /\ Waits(<<"flow", r>>) \/ (file.run = r => Closes(r, file))
    BY <2>1 DEF CleanRecord, RecordsClose, StaysClosed
  <2>3. \A i \in 1..Len(lock') : lock'[i].by = <<"flow", r>> => Closes(r, lock'[i].rec)
    BY <1>1, <2>2
  <2>4. CASE h.by = <<"flow", r>>
    BY <1>1, <1>2, <2>2, <2>3, <2>4
  <2>5. CASE h.by # <<"flow", r>> /\ ~Waits(<<"flow", r>>)
    <3>1. CASE h.by[1] \in {"flow", "progress"}
      <4>1. file'.run = h.by[2]
        BY <1>1, <1>2, <3>1 DEF CleanRecord, PutsAreOwn
      <4>2. h.by # <<"progress", r>>
        <5>1. flow[r].posted = "none"
          BY <2>1 DEF CleanRecord, ReportsEnd, ReportsOf, After
        <5>2. ~Waits(<<"progress", r>>)
          BY <5>1 DEF CleanRecord, ReportsEnd, ReportsOf
        <5> QED BY <1>1, <5>2 DEF Waits
      <4>3. h.by[2] # r
        BY <1>1, <2>5, <3>1, <4>2, Entries
      <4> QED BY <2>3, <4>1, <4>3
    <3>2. CASE h.by[1] = "post"
      <4>1. \/ file' \in {NoRecord, file}
            \/ file'.run = post[p].run
        BY <1>1, <1>2, <3>2 DEF IInv, QueueInv, FillsFairly
      <4>2. post[p].run # r
        BY <1>3, <2>1, <3>2 DEF CleanRecord, PostsFollow, InFlight
      <4> QED BY <2>2, <2>3, <2>5, <4>1, <4>2, LocalConstants DEF NoRecord
    <3>3. h.by[1] # "handler"
      BY <1>1 DEF CleanRecord, NoMishap
    <3> QED BY <1>1, <3>1, <3>2, <3>3, Entries
  <2>6. CASE h.by # <<"flow", r>> /\ Waits(<<"flow", r>>)
    BY <1>4, <2>3, <2>6
  <2> QED BY <2>4, <2>5, <2>6
<1> QED BY <1>7, <1>8, <1>9, <1>10, <1>11, <1>12, <1>13 DEF CleanRecord

-----------------------------------------------------------------------------
(* What the steps of a flow set *)

\* The fields of a run's flow, and that the other runs' are as before.
Sets(r, pc, verdict, due, posted, quiet) ==
  /\ flow'[r].pc = pc /\ flow'[r].verdict = verdict /\ flow'[r].due = due
  /\ flow'[r].posted = posted /\ flow'[r].quiet = quiet /\ flow'[r].kind = flow[r].kind
  /\ flow'[r].launched => flow[r].launched \/ pc = "working"
  /\ \A s \in Runs \ {r} : flow'[s] = flow[s]

LEMMA SetsTogether ==
  ASSUME flow \in [Runs -> Flow], NEW r \in Runs, NEW pc, NEW v, NEW q, NEW due, NEW posted, NEW mem
  PROVE  /\ flow' = [flow EXCEPT ![r].pc = pc] =>
              Sets(r, pc, flow[r].verdict, flow[r].due, flow[r].posted, flow[r].quiet)
         /\ flow' = [flow EXCEPT ![r].pc = "working", ![r].launched = TRUE] =>
              Sets(r, "working", flow[r].verdict, flow[r].due, flow[r].posted, flow[r].quiet)
         /\ flow' = [flow EXCEPT ![r].pc = pc, ![r].verdict = v, ![r].quiet = q] =>
              Sets(r, pc, v, flow[r].due, flow[r].posted, q)
         /\ flow' = [flow EXCEPT ![r].pc = pc, ![r].verdict = v, ![r].mem = mem] =>
              Sets(r, pc, v, flow[r].due, flow[r].posted, flow[r].quiet)
         /\ flow' = [flow EXCEPT ![r].pc = pc, ![r].verdict = v, ![r].mem = mem, ![r].quiet = q] =>
              Sets(r, pc, v, flow[r].due, flow[r].posted, q)
         /\ flow' = [flow EXCEPT ![r].due = due] =>
              Sets(r, flow[r].pc, flow[r].verdict, due, flow[r].posted, flow[r].quiet)
         /\ flow' = [flow EXCEPT ![r].due = due, ![r].posted = posted] =>
              Sets(r, flow[r].pc, flow[r].verdict, due, posted, flow[r].quiet)
         /\ flow' = [flow EXCEPT ![r].posted = posted, ![r].mem = mem] =>
              Sets(r, flow[r].pc, flow[r].verdict, flow[r].due, posted, flow[r].quiet)
<1>1. flow' = [flow EXCEPT ![r].pc = pc] =>
        Sets(r, pc, flow[r].verdict, flow[r].due, flow[r].posted, flow[r].quiet)
  BY DEF Sets, Flow
<1>2. flow' = [flow EXCEPT ![r].pc = pc, ![r].verdict = v, ![r].quiet = q] =>
        Sets(r, pc, v, flow[r].due, flow[r].posted, q)
  BY DEF Sets, Flow
<1>3. flow' = [flow EXCEPT ![r].pc = pc, ![r].verdict = v, ![r].mem = mem] =>
        Sets(r, pc, v, flow[r].due, flow[r].posted, flow[r].quiet)
  BY DEF Sets, Flow
<1>4. flow' = [flow EXCEPT ![r].pc = pc, ![r].verdict = v, ![r].mem = mem, ![r].quiet = q] =>
        Sets(r, pc, v, flow[r].due, flow[r].posted, q)
  BY DEF Sets, Flow
<1>5. flow' = [flow EXCEPT ![r].due = due] =>
        Sets(r, flow[r].pc, flow[r].verdict, due, flow[r].posted, flow[r].quiet)
  BY DEF Sets, Flow
<1>6. flow' = [flow EXCEPT ![r].due = due, ![r].posted = posted] =>
        Sets(r, flow[r].pc, flow[r].verdict, due, posted, flow[r].quiet)
  BY DEF Sets, Flow
<1>7. flow' = [flow EXCEPT ![r].posted = posted, ![r].mem = mem] =>
        Sets(r, flow[r].pc, flow[r].verdict, flow[r].due, posted, flow[r].quiet)
  BY DEF Sets, Flow
<1>8. flow' = [flow EXCEPT ![r].pc = "working", ![r].launched = TRUE] =>
        Sets(r, "working", flow[r].verdict, flow[r].due, flow[r].posted, flow[r].quiet)
  BY DEF Sets, Flow
<1> QED BY <1>1, <1>2, <1>3, <1>4, <1>5, <1>6, <1>7, <1>8

-----------------------------------------------------------------------------
(* Steps of one run *)

\* A write of a flow, or of its report, at the end of the queue.
LEMMA EntersQueue ==
  ASSUME IInv, CleanRecord, NEW k \in {"flow", "progress"}, NEW r \in Runs, NEW rec \in Record,
         WriteJob(<<k, r>>, rec), rec.run = r, UNCHANGED <<torn, thrown, handler>>
  PROVE  /\ NoMishap' /\ PutsAreOwn'
         /\ Len(lock') = Len(lock) + 1
         /\ \A i \in 1..Len(lock) : lock'[i] = lock[i]
         /\ lock'[Len(lock) + 1] = [by |-> <<k, r>>, op |-> "put", rec |-> rec]
         /\ \A i \in 1..Len(lock') : i \in 1..Len(lock) \/ i = Len(lock) + 1
         /\ \A v \in Writers : Waits(v)' <=> Waits(v) \/ v = <<k, r>>
<1> DEFINE w == <<k, r>>
<1>1. w \in Writers /\ w[1] = k /\ w[2] = r /\ lock \in Seq(Task) /\ Len(lock) \in Nat
  BY Entries DEF Writers
<1>2. Enqueue(w, "put", rec)
  BY DEF WriteJob
<1> HIDE DEF w
<1>3. /\ Len(lock') = Len(lock) + 1
      /\ \A i \in 1..Len(lock) : lock'[i] = lock[i]
      /\ lock'[Len(lock) + 1] = [by |-> w, op |-> "put", rec |-> rec]
      /\ \A v \in Writers : Waits(v)' <=> Waits(v) \/ v = w
  BY <1>1, <1>2, Grows
<1>4. \A i \in 1..Len(lock') : i \in 1..Len(lock) \/ i = Len(lock) + 1
  BY <1>1, <1>3
<1>5. NoMishap'
  <2>1. \A i \in 1..Len(lock') : lock'[i].by[1] # "handler"
    BY <1>1, <1>3, <1>4 DEF CleanRecord, NoMishap
  <2>2. lock' # <<>> /\ (lock # <<>> => lock'[1] = lock[1]) /\ (lock = <<>> => lock'[1].op = "put")
    BY <1>1, <1>3
  <2> QED BY <2>1, <2>2 DEF CleanRecord, NoMishap
<1>6. PutsAreOwn'
  BY <1>1, <1>3, <1>4 DEF CleanRecord, PutsAreOwn
<1> QED BY <1>3, <1>4, <1>5, <1>6 DEF w

\* What one run does leaves the others' part of the invariant alone.
LEMMA RunActs ==
  ASSUME IInv, IInv', CleanRecord, NEW r \in Runs, \A s \in Runs \ {r} : flow'[s] = flow[s],
         UNCHANGED <<file, torn, post, thrown, handler>>,
         \/ flow'[r].kind = flow[r].kind
         \/ flow[r].pc = "idle" /\ running = NoRun,
         flow'[r].pc \in Before => flow[r].pc \in Before,
         flow'[r].launched => flow[r].launched \/ flow'[r].pc \notin Before,
         flow[r].pc = "over" => flow'[r].pc = "over" /\ flow'[r].quiet = flow[r].quiet,
         \/ session' \in {session, NoRun}
         \/ session' = r /\ flow'[r].kind = "container",
         \/ UNCHANGED lock
         \/ \E k \in {"flow", "progress"}, rec \in Record : WriteJob(<<k, r>>, rec) /\ rec.run = r,
         \/ flow[r].pc \in Live \/ flow'[r].pc \in Live
         \/ UNCHANGED lock /\ (flow[r].due = 0 => flow'[r].due = 0)
         \/ flow[r].due # 0 /\ flow[r].pc = "over" /\ ~flow[r].quiet,
         \A p \in Posts : post[p].pc \in InFlight /\ post[p].run = r =>
                            flow'[r].pc = "working" \/ ~flow'[r].quiet,
         ReportsOf(r)', AllQuiet' => Ordered(r)', ExitsQuietly(r)', StaysClosed(r)'
  PROVE  CleanRecord'
<1>1. /\ NoMishap' /\ PutsAreOwn'
      /\ \A s \in Runs \ {r} :
           /\ Waits(<<"flow", s>>)' <=> Waits(<<"flow", s>>)
           /\ Waits(<<"progress", s>>)' <=> Waits(<<"progress", s>>)
           /\ \A i \in 1..Len(lock') : lock'[i].by = <<"flow", s>> =>
                i \in 1..Len(lock) /\ lock'[i] = lock[i]
  <2>1. CASE UNCHANGED lock
    <3>1. \A v : Waits(v)' <=> Waits(v)
      BY <2>1 DEF Waits
    <3>2. NoMishap' /\ PutsAreOwn'
      BY <2>1 DEF CleanRecord, NoMishap, PutsAreOwn
    <3> QED BY <2>1, <3>1, <3>2
  <2>2. CASE lock' # lock
    <3>1. PICK k \in {"flow", "progress"}, rec \in Record : WriteJob(<<k, r>>, rec) /\ rec.run = r
      BY <2>2
    <3>2. /\ NoMishap' /\ PutsAreOwn'
          /\ \A i \in 1..Len(lock) : lock'[i] = lock[i]
          /\ lock'[Len(lock) + 1] = [by |-> <<k, r>>, op |-> "put", rec |-> rec]
          /\ \A i \in 1..Len(lock') : i \in 1..Len(lock) \/ i = Len(lock) + 1
          /\ \A v \in Writers : Waits(v)' <=> Waits(v) \/ v = <<k, r>>
      BY <3>1, EntersQueue
    <3>3. ASSUME NEW s \in Runs \ {r}, NEW l \in {"flow", "progress"}
          PROVE  <<l, s>> \in Writers /\ <<l, s>> # <<k, r>>
      BY DEF Writers
    <3>4. ASSUME NEW s \in Runs \ {r}, NEW i \in 1..Len(lock'), lock'[i].by = <<"flow", s>>
          PROVE  i \in 1..Len(lock) /\ lock'[i] = lock[i]
      BY <3>2, <3>3, <3>4
    <3> QED BY <3>2, <3>3, <3>4
  <2> QED BY <2>1, <2>2
<1>2. ReportsEnd'
  BY <1>1 DEF CleanRecord, ReportsEnd, ReportsOf
<1>3. PostsFollow'
  <2>1. session' # NoRun => flow'[session'].kind = "container"
    <3>1. CASE session' = session /\ session # NoRun
      <4>1. session \in Runs /\ running # NoRun /\ flow[session].kind = "container"
        BY <3>1 DEF IInv, LocalTypeOK, CleanRecord, PostsFollow
      <4> QED BY <3>1, <4>1
    <3> QED BY <3>1
  <2>2. ASSUME NEW p \in Posts
        PROVE  /\ post'[p].pc \in InFlight \cup {"acked"} =>
                    /\ post'[p].run \in Runs
                    /\ flow'[post'[p].run].kind = "container" /\ flow'[post'[p].run].pc \notin Before
               /\ post'[p].pc \in InFlight =>
                    flow'[post'[p].run].pc = "working" \/ ~flow'[post'[p].run].quiet
    <3>1. SUFFICES ASSUME post[p].pc \in InFlight \cup {"acked"}
                   PROVE  /\ post[p].run \in Runs
                          /\ flow'[post[p].run].kind = "container" /\ flow'[post[p].run].pc \notin Before
                          /\ post[p].pc \in InFlight =>
                               flow'[post[p].run].pc = "working" \/ ~flow'[post[p].run].quiet
      BY DEF InFlight
    <3>2. /\ post[p].run \in Runs
          /\ flow[post[p].run].kind = "container" /\ flow[post[p].run].pc \notin Before
          /\ post[p].pc \in InFlight =>
               flow[post[p].run].pc = "working" \/ ~flow[post[p].run].quiet
      BY <3>1 DEF CleanRecord, PostsFollow
    <3>3. CASE post[p].run = r
      <4>1. flow[r].pc # "idle" /\ flow[r].pc \notin Before
        BY <3>2, <3>3 DEF Before
      <4> QED BY <3>2, <3>3, <4>1
    <3>4. CASE post[p].run # r
      <4>1. flow'[post[p].run] = flow[post[p].run]
        BY <3>2, <3>4
      <4> QED BY <3>2, <4>1
    <3> QED BY <3>3, <3>4
  <2>3. ASSUME NEW s \in Runs, flow'[s].launched PROVE flow'[s].pc \notin Before
    <3>1. flow[s].launched => flow[s].pc \notin Before
      BY DEF CleanRecord, PostsFollow
    <3>2. CASE s = r
      BY <2>3, <3>1, <3>2
    <3>3. CASE s # r
      BY <2>3, <3>1, <3>3
    <3> QED BY <3>2, <3>3
  <2> QED BY <2>1, <2>2, <2>3 DEF PostsFollow
<1>4. WritesAreOrdered'
  <2>1. SUFFICES ASSUME AllQuiet', NEW s \in Runs \ {r} PROVE Ordered(s)'
    BY DEF WritesAreOrdered
  <2>2. AllQuiet
    BY <2>1 DEF AllQuiet
  <2>3. CASE UNCHANGED lock
    <3>1. Ordered(s) /\ flow'[s] = flow[s]
      BY <2>2 DEF CleanRecord, WritesAreOrdered
    <3>2. OwnWrites(s) => OwnWrites(s)'
      BY <1>1, <2>3, <3>1 DEF OwnWrites
    <3>3. CallbacksAdd(s) => CallbacksAdd(s)'
      BY <2>3 DEF CallbacksAdd
    <3> QED BY <3>1, <3>2, <3>3 DEF Ordered
  <2>4. CASE lock' # lock
    <3>1. flow[r].pc \in Live \/ flow'[r].pc \in Live
      BY <2>2, <2>4 DEF AllQuiet
    <3>2. flow'[s].pc \notin Live
      BY <3>1 DEF IInv, LocalTypeOK
    <3> QED BY <3>2 DEF Ordered, Live
  <2> QED BY <2>3, <2>4
<1>5. QuietExits'
  <2>1. SUFFICES ASSUME NEW s \in Runs \ {r} PROVE ExitsQuietly(s)'
    BY DEF QuietExits
  <2>2. CASE flow[r].pc \in Live \/ flow'[r].pc \in Live
    <3>1. flow'[s] = flow[s] /\ s # r
      OBVIOUS
    <3>2. flow'[s].pc \notin Live
      BY <2>2, <3>1 DEF IInv, LocalTypeOK
    <3> QED BY <3>2 DEF ExitsQuietly, Live
  <2>3. CASE UNCHANGED lock /\ (flow[r].due = 0 => flow'[r].due = 0)
    <3>1. SUFFICES ASSUME flow[s].pc = "exited"
                   PROVE  /\ flow[s].kind = "container"
                          /\ flow[s].quiet =>
                               /\ lock = <<>>
                               /\ \A p \in Posts : post[p].pc \notin InFlight
                               /\ \A t \in Runs : flow'[t].due = 0
      BY <2>3 DEF ExitsQuietly
    <3>2. /\ flow[s].kind = "container"
          /\ flow[s].quiet =>
               /\ lock = <<>>
               /\ \A p \in Posts : post[p].pc \notin InFlight
               /\ \A t \in Runs : flow[t].due = 0
      BY <3>1 DEF CleanRecord, QuietExits, ExitsQuietly
    <3>3. ASSUME flow[s].quiet, NEW t \in Runs PROVE flow'[t].due = 0
      <4>1. flow[t].due = 0
        BY <3>2, <3>3
      <4>2. CASE t = r
        BY <2>3, <4>1, <4>2
      <4>3. CASE t # r
        BY <4>1, <4>3
      <4> QED BY <4>2, <4>3
    <3> QED BY <3>2, <3>3
  <2>4. CASE flow[r].due # 0
    <3>1. flow[s].pc = "exited" => flow[s].kind = "container" /\ ~flow[s].quiet
      BY <2>4 DEF CleanRecord, QuietExits, ExitsQuietly
    <3> QED BY <3>1 DEF ExitsQuietly
  <2> QED BY <2>2, <2>3, <2>4
<1>6. RecordsClose'
  <2>1. SUFFICES ASSUME NEW s \in Runs \ {r} PROVE StaysClosed(s)'
    BY DEF RecordsClose
  <2>2. StaysClosed(s) /\ flow'[s] = flow[s] /\ file' = file
    BY DEF CleanRecord, RecordsClose
  <2>3. \A rec : Closes(s, rec) <=> Closes(s, rec)'
    BY <2>2 DEF Closes
  <2>4. Closes(s, file) => Closes(s, file)'
    BY <2>2 DEF Closes
  <2>5. \A i \in 1..Len(lock') : lock'[i].by = <<"flow", s>> =>
          i \in 1..Len(lock) /\ lock'[i] = lock[i]
    BY <1>1
  <2>6. Waits(<<"flow", s>>) => Waits(<<"flow", s>>)'
    BY <1>1
  <2> QED BY <2>2, <2>3, <2>4, <2>5, <2>6 DEF StaysClosed
<1> QED BY <1>1, <1>2, <1>3, <1>4, <1>5, <1>6 DEF CleanRecord

\* Callbacks under way, seen from a run.
LEMMA PostsOf ==
  ASSUME CleanRecord, NEW r \in Runs, NEW p \in Posts, post[p].run = r,
         post[p].pc \in InFlight \cup {"acked"}
  PROVE  /\ flow[r].kind = "container" /\ flow[r].pc \notin Before
         /\ post[p].pc \in InFlight => flow[r].pc = "working" \/ ~flow[r].quiet
BY DEF CleanRecord, PostsFollow

\* While no flow is live and all ended quietly, nothing waits.
LEMMA RestsBetweenRuns ==
  ASSUME IInv, CleanRecord, AllQuiet, running = NoRun
  PROVE  lock = <<>>
<1>1. ASSUME NEW s \in Runs PROVE flow[s].pc = "idle" \/ (flow[s].pc = "over" /\ flow[s].quiet)
  <2>1. flow[s] \in Flow /\ flow[s].pc \notin Live
    BY LocalConstants DEF IInv, LocalTypeOK
  <2>2. flow[s].pc \in {"idle", "over"}
    BY <2>1 DEF Flow
  <2>3. flow[s].pc = "over" => flow[s].quiet
    BY DEF AllQuiet
  <2> QED BY <2>2, <2>3
<1>2. ASSUME NEW s \in Runs PROVE flow[s].pc \notin Saving /\ flow[s].posted = "none"
  <2>1. ReportsOf(s)
    BY DEF CleanRecord, ReportsEnd
  <2> QED BY <1>1, <2>1 DEF ReportsOf, Before, After, Saving
<1>3. ASSUME NEW p \in Posts, post[p].pc = "queued" PROVE FALSE
  <2>1. post[p].run \in Runs
    BY <1>3 DEF IInv, PostsHaveRuns, InFlight
  <2> QED BY <1>1, <1>3, <2>1, PostsOf DEF InFlight, Before
<1> QED BY <1>2, <1>3, QueueIsEmpty

LEMMA StartCleanly ==
  ASSUME IInv, IInv', CleanRecord, NEW r \in Runs, Start(r)
  PROVE  CleanRecord'
<1>1. /\ flow[r].pc = "idle" /\ running = NoRun /\ running' = r
      /\ WriteJob(<<"flow", r>>, RecordOf(r, "running"))
      /\ UNCHANGED <<file, torn, thrown, post, handler, failures>>
  BY DEF Start, JobIsFree
<1>2. RecordOf(r, "running") \in Record /\ RecordOf(r, "running").run = r
  BY RecordsTyped DEF RecordOf, Status
<1>3. /\ flow'[r].pc = "starting" /\ flow'[r].due = flow[r].due /\ flow'[r].posted = flow[r].posted
      /\ flow'[r].launched = flow[r].launched
      /\ \A s \in Runs \ {r} : flow'[s] = flow[s]
      /\ session' \in {session, NoRun} \/ (session' = r /\ flow'[r].kind = "container")
  <2>1. PICK k \in KindsOf[r] :
          /\ session' = IF k = "container" THEN r ELSE session
          /\ flow' = [flow EXCEPT ![r].pc = "starting", ![r].kind = k, ![r].mem = "running"]
    BY DEF Start
  <2>2. flow \in [Runs -> Flow]
    BY DEF IInv, LocalTypeOK
  <2>3. /\ flow'[r].pc = "starting" /\ flow'[r].due = flow[r].due /\ flow'[r].posted = flow[r].posted
        /\ flow'[r].kind = k /\ flow'[r].launched = flow[r].launched
        /\ \A s \in Runs \ {r} : flow'[s] = flow[s]
    BY <2>1, <2>2 DEF Flow
  <2> QED BY <2>1, <2>3
<1>4. /\ Len(lock') = Len(lock) + 1
      /\ lock'[Len(lock) + 1] = [by |-> <<"flow", r>>, op |-> "put", rec |-> RecordOf(r, "running")]
      /\ \A i \in 1..Len(lock') : i \in 1..Len(lock) \/ i = Len(lock) + 1
      /\ \A v \in Writers : Waits(v)' <=> Waits(v) \/ v = <<"flow", r>>
  BY <1>1, <1>2, EntersQueue
<1>5. ReportsOf(r)'
  <2>1. ReportsOf(r)
    BY DEF CleanRecord, ReportsEnd
  <2>2. Waits(<<"progress", r>>)' => Waits(<<"progress", r>>)
    <3>1. <<"progress", r>> \in Writers /\ <<"progress", r>> # <<"flow", r>>
      BY DEF Writers
    <3> QED BY <1>4, <3>1
  <2> QED BY <1>1, <1>3, <2>1, <2>2 DEF ReportsOf, Before
<1>6. AllQuiet' => Ordered(r)'
  <2>1. SUFFICES ASSUME AllQuiet' PROVE OwnWrites(r)'
    BY <1>3 DEF Ordered
  <2>2. AllQuiet
    BY <1>1, <1>3, <2>1 DEF AllQuiet
  <2>3. lock = <<>>
    BY <1>1, <2>2, RestsBetweenRuns
  <2>4. \A i \in 1..Len(lock') : lock'[i].by = <<"flow", r>>
    BY <1>4, <2>3
  <2>5. Waits(<<"flow", r>>)'
    <3>1. <<"flow", r>> \in Writers
      BY DEF Writers
    <3> QED BY <1>4, <3>1
  <2> QED BY <1>3, <2>4, <2>5 DEF OwnWrites
<1>7. ExitsQuietly(r)' /\ StaysClosed(r)'
  BY <1>3 DEF ExitsQuietly, StaysClosed
<1>8. ASSUME NEW p \in Posts, post[p].pc \in InFlight, post[p].run = r PROVE FALSE
  BY <1>1, <1>8, PostsOf DEF Before
<1>9. flow[r].pc \in Before /\ flow'[r].pc \in Live
  BY <1>1, <1>3 DEF Before, Live
<1> QED BY <1>1, <1>2, <1>3, <1>5, <1>6, <1>7, <1>8, <1>9, RunActs

LEMMA PrepareCleanly ==
  ASSUME IInv, IInv', CleanRecord, NEW r \in Runs, Prepare(r)
  PROVE  CleanRecord'
<1> DEFINE rec == RecordOf(r, flow[r].mem)
<1>1. /\ flow[r].pc = "starting" /\ ~Waits(<<"flow", r>>) /\ WriteJob(<<"flow", r>>, rec)
      /\ UNCHANGED <<file, torn, thrown, session, post, handler>>
  BY DEF Prepare, Written
<1>2. Sets(r, "preparing", flow[r].verdict, flow[r].due, flow[r].posted, flow[r].quiet)
  BY SetsTogether DEF Prepare, IInv, LocalTypeOK
<1>3. rec \in Record /\ rec.run = r
  BY RecordsTyped DEF RecordOf, IInv, LocalTypeOK, Flow
<1> HIDE DEF rec
<1>4. /\ Len(lock') = Len(lock) + 1
      /\ \A i \in 1..Len(lock) : lock'[i] = lock[i]
      /\ lock'[Len(lock) + 1] = [by |-> <<"flow", r>>, op |-> "put", rec |-> rec]
      /\ \A i \in 1..Len(lock') : i \in 1..Len(lock) \/ i = Len(lock) + 1
      /\ \A v \in Writers : Waits(v)' <=> Waits(v) \/ v = <<"flow", r>>
  BY <1>1, <1>3, EntersQueue
<1>5. ReportsOf(r)'
  <2>1. ReportsOf(r)
    BY DEF CleanRecord, ReportsEnd
  <2>2. Waits(<<"progress", r>>)' => Waits(<<"progress", r>>)
    <3>1. <<"progress", r>> \in Writers /\ <<"progress", r>> # <<"flow", r>>
      BY DEF Writers
    <3> QED BY <1>4, <3>1
  <2> QED BY <1>1, <1>2, <2>1, <2>2 DEF ReportsOf, Before, Sets
<1>6. AllQuiet' => Ordered(r)'
  <2>1. SUFFICES ASSUME AllQuiet' PROVE OwnWrites(r)'
    BY <1>2 DEF Ordered, Sets
  <2>2. AllQuiet
    BY <1>1, <1>2, <2>1 DEF AllQuiet, Sets
  <2>3. OwnWrites(r)
    BY <1>1, <2>2 DEF CleanRecord, WritesAreOrdered, Ordered
  <2>4. \A i \in 1..Len(lock') : lock'[i].by = <<"flow", r>>
    BY <1>4, <2>3 DEF OwnWrites
  <2> QED BY <1>1, <2>3, <2>4 DEF OwnWrites
<1>7. ExitsQuietly(r)' /\ StaysClosed(r)'
  BY <1>2 DEF ExitsQuietly, StaysClosed, Sets
<1>8. ASSUME NEW p \in Posts, post[p].pc \in InFlight, post[p].run = r PROVE FALSE
  BY <1>1, <1>8, PostsOf DEF Before
<1>9. /\ flow'[r].pc \in Live /\ flow'[r].kind = flow[r].kind
      /\ flow[r].pc \in Before /\ flow[r].pc # "over"
      /\ flow'[r].launched => flow[r].launched \/ flow'[r].pc \notin Before
      /\ \A s \in Runs \ {r} : flow'[s] = flow[s]
  BY <1>1, <1>2 DEF Before, Live, Sets
<1> QED BY <1>1, <1>3, <1>5, <1>6, <1>7, <1>8, <1>9, RunActs

LEMMA LaunchCleanly ==
  ASSUME IInv, IInv', CleanRecord, NEW r \in Runs, Launch(r)
  PROVE  CleanRecord'
<1>1. /\ flow[r].pc = "preparing" /\ ~Waits(<<"flow", r>>)
      /\ UNCHANGED <<file, torn, lock, thrown, session, post, handler>>
  BY DEF Launch, Written
<1>2. Sets(r, "working", flow[r].verdict, flow[r].due, flow[r].posted, flow[r].quiet)
  BY SetsTogether DEF Launch, IInv, LocalTypeOK
<1>3. ReportsOf(r)'
  <2>1. ReportsOf(r)
    BY DEF CleanRecord, ReportsEnd
  <2> QED BY <1>1, <1>2, <2>1 DEF ReportsOf, Before, Sets, Waits
<1>4. AllQuiet' => Ordered(r)'
  <2>1. SUFFICES ASSUME AllQuiet' PROVE CallbacksAdd(r)'
    BY <1>2 DEF Ordered, Sets
  <2>2. AllQuiet
    BY <1>1, <1>2, <2>1 DEF AllQuiet, Sets
  <2>3. OwnWrites(r)
    BY <1>1, <2>2 DEF CleanRecord, WritesAreOrdered, Ordered
  <2>4. file.run = r /\ lock = <<>>
    BY <1>1, <2>3, Entries DEF OwnWrites, Waits
  <2>5. \A p \in Posts : ~(post[p].pc = "acked" /\ post[p].run = r)
    BY <1>1, PostsOf DEF Before
  <2> QED BY <1>1, <2>4, <2>5 DEF CallbacksAdd
<1>5. ExitsQuietly(r)' /\ StaysClosed(r)'
  BY <1>2 DEF ExitsQuietly, StaysClosed, Sets
<1>6. /\ flow'[r].pc = "working" /\ flow'[r].kind = flow[r].kind
      /\ flow'[r].pc \notin Before /\ flow[r].pc \in Live /\ flow[r].pc # "over"
      /\ flow'[r].launched => flow[r].launched \/ flow'[r].pc \notin Before
      /\ \A s \in Runs \ {r} : flow'[s] = flow[s]
  BY <1>1, <1>2 DEF Before, Live, Sets
<1> QED BY <1>1, <1>3, <1>4, <1>5, <1>6, RunActs

LEMMA ExitCleanly ==
  ASSUME IInv, IInv', CleanRecord, NEW r \in Runs, Exit(r)
  PROVE  CleanRecord'
<1>1. /\ flow[r].pc = "working" /\ flow[r].kind = "container"
      /\ UNCHANGED <<file, torn, lock, thrown, session, post, handler>>
  BY DEF Exit
<1>2. PICK v \in {"succeeded", "failed", "missing"} :
        flow' = [flow EXCEPT ![r].pc = "exited", ![r].verdict = v, ![r].quiet = Quiet]
  BY DEF Exit
<1>3. Sets(r, "exited", v, flow[r].due, flow[r].posted, Quiet)
  BY <1>2, SetsTogether DEF IInv, LocalTypeOK
<1>4. ReportsOf(r)'
  <2>1. ReportsOf(r)
    BY DEF CleanRecord, ReportsEnd
  <2> QED BY <1>1, <1>3, <2>1 DEF ReportsOf, Sets, Waits
<1>5. AllQuiet' => Ordered(r)'
  <2>1. SUFFICES ASSUME AllQuiet' PROVE CallbacksAdd(r)'
    BY <1>3 DEF Ordered, Sets
  <2>2. AllQuiet
    BY <1>1, <1>3, <2>1 DEF AllQuiet, Sets
  <2>3. CallbacksAdd(r)
    BY <1>1, <2>2 DEF CleanRecord, WritesAreOrdered, Ordered
  <2> QED BY <1>1, <2>3 DEF CallbacksAdd
<1>6. ExitsQuietly(r)'
  <2>1. SUFFICES ASSUME Quiet
                 PROVE  lock = <<>> /\ \A s \in Runs : flow'[s].due = 0
    BY <1>1, <1>3 DEF ExitsQuietly, Sets, Quiet
  <2>2. \A s \in Runs : flow[s].due = 0 /\ flow[s].posted = "none"
    BY <2>1 DEF Quiet
  <2>3. \A p \in Posts : post[p].pc # "queued"
    BY <2>1 DEF Quiet, InFlight
  <2>4. \A s \in Runs : flow[s].pc \notin Saving
    <3>1. ASSUME NEW s \in Runs, flow[s].pc \in Saving PROVE FALSE
      <4>1. flow[s].pc \in Live /\ flow[r].pc \in Live
        BY <1>1, <3>1 DEF Live, Saving
      <4> QED BY <1>1, <3>1, <4>1, LiveIsOne DEF Saving
    <3> QED BY <3>1
  <2>5. lock = <<>>
    BY <2>2, <2>3, <2>4, QueueIsEmpty
  <2>6. ASSUME NEW s \in Runs PROVE flow'[s].due = 0
    <3>1. CASE s = r
      BY <1>3, <2>2, <3>1 DEF Sets
    <3>2. CASE s # r
      BY <1>3, <2>2, <3>2 DEF Sets
    <3> QED BY <3>1, <3>2
  <2> QED BY <2>5, <2>6
<1>7. StaysClosed(r)'
  BY <1>3 DEF StaysClosed, Sets
<1>8. ASSUME NEW p \in Posts, post[p].pc \in InFlight PROVE ~flow'[r].quiet
  BY <1>3, <1>8 DEF Quiet, Sets
<1>9. /\ flow'[r].kind = flow[r].kind
      /\ flow'[r].pc \notin Before /\ flow[r].pc \in Live /\ flow[r].pc # "over"
      /\ \A s \in Runs \ {r} : flow'[s] = flow[s]
  BY <1>1, <1>3 DEF Before, Live, Sets
<1> QED BY <1>1, <1>4, <1>5, <1>6, <1>7, <1>8, <1>9, RunActs

LEMMA FinalizeCleanly ==
  ASSUME IInv, IInv', CleanRecord, NEW r \in Runs, Finalize(r)
  PROVE  CleanRecord'
<1> DEFINE outcome == IF flow[r].verdict = "succeeded" THEN "succeeded" ELSE "failed"
           rec == [ReadJob EXCEPT !.status = outcome]
<1>1. /\ flow[r].pc = "exited" /\ flow[r].kind = "container"
      /\ UNCHANGED <<file, torn, thrown, post>>
      /\ flow[r].quiet => lock = <<>> /\ ReadJob = file
  <2>1. ExitsQuietly(r) /\ NoMishap
    BY DEF CleanRecord, QuietExits
  <2> QED BY <2>1 DEF Finalize, ExitsQuietly, NoMishap, ReadJob
<1>2. \/ /\ ReadJob.run # r \/ Closed(flow[r].verdict, ReadJob.status)
         /\ End(r, FALSE) /\ UNCHANGED lock
      \/ /\ ReadJob.run = r
         /\ flow' = [flow EXCEPT ![r].pc = "closing"]
         /\ WriteJob(<<"flow", r>>, rec)
         /\ UNCHANGED <<running, session, handler>>
  BY DEF Finalize
<1>3. ASSUME NEW p \in Posts, post[p].pc \in InFlight, post[p].run = r PROVE ~flow[r].quiet
  BY <1>1, <1>3, PostsOf
<1>4. CASE /\ ReadJob.run # r \/ Closed(flow[r].verdict, ReadJob.status)
           /\ End(r, FALSE) /\ UNCHANGED lock
  <2>1. Sets(r, "over", flow[r].verdict, flow[r].due, flow[r].posted, flow[r].quiet)
        /\ session' = NoRun /\ handler' = handler
    BY <1>4, SetsTogether DEF End, IInv, LocalTypeOK
  <2>2. ReportsOf(r)'
    <3>1. ReportsOf(r)
      BY DEF CleanRecord, ReportsEnd
    <3> QED BY <1>1, <1>4, <2>1, <3>1 DEF ReportsOf, Sets, Waits
  <2>3. (AllQuiet' => Ordered(r)') /\ ExitsQuietly(r)'
    BY <2>1 DEF Ordered, ExitsQuietly, Sets
  <2>4. StaysClosed(r)'
    <3>1. SUFFICES ASSUME flow[r].quiet
                   PROVE  lock' = <<>> /\ (file'.run = r => Closes(r, file)')
      BY <2>1 DEF StaysClosed, Sets
    <3>2. file.run = r => Closed(flow[r].verdict, file.status)
      BY <1>1, <1>4, <3>1
    <3> QED BY <1>1, <1>4, <2>1, <3>1, <3>2 DEF Closed, Closes, Sets, Done
  <2>5. /\ flow'[r].kind = flow[r].kind /\ flow'[r].quiet = flow[r].quiet
        /\ flow'[r].pc \notin Before /\ flow[r].pc \in Live /\ flow[r].pc # "over"
        /\ \A s \in Runs \ {r} : flow'[s] = flow[s]
    BY <1>1, <2>1 DEF Before, Live, Sets
  <2> QED BY <1>1, <1>3, <1>4, <2>1, <2>2, <2>3, <2>4, <2>5, RunActs
<1>5. CASE /\ ReadJob.run = r
           /\ flow' = [flow EXCEPT ![r].pc = "closing"]
           /\ WriteJob(<<"flow", r>>, rec)
           /\ UNCHANGED <<running, session, handler>>
  <2>1. Sets(r, "closing", flow[r].verdict, flow[r].due, flow[r].posted, flow[r].quiet)
    BY <1>5, SetsTogether DEF IInv, LocalTypeOK
  <2>2. rec \in Record /\ rec.run = r /\ rec.status = outcome
    <3>1. ReadJob \in Record
      BY ReadsTyped DEF IInv
    <3> QED BY <1>5, <3>1 DEF Record, Status
  <2> HIDE DEF rec
  <2>3. /\ Len(lock') = Len(lock) + 1
        /\ lock'[Len(lock) + 1] = [by |-> <<"flow", r>>, op |-> "put", rec |-> rec]
        /\ \A i \in 1..Len(lock') : i \in 1..Len(lock) \/ i = Len(lock) + 1
        /\ \A v \in Writers : Waits(v)' <=> Waits(v) \/ v = <<"flow", r>>
    BY <1>1, <1>5, <2>2, EntersQueue
  <2>4. ReportsOf(r)'
    <3>1. ReportsOf(r)
      BY DEF CleanRecord, ReportsEnd
    <3>2. Waits(<<"progress", r>>)' => Waits(<<"progress", r>>)
      <4>1. <<"progress", r>> \in Writers /\ <<"progress", r>> # <<"flow", r>>
        BY DEF Writers
      <4> QED BY <2>3, <4>1
    <3> QED BY <1>1, <2>1, <3>1, <3>2 DEF ReportsOf, Sets
  <2>5. (AllQuiet' => Ordered(r)') /\ ExitsQuietly(r)'
    BY <2>1 DEF Ordered, ExitsQuietly, Sets
  <2>6. StaysClosed(r)'
    <3>1. SUFFICES ASSUME flow[r].quiet
                   PROVE  /\ \A i \in 1..Len(lock') : lock'[i].by = <<"flow", r>> => Closes(r, lock[i].rec)'
                          /\ Waits(<<"flow", r>>)'
      BY <2>1 DEF StaysClosed, Sets
    <3>2. lock = <<>>
      BY <1>1, <3>1
    <3>3. Waits(<<"flow", r>>)'
      <4>1. <<"flow", r>> \in Writers
        BY DEF Writers
      <4> QED BY <2>3, <4>1
    <3>4. ASSUME NEW i \in 1..Len(lock') PROVE lock'[i].rec = rec
      BY <2>3, <3>2
    <3>5. /\ rec.status \in Done /\ flow'[r].kind = "container"
          /\ flow'[r].verdict # "succeeded" => rec.status = "failed"
      BY <1>1, <2>1, <2>2 DEF Done, Sets
    <3>6. \A i \in 1..Len(lock') : Closes(r, lock[i].rec)'
      BY <1>1, <3>4, <3>5, <2>1 DEF Closes, Sets
    <3> QED BY <3>3, <3>6
  <2>7. /\ flow'[r].kind = flow[r].kind /\ flow'[r].quiet = flow[r].quiet
        /\ flow'[r].pc \notin Before /\ flow[r].pc \in Live /\ flow[r].pc # "over"
        /\ \A s \in Runs \ {r} : flow'[s] = flow[s]
    BY <1>1, <2>1 DEF Before, Live, Sets
  <2> QED BY <1>1, <1>3, <1>5, <2>2, <2>4, <2>5, <2>6, <2>7, RunActs
<1> QED BY <1>2, <1>4, <1>5

LEMMA FinishCleanly ==
  ASSUME IInv, IInv', CleanRecord, NEW r \in Runs, Finish(r)
  PROVE  CleanRecord'
<1>1. /\ flow[r].pc \in {"saving", "closing"} /\ ~Waits(<<"flow", r>>)
      /\ UNCHANGED <<file, torn, lock, thrown, post, handler>> /\ session' = NoRun
  BY DEF Finish, Written, End
<1>2. Sets(r, "over", flow[r].verdict, flow[r].due, flow[r].posted, flow[r].quiet)
  BY SetsTogether DEF Finish, End, IInv, LocalTypeOK
<1>3. ReportsOf(r)'
  <2>1. ReportsOf(r)
    BY DEF CleanRecord, ReportsEnd
  <2> QED BY <1>1, <1>2, <2>1 DEF ReportsOf, Before, After, Sets, Waits
<1>4. (AllQuiet' => Ordered(r)') /\ ExitsQuietly(r)'
  BY <1>2 DEF Ordered, ExitsQuietly, Sets
<1>5. StaysClosed(r)'
  <2>1. SUFFICES ASSUME flow[r].quiet
                 PROVE  /\ \A i \in 1..Len(lock') : lock'[i].by # <<"flow", r>>
                        /\ file'.run = r => Closes(r, file)'
    BY <1>2 DEF StaysClosed, Sets
  <2>2. file.run = r => Closes(r, file)
    BY <1>1, <2>1 DEF CleanRecord, RecordsClose, StaysClosed
  <2>3. \A i \in 1..Len(lock) : lock[i].by # <<"flow", r>>
    BY <1>1, Entries DEF Waits
  <2> QED BY <1>1, <1>2, <2>2, <2>3 DEF Closes, Sets
<1>6. ASSUME NEW p \in Posts, post[p].pc \in InFlight, post[p].run = r PROVE ~flow'[r].quiet
  BY <1>1, <1>2, <1>6, PostsOf DEF Sets
<1>7. /\ flow'[r].kind = flow[r].kind
      /\ flow'[r].pc \notin Before /\ flow[r].pc \in Live /\ flow[r].pc # "over"
      /\ flow'[r].launched => flow[r].launched \/ flow'[r].pc \notin Before
      /\ \A s \in Runs \ {r} : flow'[s] = flow[s]
  BY <1>1, <1>2 DEF Before, Live, Sets
<1> QED BY <1>1, <1>3, <1>4, <1>5, <1>6, <1>7, RunActs

\* No callback belongs to a flow that keeps its record in memory.
LEMMA MemoryHasNoPosts ==
  ASSUME CleanRecord, NEW r \in Runs, flow[r].kind = "memory", NEW p \in Posts,
         post[p].run = r, post[p].pc \in InFlight
  PROVE  FALSE
BY PostsOf DEF InFlight

LEMMA ReportCleanly ==
  ASSUME IInv, IInv', CleanRecord, NEW r \in Runs, Report(r)
  PROVE  CleanRecord'
<1>1. /\ flow[r].pc = "working" /\ flow[r].kind = "memory"
      /\ UNCHANGED <<file, torn, lock, thrown, session, post, handler>>
  BY DEF Report
<1>2. Sets(r, "working", flow[r].verdict, flow[r].due + 1, flow[r].posted, flow[r].quiet)
  BY <1>1, SetsTogether DEF Report, IInv, LocalTypeOK
<1>3. ReportsOf(r)'
  <2>1. ReportsOf(r)
    BY DEF CleanRecord, ReportsEnd
  <2> QED BY <1>1, <1>2, <2>1 DEF ReportsOf, Before, After, Sets, Waits
<1>4. (AllQuiet' => Ordered(r)') /\ ExitsQuietly(r)' /\ StaysClosed(r)'
  BY <1>1, <1>2 DEF Ordered, ExitsQuietly, StaysClosed, Sets
<1>5. /\ flow'[r].kind = flow[r].kind
      /\ flow'[r].pc \notin Before /\ flow[r].pc \in Live /\ flow[r].pc # "over"
      /\ flow'[r].launched => flow[r].launched \/ flow'[r].pc \notin Before
      /\ \A s \in Runs \ {r} : flow'[s] = flow[s]
  BY <1>1, <1>2 DEF Before, Live, Sets
<1> QED BY <1>1, <1>3, <1>4, <1>5, MemoryHasNoPosts, RunActs

\* A report is due, or being posted, only for a storage copy at work, or for one that
\* did not wait for it.
LEMMA ReportsComeFrom ==
  ASSUME IInv, CleanRecord, NEW r \in Runs, flow[r].due # 0 \/ flow[r].posted # "none"
  PROVE  /\ flow[r].kind = "memory" /\ flow[r].pc \notin Before /\ flow[r].pc # "exited"
         /\ flow[r].pc \in After => ~flow[r].quiet
         /\ flow[r].pc \in Live \/ flow[r].pc = "over"
<1>1. ReportsOf(r) /\ flow[r] \in Flow /\ ExitsQuietly(r)
  BY DEF CleanRecord, ReportsEnd, QuietExits, IInv, LocalTypeOK
<1>2. flow[r].kind = "memory" /\ flow[r].pc \notin Before
  BY <1>1 DEF ReportsOf, Flow, Kinds
<1>3. flow[r].pc \in After => ~flow[r].quiet
  BY <1>1 DEF ReportsOf
<1>4. flow[r].pc # "exited"
  BY <1>1, <1>2 DEF ExitsQuietly
<1>5. flow[r].pc \in Live \/ flow[r].pc = "over"
  BY <1>1, <1>2 DEF Flow, Before
<1> QED BY <1>2, <1>3, <1>4, <1>5

LEMMA PostProgressCleanly ==
  ASSUME IInv, IInv', CleanRecord, NEW r \in Runs, PostProgress(r)
  PROVE  CleanRecord'
<1> DEFINE rec == RecordOf(r, flow[r].mem)
<1>1. /\ flow[r].due # 0 /\ WriteJob(<<"progress", r>>, rec) /\ flow[r] \in Flow
      /\ UNCHANGED <<file, torn, thrown, session, post, handler>>
  BY DEF PostProgress, IInv, LocalTypeOK
<1>2. Sets(r, flow[r].pc, flow[r].verdict, flow[r].due - 1, flow[r].mem, flow[r].quiet)
  BY SetsTogether DEF PostProgress, IInv, LocalTypeOK
<1>3. /\ flow[r].kind = "memory" /\ flow[r].pc \notin Before /\ flow[r].pc # "exited"
      /\ flow[r].pc \in After => ~flow[r].quiet
      /\ flow[r].pc \in Live \/ flow[r].pc = "over"
  BY <1>1, ReportsComeFrom
<1>4. rec \in Record /\ rec.run = r /\ flow[r].mem # "none"
  BY <1>1, RecordsTyped DEF RecordOf, Flow, Status
<1> HIDE DEF rec
<1>5. ReportsOf(r)'
  BY <1>2, <1>3, <1>4 DEF ReportsOf, Sets
<1>6. (AllQuiet' => Ordered(r)') /\ ExitsQuietly(r)' /\ StaysClosed(r)'
  BY <1>2, <1>3 DEF Ordered, ExitsQuietly, StaysClosed, Sets, After, Before
<1>7. /\ flow'[r].kind = flow[r].kind /\ flow'[r].pc = flow[r].pc /\ flow'[r].quiet = flow[r].quiet
      /\ \A s \in Runs \ {r} : flow'[s] = flow[s]
      /\ flow[r].pc = "over" => ~flow[r].quiet
  BY <1>2, <1>3 DEF Sets, After
<1> QED BY <1>1, <1>3, <1>4, <1>5, <1>6, <1>7, MemoryHasNoPosts, RunActs

LEMMA ProgressPostedCleanly ==
  ASSUME IInv, IInv', CleanRecord, NEW r \in Runs, ProgressPosted(r)
  PROVE  CleanRecord'
<1>1. /\ flow[r].posted # "none" /\ ~Waits(<<"progress", r>>)
      /\ UNCHANGED <<file, torn, lock, thrown, session, post, handler>>
      /\ flow' = [flow EXCEPT ![r].posted = "none", ![r].mem = flow[r].posted]
  BY DEF ProgressPosted, CleanRecord, NoMishap
<1>2. Sets(r, flow[r].pc, flow[r].verdict, flow[r].due, "none", flow[r].quiet)
  BY <1>1, SetsTogether DEF IInv, LocalTypeOK
<1>3. /\ flow[r].kind = "memory" /\ flow[r].pc \notin Before /\ flow[r].pc # "exited"
      /\ flow[r].pc \in After => ~flow[r].quiet
  BY <1>1, ReportsComeFrom
<1>4. ReportsOf(r)'
  BY <1>1, <1>2, <1>3 DEF ReportsOf, Sets, Waits
<1>5. (AllQuiet' => Ordered(r)') /\ ExitsQuietly(r)' /\ StaysClosed(r)'
  BY <1>2, <1>3 DEF Ordered, ExitsQuietly, StaysClosed, Sets, After, Before
<1>6. /\ flow'[r].kind = flow[r].kind /\ flow'[r].pc = flow[r].pc /\ flow'[r].quiet = flow[r].quiet
      /\ flow'[r].due = flow[r].due
      /\ \A s \in Runs \ {r} : flow'[s] = flow[s]
  BY <1>2 DEF Sets
<1> QED BY <1>1, <1>3, <1>4, <1>5, <1>6, MemoryHasNoPosts, RunActs

\* The last write of a storage copy closes its record.
LEMMA SavesCleanly ==
  ASSUME IInv, IInv', CleanRecord, NEW r \in Runs, NEW pc \in {"saving", "closing"},
         NEW v \in Done, NEW q \in BOOLEAN,
         flow[r].pc = "working", flow[r].kind = "memory",
         Sets(r, pc, v, flow[r].due, flow[r].posted, q),
         q => flow[r].due = 0 /\ flow[r].posted = "none",
         WriteJob(<<"flow", r>>, RecordOf(r, v)),
         UNCHANGED <<file, torn, thrown, session, post, handler>>
  PROVE  CleanRecord'
<1> DEFINE rec == RecordOf(r, v)
<1>1. rec \in Record /\ rec.run = r /\ rec.status = v
  BY RecordsTyped DEF RecordOf, Done, Status
<1> HIDE DEF rec
<1>2. WriteJob(<<"flow", r>>, rec)
  BY DEF rec
<1>3. /\ Len(lock') = Len(lock) + 1
      /\ \A i \in 1..Len(lock) : lock'[i] = lock[i]
      /\ lock'[Len(lock) + 1] = [by |-> <<"flow", r>>, op |-> "put", rec |-> rec]
      /\ \A i \in 1..Len(lock') : i \in 1..Len(lock) \/ i = Len(lock) + 1
      /\ \A w \in Writers : Waits(w)' <=> Waits(w) \/ w = <<"flow", r>>
  BY <1>1, <1>2, EntersQueue
<1>4. ReportsOf(r)'
  <2>1. ReportsOf(r)
    BY DEF CleanRecord, ReportsEnd
  <2>2. Waits(<<"progress", r>>)' => Waits(<<"progress", r>>)
    <3>1. <<"progress", r>> \in Writers /\ <<"progress", r>> # <<"flow", r>>
      BY DEF Writers
    <3> QED BY <1>3, <3>1
  <2>3. flow'[r].pc \notin Before /\ flow'[r].kind = "memory"
    BY DEF Before, Sets
  <2> QED BY <2>1, <2>2, <2>3 DEF ReportsOf, Sets
<1>5. (AllQuiet' => Ordered(r)') /\ ExitsQuietly(r)'
  BY DEF Ordered, ExitsQuietly, Sets
<1>6. StaysClosed(r)'
  <2>1. ~Waits(<<"flow", r>>)
    BY DEF IInv, WritersAreLive, Saving
  <2>2. \A i \in 1..Len(lock) : lock[i].by # <<"flow", r>>
    BY <2>1, Entries DEF Waits
  <2>3. ASSUME NEW i \in 1..Len(lock'), lock'[i].by = <<"flow", r>> PROVE lock'[i].rec = rec
    BY <1>3, <2>2, <2>3
  <2>4. Waits(<<"flow", r>>)'
    <3>1. <<"flow", r>> \in Writers
      BY DEF Writers
    <3> QED BY <1>3, <3>1
  <2>5. /\ rec.status \in Done /\ rec.status = flow'[r].verdict
        /\ rec.status # "succeeded" => rec.status = "failed"
    BY <1>1 DEF Done, Sets
  <2>6. \A i \in 1..Len(lock') : lock'[i].by = <<"flow", r>> => Closes(r, lock[i].rec)'
    BY <2>3, <2>5 DEF Closes
  <2> QED BY <2>4, <2>6 DEF StaysClosed
<1>7. /\ flow'[r].kind = flow[r].kind
      /\ flow'[r].pc \notin Before /\ flow[r].pc \in Live /\ flow[r].pc # "over"
      /\ \A s \in Runs \ {r} : flow'[s] = flow[s]
  BY DEF Before, Live, Sets
<1> QED BY <1>1, <1>2, <1>4, <1>5, <1>6, <1>7, MemoryHasNoPosts, RunActs

LEMMA EngineReturnsCleanly ==
  ASSUME IInv, IInv', CleanRecord, NEW r \in Runs, EngineReturns(r)
  PROVE  CleanRecord'
<1>1. /\ flow[r].pc = "working" /\ flow[r].kind = "memory"
      /\ flow[r].due = 0 /\ flow[r].posted = "none"
      /\ flow \in [Runs -> Flow] /\ flow[r].quiet \in BOOLEAN
      /\ UNCHANGED <<file, torn, thrown, session, post, handler>>
  BY DEF EngineReturns, IInv, LocalTypeOK, Flow
<1>2. PICK v \in Done :
        /\ flow' = [flow EXCEPT ![r].pc = "saving", ![r].verdict = v, ![r].mem = v]
        /\ WriteJob(<<"flow", r>>, RecordOf(r, v))
  BY DEF EngineReturns
<1>3. Sets(r, "saving", v, flow[r].due, flow[r].posted, flow[r].quiet)
  BY <1>1, <1>2, SetsTogether
<1> QED BY <1>1, <1>2, <1>3, SavesCleanly

LEMMA EngineThrowsCleanly ==
  ASSUME IInv, IInv', CleanRecord, NEW r \in Runs, EngineThrows(r)
  PROVE  CleanRecord'
<1>1. /\ flow[r].pc = "working" /\ flow[r].kind = "memory" /\ flow \in [Runs -> Flow]
      /\ flow' = [flow EXCEPT ![r].pc = "closing", ![r].verdict = "failed",
                              ![r].mem = "failed", ![r].quiet = Quiet]
      /\ WriteJob(<<"flow", r>>, RecordOf(r, "failed"))
      /\ UNCHANGED <<file, torn, thrown, session, post, handler>>
  BY DEF EngineThrows, Catch, IInv, LocalTypeOK
<1>2. Sets(r, "closing", "failed", flow[r].due, flow[r].posted, Quiet)
  BY <1>1, SetsTogether
<1>3. Quiet => flow[r].due = 0 /\ flow[r].posted = "none"
  BY DEF Quiet
<1>4. Quiet \in BOOLEAN /\ "failed" \in Done
  BY DEF Quiet, Done
<1> QED BY <1>1, <1>2, <1>3, <1>4, SavesCleanly

-----------------------------------------------------------------------------
(* Callbacks arrive *)

LEMMA ArriveCleanly ==
  ASSUME IInv, IInv', CleanRecord, NEW p \in Posts, Arrive(p)
  PROVE  CleanRecord'
<1>1. /\ post[p].pc = "unsent" /\ session \in Runs /\ running = session
      /\ flow[session].pc \in Live \ Before /\ flow[session].kind = "container"
      /\ UNCHANGED <<file, torn, lock, thrown, running, session, handler>>
  BY DEF Arrive, IInv, LocalTypeOK, CleanRecord, PostsFollow
<1>2. /\ post'[p].pc = "reading" /\ post'[p].run = session
      /\ \A q \in Posts \ {p} : post'[q] = post[q]
  BY DEF Arrive, IInv, LocalTypeOK
<1>3. \A v : Waits(v)' <=> Waits(v)
  BY <1>1 DEF Waits
<1>9. \A s \in Runs :
        /\ flow'[s].pc = flow[s].pc /\ flow'[s].kind = flow[s].kind
        /\ flow'[s].launched = flow[s].launched /\ flow'[s].verdict = flow[s].verdict
        /\ flow'[s].due = flow[s].due /\ flow'[s].posted = flow[s].posted
        /\ s # session => flow'[s].quiet = flow[s].quiet
        /\ s = session => (flow'[s].quiet <=> flow[s].quiet /\ flow[s].pc = "working")
  <2>1. flow \in [Runs -> Flow]
    BY DEF IInv, LocalTypeOK
  <2> QED BY <1>1, <2>1 DEF Arrive, Flow
<1>4. NoMishap' /\ PutsAreOwn' /\ ReportsEnd'
  BY <1>1, <1>3, <1>9 DEF CleanRecord, NoMishap, PutsAreOwn, ReportsEnd, ReportsOf, After
<1>5. PostsFollow'
  <2>1. ASSUME NEW q \in Posts
        PROVE  /\ post'[q].pc \in InFlight \cup {"acked"} =>
                    /\ post'[q].run \in Runs
                    /\ flow'[post'[q].run].kind = "container" /\ flow'[post'[q].run].pc \notin Before
               /\ post'[q].pc \in InFlight =>
                    flow'[post'[q].run].pc = "working" \/ ~flow'[post'[q].run].quiet
    <3>1. CASE q = p
      BY <1>1, <1>2, <1>9, <3>1
    <3>2. CASE q # p
      BY <1>2, <1>9, <3>2 DEF CleanRecord, PostsFollow
    <3> QED BY <3>1, <3>2
  <2> QED BY <1>1, <1>9, <2>1 DEF CleanRecord, PostsFollow
<1>6. WritesAreOrdered'
  <2>1. SUFFICES ASSUME AllQuiet, NEW s \in Runs PROVE Ordered(s)'
    BY <1>1, <1>9 DEF WritesAreOrdered, AllQuiet, Live
  <2>2. Ordered(s)
    BY <2>1 DEF CleanRecord, WritesAreOrdered
  <2>3. OwnWrites(s) => OwnWrites(s)'
    BY <1>1, <1>3, <1>9 DEF OwnWrites
  <2>4. CallbacksAdd(s) => CallbacksAdd(s)'
    <3>1. SUFFICES ASSUME CallbacksAdd(s) PROVE CallbacksAdd(s)'
      OBVIOUS
    <3>2. \A q \in Posts : post'[q].pc = "acked" /\ post'[q].run = s => q \in file.events
      BY <1>2, <3>1 DEF CallbacksAdd
    <3>3. ASSUME NEW i \in 1..Len(lock) PROVE post'[lock[i].by[2]].run = s
      <4>1. PICK q \in Posts : lock[i].by = <<"post", q>> /\ post[q].pc = "queued"
        <5>1. lock[i].by[1] = "post"
          BY <3>1 DEF CallbacksAdd
        <5> QED BY <5>1, Entries
      <4>2. lock[i].by[2] = q /\ post[q].run = s
        BY <3>1, <4>1 DEF CallbacksAdd
      <4>3. q # p
        BY <1>1, <4>1
      <4> QED BY <1>2, <4>2, <4>3
    <3> QED BY <1>1, <3>1, <3>2, <3>3 DEF CallbacksAdd
  <2> QED BY <1>9, <2>2, <2>3, <2>4 DEF Ordered
<1>7. QuietExits'
  <2>1. ASSUME NEW s \in Runs, flow[s].pc = "exited" PROVE s = session
    BY <1>1, <2>1, LiveIsOne DEF Live
  <2> QED BY <1>1, <1>9, <2>1 DEF QuietExits, ExitsQuietly
<1>8. RecordsClose'
  <2>1. SUFFICES ASSUME NEW s \in Runs, flow[s].pc \in {"saving", "closing", "over"}, flow'[s].quiet
                 PROVE  StaysClosed(s)'
    BY <1>9 DEF RecordsClose, StaysClosed
  <2>2. flow[s].quiet
    BY <1>9, <2>1
  <2>3. \A rec : Closes(s, rec) <=> Closes(s, rec)'
    BY <1>9 DEF Closes
  <2>4. Closes(s, file) => Closes(s, file)'
    BY <1>1, <1>9 DEF Closes
  <2> QED BY <1>1, <1>3, <2>1, <2>2, <2>3, <2>4 DEF CleanRecord, RecordsClose, StaysClosed
<1> QED BY <1>4, <1>5, <1>6, <1>7, <1>8 DEF CleanRecord

LEMMA AcceptCleanly ==
  ASSUME IInv, IInv', CleanRecord, NEW p \in Posts, Accept(p)
  PROVE  CleanRecord'
<1> DEFINE w == <<"post", p>>
<1>1. /\ post[p].pc = "reading" /\ Enqueue(w, "read", NoRecord)
      /\ UNCHANGED <<file, torn, thrown, running, session, flow, handler>>
  BY DEF Accept
<1>2. /\ post'[p].pc = "queued" /\ post'[p].run = post[p].run
      /\ \A q \in Posts \ {p} : post'[q] = post[q]
  BY DEF Accept, IInv, LocalTypeOK, Post
<1>3. w \in Writers /\ w[1] = "post" /\ w[2] = p /\ lock \in Seq(Task) /\ Len(lock) \in Nat
      /\ \A k \in {"flow", "progress"}, r \in Runs : <<k, r>> \in Writers /\ <<k, r>> # w
  BY Entries DEF Writers
<1> HIDE DEF w
<1>4. /\ Len(lock') = Len(lock) + 1
      /\ \A i \in 1..Len(lock) : lock'[i] = lock[i]
      /\ lock'[Len(lock) + 1] = [by |-> w, op |-> "read", rec |-> NoRecord]
      /\ \A v \in Writers : Waits(v)' <=> Waits(v) \/ v = w
  BY <1>1, <1>3, Grows, RecordsTyped
<1>5. \A i \in 1..Len(lock') : i \in 1..Len(lock) \/ i = Len(lock) + 1
  BY <1>3, <1>4
<1>6. \A k \in {"flow", "progress"}, r \in Runs : Waits(<<k, r>>)' <=> Waits(<<k, r>>)
  BY <1>3, <1>4
<1>7. NoMishap'
  <2>1. \A i \in 1..Len(lock') : lock'[i].by[1] # "handler"
    BY <1>3, <1>4, <1>5 DEF CleanRecord, NoMishap
  <2>2. lock' # <<>> /\ (lock # <<>> => lock'[1] = lock[1]) /\ (lock = <<>> => lock'[1].op = "read")
    BY <1>3, <1>4
  <2> QED BY <1>1, <2>1, <2>2 DEF CleanRecord, NoMishap
<1>8. PutsAreOwn'
  BY <1>3, <1>4, <1>5 DEF CleanRecord, PutsAreOwn
<1>9. ReportsEnd'
  BY <1>1, <1>6 DEF CleanRecord, ReportsEnd, ReportsOf
<1>10. PostsFollow'
  <2>1. ASSUME NEW q \in Posts
        PROVE  /\ post'[q].run = post[q].run
               /\ post'[q].pc \in InFlight => post[q].pc \in InFlight
               /\ post'[q].pc = "acked" => post[q].pc = "acked"
    BY <1>1, <1>2 DEF InFlight
  <2>2. ASSUME NEW q \in Posts
        PROVE  /\ post'[q].pc \in InFlight \cup {"acked"} =>
                    /\ post'[q].run \in Runs
                    /\ flow[post'[q].run].kind = "container" /\ flow[post'[q].run].pc \notin Before
               /\ post'[q].pc \in InFlight =>
                    flow[post'[q].run].pc = "working" \/ ~flow[post'[q].run].quiet
    <3>1. post'[q].pc \in InFlight \cup {"acked"} => post[q].pc \in InFlight \cup {"acked"}
      BY <2>1
    <3> QED BY <2>1, <3>1 DEF CleanRecord, PostsFollow
  <2> QED BY <1>1, <2>2 DEF CleanRecord, PostsFollow
<1>11. WritesAreOrdered'
  <2>1. SUFFICES ASSUME AllQuiet, NEW s \in Runs PROVE Ordered(s)'
    BY <1>1 DEF WritesAreOrdered, AllQuiet
  <2>2. Ordered(s)
    BY <2>1 DEF CleanRecord, WritesAreOrdered
  <2>3. flow[s].pc \in Live => post[p].run = s /\ flow[s].pc \notin Before
    <3>1. post[p].run \in Runs
      BY <1>1 DEF IInv, PostsHaveRuns, InFlight
    <3>2. /\ flow[post[p].run].pc \notin Before
          /\ flow[post[p].run].pc = "working" \/ ~flow[post[p].run].quiet
      BY <1>1, <3>1, PostsOf DEF InFlight
    <3>3. flow[post[p].run].pc # "over" /\ flow[post[p].run] \in Flow
      BY <2>1, <3>1, <3>2 DEF AllQuiet, IInv, LocalTypeOK
    <3>4. flow[post[p].run].pc \in Live
      BY <3>2, <3>3 DEF Flow, Before
    <3> QED BY <3>1, <3>2, <3>4, LiveIsOne
  <2>4. CallbacksAdd(s) /\ post[p].run = s => CallbacksAdd(s)'
    <3>1. SUFFICES ASSUME CallbacksAdd(s), post[p].run = s PROVE CallbacksAdd(s)'
      OBVIOUS
    <3>2. \A q \in Posts : post'[q].pc = "acked" /\ post'[q].run = s => q \in file.events
      BY <1>2, <3>1 DEF CallbacksAdd
    <3>3. ASSUME NEW i \in 1..Len(lock')
          PROVE  /\ lock'[i].by[1] = "post" /\ post'[lock'[i].by[2]].run = s
                 /\ lock'[i].op = "filling" =>
                      lock'[i].rec.run = s /\ file.events \cup {lock'[i].by[2]} \subseteq lock'[i].rec.events
      <4>1. CASE i = Len(lock) + 1
        BY <1>2, <1>3, <1>4, <3>1, <4>1
      <4>2. CASE i \in 1..Len(lock)
        <5>1. lock[i].by[1] = "post" /\ post[lock[i].by[2]].run = s
          BY <3>1, <4>2 DEF CallbacksAdd
        <5>2. PICK q \in Posts : lock[i].by = <<"post", q>> /\ post[q].pc = "queued"
          BY <4>2, <5>1, Entries
        <5>3. lock[i].by[2] = q /\ q # p
          BY <1>1, <5>2
        <5>4. post'[lock[i].by[2]].run = s
          BY <1>2, <5>1, <5>3
        <5> QED BY <1>4, <3>1, <4>2, <5>1, <5>4 DEF CallbacksAdd
      <4> QED BY <1>5, <4>1, <4>2
    <3> QED BY <1>1, <3>1, <3>2, <3>3 DEF CallbacksAdd
  <2> QED BY <1>1, <2>2, <2>3, <2>4 DEF Ordered, Live, Before
<1>12. QuietExits'
  BY <1>1 DEF CleanRecord, QuietExits, ExitsQuietly, InFlight
<1>13. RecordsClose'
  <2>1. SUFFICES ASSUME NEW s \in Runs PROVE StaysClosed(s)'
    BY DEF RecordsClose
  <2>2. StaysClosed(s) /\ (Waits(<<"flow", s>>)' <=> Waits(<<"flow", s>>))
    BY <1>6 DEF CleanRecord, RecordsClose
  <2>3. ASSUME NEW i \in 1..Len(lock'), lock'[i].by = <<"flow", s>>
        PROVE  i \in 1..Len(lock) /\ lock'[i] = lock[i]
    BY <1>3, <1>4, <1>5, <2>3
  <2> QED BY <1>1, <2>2, <2>3 DEF StaysClosed, Closes
<1> QED BY <1>7, <1>8, <1>9, <1>10, <1>11, <1>12, <1>13 DEF CleanRecord

-----------------------------------------------------------------------------
(* The invariant of the record holds *)

LEMMA InitRecord == Init => RecordInv
<1>1. SUFFICES ASSUME Init PROVE CleanRecord
  BY DEF RecordInv
<1>2. /\ lock = <<>> /\ torn = FALSE /\ thrown = {} /\ session = NoRun
      /\ \A r \in Runs : handler[r] = "none"
      /\ \A p \in Posts : post[p].pc = "unsent"
      /\ \A r \in Runs : /\ flow[r].pc = "idle" /\ ~flow[r].launched /\ flow[r].due = 0 /\ flow[r].posted = "none"
  BY <1>1 DEF Init
<1>3. \A v : ~Waits(v)
  BY <1>2 DEF Waits
<1>4. NoMishap /\ PutsAreOwn
  BY <1>2 DEF NoMishap, PutsAreOwn
<1>5. ReportsEnd /\ PostsFollow
  BY <1>2, <1>3 DEF ReportsEnd, ReportsOf, PostsFollow, InFlight
<1>6. WritesAreOrdered /\ QuietExits /\ RecordsClose
  BY <1>2 DEF WritesAreOrdered, Ordered, QuietExits, ExitsQuietly, RecordsClose, StaysClosed
<1> QED BY <1>4, <1>5, <1>6 DEF CleanRecord

\* Once something has failed, the invariant asks for nothing.
LEMMA FailureCounts == IInv /\ Fails => failures' # 0
<1>1. IInv => failures \in 0..MaxFailures
  BY DEF IInv, LocalTypeOK
<1>2. IInv => failures \in Nat
  BY <1>1, LocalConstants
<1> QED BY <1>2 DEF Fails

LEMMA WriteRecord ==
  ASSUME IInv, IInv', RecordInv, WriteStep
  PROVE  RecordInv'
<1>1. CASE TakeTurn
  <2>1. failures' = failures
    BY <1>1 DEF TakeTurn
  <2> QED BY <1>1, <2>1, TakeTurnCleanly DEF RecordInv
<1>2. CASE Fill
  <2>1. failures' = failures
    BY <1>2 DEF Fill
  <2> QED BY <1>2, <2>1, FillCleanly DEF RecordInv
<1>3. CASE WriteFails
  BY <1>3, FailureCounts DEF WriteFails, RecordInv
<1> QED BY <1>1, <1>2, <1>3 DEF WriteStep

LEMMA RunRecord ==
  ASSUME IInv, IInv', RecordInv, NEW r \in Runs, RunStep(r)
  PROVE  RecordInv'
<1>1. CASE CleaningFails(r) \/ PrepareFails(r)
  BY <1>1, FailureCounts DEF CleaningFails, PrepareFails, RecordInv
<1>2. CASE NoticesFailure(r)
  <2>1. failures' = failures /\ thrown # {}
    BY <1>2 DEF NoticesFailure
  <2> QED BY <2>1 DEF RecordInv, CleanRecord, NoMishap
<1>3. CASE HandlerReads(r)
  <2>1. failures' = failures /\ handler[r] # "none"
    BY <1>3 DEF HandlerReads
  <2> QED BY <2>1 DEF RecordInv, CleanRecord, NoMishap
<1>4. CASE Start(r) \/ Prepare(r) \/ Launch(r)
  <2>1. failures' = failures
    BY <1>4 DEF Start, Prepare, Launch
  <2> QED BY <1>4, <2>1, StartCleanly, PrepareCleanly, LaunchCleanly DEF RecordInv
<1>5. CASE Exit(r) \/ Finalize(r) \/ Finish(r)
  <2>1. failures' = failures
    BY <1>5 DEF Exit, Finalize, Finish
  <2> QED BY <1>5, <2>1, ExitCleanly, FinalizeCleanly, FinishCleanly DEF RecordInv
<1>6. CASE Report(r) \/ PostProgress(r) \/ ProgressPosted(r)
  <2>1. failures' = failures
    BY <1>6 DEF Report, PostProgress, ProgressPosted
  <2> QED
    BY <1>6, <2>1, ReportCleanly, PostProgressCleanly, ProgressPostedCleanly DEF RecordInv
<1>7. CASE EngineReturns(r) \/ EngineThrows(r)
  <2>1. failures' = failures
    BY <1>7 DEF EngineReturns, EngineThrows
  <2> QED BY <1>7, <2>1, EngineReturnsCleanly, EngineThrowsCleanly DEF RecordInv
<1> QED
  BY <1>1, <1>2, <1>3, <1>4, <1>5, <1>6, <1>7 DEF RunStep, OpeningStep, ClosingStep, WorkStep, ReportStep

LEMMA PostRecord ==
  ASSUME IInv, IInv', RecordInv, NEW p \in Posts, PostStep(p)
  PROVE  RecordInv'
<1>1. failures' = failures
  BY DEF PostStep, Arrive, Accept
<1> QED BY <1>1, ArriveCleanly, AcceptCleanly DEF PostStep, RecordInv

LEMMA NextRecord == IInv /\ IInv' /\ RecordInv /\ [Next]_vars => RecordInv'
<1> SUFFICES ASSUME IInv, IInv', RecordInv, [Next]_vars PROVE RecordInv'
  OBVIOUS
<1>1. CASE UNCHANGED vars
  <2>1. /\ UNCHANGED <<file, torn, lock, thrown, running, session, flow, post, handler, failures>>
        /\ \A v : Waits(v)' <=> Waits(v)
    BY <1>1 DEF vars, Waits
  <2>2. NoMishap' <=> NoMishap
    BY <2>1 DEF NoMishap
  <2>3. (PutsAreOwn' <=> PutsAreOwn) /\ (PostsFollow' <=> PostsFollow)
    BY <2>1 DEF PutsAreOwn, PostsFollow
  <2>4. ReportsEnd' <=> ReportsEnd
    BY <2>1 DEF ReportsEnd, ReportsOf
  <2>5. WritesAreOrdered' <=> WritesAreOrdered
    BY <2>1 DEF WritesAreOrdered, AllQuiet, Ordered, OwnWrites, CallbacksAdd
  <2>6. (QuietExits' <=> QuietExits) /\ (RecordsClose' <=> RecordsClose)
    BY <2>1 DEF QuietExits, ExitsQuietly, RecordsClose, StaysClosed, Closes
  <2> QED BY <2>1, <2>2, <2>3, <2>4, <2>5, <2>6 DEF RecordInv, CleanRecord
<1>2. CASE WriteStep
  BY <1>2, WriteRecord
<1>3. CASE \E r \in Runs : RunStep(r)
  BY <1>3, RunRecord
<1>4. CASE \E p \in Posts : PostStep(p)
  BY <1>4, PostRecord
<1> QED BY <1>1, <1>2, <1>3, <1>4 DEF Next

\* As long as nothing fails, the record follows the run: until it works, a run's own
\* writes are the only ones in the queue, then its callbacks', each of which adds to
\* what the file holds, and its last write closes the record (withJobWriteLock,
\* jobs.ts:125; the callback route, api-server.ts:441; finalizeIfCurrentRun).
THEOREM RecordInvariant == Spec => []RecordInv
<1>1. Init => RecordInv
  BY InitRecord
<1>2. IInv /\ IInv' /\ RecordInv /\ [Next]_vars => RecordInv'
  BY NextRecord
<1> QED BY <1>1, <1>2, InductiveInvariant, PTL DEF Spec

\* Callbacks that write the record at the same time do not undo each other: until the
\* flow reads the record to close it, every answered callback of a container is in it,
\* as long as nothing fails and no storage copy left reports behind.
THEOREM AnsweredCallbacksAreRecorded == Spec => []AcknowledgedIsRecorded
<1>1. IInv /\ RecordInv => AcknowledgedIsRecorded
  <2>1. SUFFICES ASSUME IInv, RecordInv, failures = 0, AllQuiet, NEW p \in Posts,
                        post[p].pc = "acked", flow[post[p].run].pc \in {"working", "exited"}
                 PROVE  file.run = post[p].run /\ p \in file.events
    BY DEF AcknowledgedIsRecorded, AllQuiet
  <2>2. CleanRecord
    BY <2>1 DEF RecordInv
  <2>3. post[p].run \in Runs /\ flow[post[p].run].kind = "container"
    BY <2>1, <2>2 DEF CleanRecord, PostsFollow
  <2>4. CallbacksAdd(post[p].run)
    BY <2>1, <2>2, <2>3 DEF CleanRecord, WritesAreOrdered, Ordered
  <2> QED BY <2>1, <2>4 DEF CallbacksAdd
<1> QED BY <1>1, InductiveInvariant, RecordInvariant, PTL

\* A run that ends with nothing of it under way, and no write of which failed, leaves a
\* closed record: finalizeIfCurrentRun, or the last write of a storage copy, is the last
\* to write it.
THEOREM QuietRunsLeaveClosedRecords == Spec => []QuietRunsAreClosed
<1>1. IInv /\ RecordInv => QuietRunsAreClosed
  <2>1. SUFFICES ASSUME IInv, RecordInv, failures = 0, NEW r \in Runs,
                        flow[r].pc = "over", flow[r].quiet, file.run = r
                 PROVE  Closes(r, file)
    BY DEF QuietRunsAreClosed, Closes
  <2>2. StaysClosed(r)
    BY <2>1 DEF RecordInv, CleanRecord, RecordsClose
  <2>3. ~Waits(<<"flow", r>>)
    BY <2>1 DEF IInv, WritersAreLive, Saving
  <2> QED BY <2>1, <2>2, <2>3 DEF StaysClosed
<1> QED BY <1>1, InductiveInvariant, RecordInvariant, PTL

-----------------------------------------------------------------------------
(***************************************************************************)
(* Refinement: the flows of the server implement the lifecycle of runs, as *)
(* the Durable Object does.                                                *)
(***************************************************************************)

\* Where a run is, seen through its flow.
phase ==
  [r \in Runs |-> IF flow[r].pc = "idle" THEN "fresh"
                  ELSE IF flow[r].pc = "over" THEN "over" ELSE "live"]

Lifecycle == INSTANCE RunLifecycle WITH Runs <- Runs, phase <- phase

\* What a step does to the flow of one run: it begins, when no other holds the job;
\* goes on; or ends.  The other flows stay where they are.
FlowMoves(r) ==
  /\ \A q \in Runs \ {r} : flow'[q].pc = flow[q].pc
  /\ \/ flow[r].pc = "idle" /\ running = NoRun /\ flow'[r].pc \in Live
     \/ flow[r].pc \in Live /\ flow'[r].pc \in Live \cup {"over"}
     \/ flow'[r].pc = flow[r].pc

LEMMA EndMoves ==
  ASSUME LocalTypeOK, NEW r \in Runs, NEW threw, End(r, threw), flow[r].pc \in Live
  PROVE  FlowMoves(r)
BY DEF LocalTypeOK, Flow, End, FlowMoves

LEMMA CatchMoves ==
  ASSUME LocalTypeOK, NEW r \in Runs, Catch(r), flow[r].pc \in Live
  PROVE  FlowMoves(r)
BY DEF LocalTypeOK, Flow, Catch, FlowMoves, Live

LEMMA RunsMove ==
  ASSUME IInv, NEW r \in Runs, RunStep(r)
  PROVE  FlowMoves(r)
<1> USE DEF Live
<1>1. LocalTypeOK /\ flow \in [Runs -> Flow]
  BY DEF IInv, LocalTypeOK
<1>2. CASE Start(r)
  BY <1>1, <1>2 DEF Start, JobIsFree, FlowMoves, Flow
<1>3. CASE OpeningStep(r) \/ ClosingStep(r)
  <2>1. CASE NoticesFailure(r)
    <3>1. flow[r].pc \in Live
      BY <2>1 DEF NoticesFailure, IInv, WritersAreLive, Saving
    <3>2. QED
      BY <1>1, <2>1, <3>1, EndMoves, CatchMoves DEF NoticesFailure
  <2>2. CASE Prepare(r) \/ Launch(r)
    BY <1>1, <2>2 DEF Prepare, Launch, FlowMoves, Flow
  <2>3. CASE CleaningFails(r) \/ Finish(r)
    BY <1>1, <2>3, EndMoves DEF CleaningFails, Finish
  <2>4. CASE PrepareFails(r)
    BY <1>1, <2>4, CatchMoves DEF PrepareFails
  <2>5. CASE Finalize(r)
    <3>1. CASE End(r, FALSE)
      BY <1>1, <2>5, <3>1, EndMoves DEF Finalize
    <3>2. CASE flow' = [flow EXCEPT ![r].pc = "closing"]
      BY <1>1, <2>5, <3>2 DEF Finalize, FlowMoves, Flow
    <3>3. QED
      BY <2>5, <3>1, <3>2 DEF Finalize
  <2>6. QED
    BY <1>3, <2>1, <2>2, <2>3, <2>4, <2>5 DEF OpeningStep, ClosingStep
<1>4. CASE WorkStep(r)
  <2>1. CASE Exit(r) \/ EngineReturns(r)
    BY <1>1, <2>1 DEF Exit, EngineReturns, FlowMoves, Flow
  <2>2. CASE EngineThrows(r)
    BY <1>1, <2>2, CatchMoves DEF EngineThrows
  <2>3. QED
    BY <1>4, <2>1, <2>2 DEF WorkStep
<1>5. CASE Report(r) \/ ReportStep(r) \/ HandlerReads(r)
  BY <1>1, <1>5 DEF Report, ReportStep, PostProgress, ProgressPosted, HandlerReads, FlowMoves, Flow
<1>6. QED
  BY <1>2, <1>3, <1>4, <1>5 DEF RunStep

LEMMA MovesRefine ==
  ASSUME IInv, NEW r \in Runs, FlowMoves(r)
  PROVE  [Lifecycle!Next]_phase
<1>1. phase \in [Runs -> {"fresh", "live", "over"}]
  BY DEF phase
<1>2. \A q \in Runs \ {r} : phase'[q] = phase[q]
  BY DEF phase, FlowMoves
<1>3. CASE flow[r].pc = "idle" /\ running = NoRun /\ flow'[r].pc \in Live
  <2>1. phase[r] = "fresh" /\ phase'[r] = "live"
    BY <1>3 DEF phase, Live
  <2>2. \A q \in Runs : phase[q] # "live"
    BY <1>3, LocalConstants DEF IInv, LocalTypeOK, Flow, phase
  <2>3. phase' = [q \in Runs |-> IF q = r THEN "live"
                                 ELSE IF phase[q] = "live" THEN "over" ELSE phase[q]]
    BY <1>2, <2>1, <2>2 DEF phase
  <2>4. Lifecycle!Begin(r, "live")
    BY <2>1, <2>3 DEF Lifecycle!Begin
  <2>5. QED
    BY <2>4 DEF Lifecycle!Next, Lifecycle!Start
<1>4. CASE flow[r].pc \in Live /\ flow'[r].pc = "over"
  <2>1. phase[r] = "live" /\ phase'[r] = "over"
    BY <1>4 DEF phase, Live
  <2>2. phase' = [phase EXCEPT ![r] = "over"]
    BY <1>1, <1>2, <2>1 DEF phase
  <2>3. QED
    BY <2>1, <2>2 DEF Lifecycle!Next, Lifecycle!End
<1>5. CASE (flow[r].pc \in Live /\ flow'[r].pc \in Live) \/ flow'[r].pc = flow[r].pc
  <2>1. phase'[r] = phase[r]
    BY <1>5 DEF phase, Live
  <2>2. phase' = phase
    BY <1>2, <2>1 DEF phase
  <2>3. QED
    BY <2>2
<1>6. QED
  BY <1>3, <1>4, <1>5 DEF FlowMoves

\* The queue of writes and the callbacks move no flow.
LEMMA OthersMoveNoFlow ==
  ASSUME IInv, WriteStep \/ (\E p \in Posts : PostStep(p)) \/ UNCHANGED vars
  PROVE  \A r \in Runs : flow'[r].pc = flow[r].pc
<1>1. flow \in [Runs -> Flow]
  BY DEF IInv, LocalTypeOK
<1>2. CASE WriteStep
  BY <1>2 DEF WriteStep, TakeTurn, Fill, WriteFails
<1>3. ASSUME NEW p \in Posts, Arrive(p) PROVE \A r \in Runs : flow'[r].pc = flow[r].pc
  BY <1>1, <1>3 DEF Arrive, Flow
<1>4. ASSUME NEW p \in Posts, Accept(p) PROVE \A r \in Runs : flow'[r].pc = flow[r].pc
  BY <1>4 DEF Accept
<1>5. CASE UNCHANGED vars
  BY <1>5 DEF vars
<1>6. QED
  BY <1>2, <1>3, <1>4, <1>5 DEF PostStep

LEMMA LocalNextRefines == IInv /\ [Next]_vars => [Lifecycle!Next]_phase
<1> SUFFICES ASSUME IInv, [Next]_vars PROVE [Lifecycle!Next]_phase
  OBVIOUS
<1>1. CASE WriteStep \/ (\E p \in Posts : PostStep(p)) \/ UNCHANGED vars
  <2>1. \A r \in Runs : flow'[r].pc = flow[r].pc
    BY <1>1, OthersMoveNoFlow
  <2>2. phase' = phase
    BY <2>1 DEF phase
  <2>3. QED
    BY <2>2
<1>2. CASE \E r \in Runs : RunStep(r)
  BY <1>2, RunsMove, MovesRefine
<1>3. QED
  BY <1>1, <1>2 DEF Next

\* A run that begins finds no other live: the lifecycle would let it take over.
StartsAlone ==
  \A r \in Runs :
    phase[r] = "fresh" /\ phase'[r] # "fresh" => \A q \in Runs : phase[q] # "live"

LEMMA MovesAlone ==
  ASSUME IInv, NEW r \in Runs, FlowMoves(r)
  PROVE  StartsAlone
<1>1. SUFFICES ASSUME NEW s \in Runs, flow[s].pc = "idle", flow'[s].pc # "idle"
               PROVE  \A q \in Runs : phase[q] # "live"
  BY DEF StartsAlone, phase
<1>2. s = r /\ running = NoRun
  BY <1>1 DEF FlowMoves, Live
<1>3. QED
  BY <1>2, LocalConstants DEF IInv, LocalTypeOK, Flow, phase

LEMMA NextStartsAlone == IInv /\ [Next]_vars => [StartsAlone]_phase
<1> SUFFICES ASSUME IInv, [Next]_vars, phase' # phase PROVE StartsAlone
  OBVIOUS
<1>1. ~(\A r \in Runs : flow'[r].pc = flow[r].pc)
  BY DEF phase
<1>2. \E r \in Runs : RunStep(r)
  BY <1>1, OthersMoveNoFlow DEF Next
<1>3. QED
  BY <1>2, RunsMove, MovesAlone

\* The local API server implements the lifecycle of runs, although it keeps the job in
\* runningJobs only and every record goes through a file: a start request begins its
\* run once and the .finally of its route ends it for good.  What is more, a run begins
\* only when no run of the job is live (runningJobs.has, api-server.ts:593): no start
\* takes the job from another run.
THEOREM LocalRunsFollowLifecycle == Spec => Lifecycle!Spec /\ [][StartsAlone]_phase
<1>1. Init => Lifecycle!Init
  BY DEF Init, phase, Lifecycle!Init
<1>2. QED
  BY <1>1, InductiveInvariant, LocalNextRefines, NextStartsAlone, PTL DEF Spec, Lifecycle!Spec

================================================================================
