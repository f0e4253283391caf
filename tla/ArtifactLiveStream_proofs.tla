----------------------- MODULE ArtifactLiveStream_proofs -----------------------
(***************************************************************************)
(* Proofs about ArtifactLiveStream, for any number of attempts, tries and  *)
(* GETs: one client at a time, no success without the whole ZIP, no timer  *)
(* after it, and stages that arrive in order.                              *)
(***************************************************************************)
EXTENDS ArtifactLiveStream, TLAPS

(***************************************************************************)
(* The inductive invariant.                                                *)
(***************************************************************************)

\* GETs are numbered as they are accepted, and the last one may be active.
Numbered ==
  /\ server.active \in {NoAttempt, server.count}
  /\ \A a \in Gets :
       /\ attempts[a].producer = "none" <=> a > server.count
       /\ attempts[a].producer = "none" => attempts[a].response = "none"

\* An open response belongs to a promise that is open and an attempt that has
\* neither been aborted nor ended.
OpenIsAlive ==
  \A a \in Gets : attempts[a].response = "open" =>
    /\ server.verdict = "open"
    /\ ~attempts[a].aborted /\ ~attempts[a].terminal

\* As long as the promise is open, who has neither been aborted nor ended is active,
\* and who has ended has been served.
AliveIsActive ==
  server.verdict = "open" =>
    \A a \in Gets : a <= server.count /\ ~attempts[a].aborted =>
      \/ ~attempts[a].terminal /\ a = server.active
      \/ attempts[a].terminal /\ Completed(a)

\* A completed download stays what it was, whatever happens to the server.
CompletedIsWhole ==
  \A a \in Gets : Completed(a) =>
    /\ attempts[a].response = "drained" /\ ~attempts[a].aborted /\ attempts[a].terminal
    /\ server.timer = "stopped" /\ server.verdict # "idle"

\* The success callbacks that wait in the chain c are those of completed attempts,
\* one of each.
Waiting(c, now) ==
  \A i \in DOMAIN c : c[i].kind = "succeed" =>
    /\ now[c[i].attempt].producer = "completed"
    /\ \A j \in DOMAIN c : j # i /\ c[j].kind = "succeed" => c[j].attempt # c[i].attempt

SuccessWaits == Waiting(chain, attempts)

\* The rank of the last stage that was reported.
LastReported ==
  IF server.count = 0 THEN 0
  ELSE 3 * server.count + (IF attempts[server.count].aborted THEN 3
                           ELSE IF attempts[server.count].firstByte THEN 2 ELSE 1)

\* Stages wait in the chain c by rank, between the last one delivered and the last
\* one reported.
Ordered(c, from, to) ==
  /\ from <= to
  /\ \A i \in DOMAIN c : IsStage(c[i]) =>
       /\ from <= Rank(c[i]) /\ Rank(c[i]) <= to
       /\ \A j \in DOMAIN c : i <= j /\ IsStage(c[j]) => Rank(c[i]) <= Rank(c[j])

ChainInOrder == Ordered(chain, delivered, LastReported)

ServerInv ==
  /\ server \in Server
  /\ attempts \in [Gets -> Attempt]
  /\ Numbered
  /\ OpenIsAlive
  /\ AliveIsActive
  /\ CompletedIsWhole

LInv ==
  /\ StreamTypeOK
  /\ ServerInv
  /\ SuccessWaits
  /\ ChainInOrder
  /\ SuccessMeansWholeZip

-----------------------------------------------------------------------------
(***************************************************************************)
(* Stages and their ranks.                                                 *)
(***************************************************************************)

LEMMA StageRanks ==
  ASSUME NEW a \in Gets
  PROVE  /\ Rank([kind |-> "request_accepted", attempt |-> a]) = 3 * a + 1
         /\ Rank([kind |-> "first_byte", attempt |-> a]) = 3 * a + 2
         /\ Rank([kind |-> "stream_aborted", attempt |-> a]) = 3 * a + 3
<1>1. (CHOOSE i \in 1..3 : Stages[i] = "request_accepted") = 1
  BY DEF Stages
<1>2. (CHOOSE i \in 1..3 : Stages[i] = "first_byte") = 2
  BY DEF Stages
<1>3. (CHOOSE i \in 1..3 : Stages[i] = "stream_aborted") = 3
  BY DEF Stages
<1> QED BY <1>1, <1>2, <1>3 DEF Rank

LEMMA LinkType ==
  ASSUME NEW a \in Gets
  PROVE  \A kind \in {"request_accepted", "first_byte", "stream_aborted", "settle", "succeed"} :
           [kind |-> kind, attempt |-> a] \in Link
  BY DEF Link, Stages

LEMMA StageRankType ==
  ASSUME NEW link \in Link, IsStage(link)
  PROVE  /\ Rank(link) \in Nat
         /\ Rank(link) <= 3 * MaxGets + 3
<1>1. link.attempt \in Gets /\ link.kind \in {"request_accepted", "first_byte", "stream_aborted"}
  BY DEF Link, IsStage, Stages
<1>2. link = [kind |-> link.kind, attempt |-> link.attempt]
  BY DEF Link
<1>3. Rank(link) \in {3 * link.attempt + 1, 3 * link.attempt + 2, 3 * link.attempt + 3}
  BY <1>1, <1>2, StageRanks
<1> QED BY <1>1, <1>3, LiveStreamConstants DEF Gets

-----------------------------------------------------------------------------
(***************************************************************************)
(* Server and attempts.                                                    *)
(***************************************************************************)

\* What settling may do to an attempt.
Settled(x, y) ==
  /\ y \in Attempt
  /\ y.producer = x.producer /\ y.aborted = x.aborted /\ y.firstByte = x.firstByte
  /\ x.terminal => y.terminal
  /\ y.response = IF x.response = "open" THEN "closed" ELSE x.response

LEMMA CloseEffect ==
  ASSUME NEW x \in Attempt
  PROVE  /\ Settled(x, Close(x)) /\ Close(x).terminal = x.terminal
         /\ Settled(x, [Close(x) EXCEPT !.terminal = TRUE])
  BY DEF Close, Settled, Attempt

LEMMA SettleEffect ==
  ASSUME server \in Server, NEW verdict \in Verdict \ {"open"},
         NEW after \in [Gets -> Attempt], Settle(verdict, server, after)
  PROVE  /\ server' \in Server /\ attempts' \in [Gets -> Attempt]
         /\ server'.count = server.count
         /\ server.verdict # "open" => server' = server /\ attempts' = after
         /\ server.verdict = "open" =>
              /\ server'.verdict = verdict /\ server'.timer = "stopped"
              /\ server'.active \in {server.active, NoAttempt}
              /\ \A a \in Gets : Settled(after[a], attempts'[a])
<1>1. CASE server.verdict # "open"
  BY <1>1 DEF Settle
<1>2. CASE server.verdict = "open"
  <2> DEFINE failing == verdict # "success"
             open == [a \in Gets |-> Close(after[a])]
  <2>1. server' = [server EXCEPT !.verdict = verdict, !.timer = "stopped",
                                 !.active = IF failing THEN NoAttempt ELSE @]
    BY <1>2 DEF Settle
  <2>2. attempts' = [a \in Gets |->
          IF failing /\ a = server.active THEN [open[a] EXCEPT !.terminal = TRUE] ELSE open[a]]
    BY <1>2 DEF Settle
  <2>3. /\ server' \in Server /\ server'.count = server.count
        /\ server'.verdict = verdict /\ server'.timer = "stopped"
        /\ server'.active \in {server.active, NoAttempt}
    BY <2>1 DEF Server, Timer
  <2>4. \A a \in Gets : Settled(after[a], attempts'[a])
    <3> TAKE a \in Gets
    <3>1. open[a] = Close(after[a]) /\ after[a] \in Attempt
      OBVIOUS
    <3>2. attempts'[a] \in {Close(after[a]), [Close(after[a]) EXCEPT !.terminal = TRUE]}
      BY <2>2, <3>1
    <3> QED BY <3>1, <3>2, CloseEffect
  <2>5. attempts' \in [Gets -> Attempt]
    <3>1. attempts' = [a \in Gets |-> attempts'[a]]
      BY <2>2
    <3> QED BY <2>4, <3>1 DEF Settled
  <2> QED BY <1>2, <2>3, <2>4, <2>5
<1> QED BY <1>1, <1>2

\* From the attempts to after, an attempt's response is at most closed and its
\* producer at most ends, or reports that the download succeeded.
Winds(after) ==
  \A a \in Gets :
    /\ after[a].aborted = attempts[a].aborted /\ after[a].firstByte = attempts[a].firstByte
    /\ attempts[a].terminal => after[a].terminal
    /\ \/ after[a].response = attempts[a].response
       \/ attempts[a].response = "open" /\ after[a].response = "closed"
    /\ Completed(a) <=> after[a].producer \in {"completed", "reporting", "reported"}
    /\ attempts[a].producer = "none" <=> after[a].producer = "none"

LEMMA LastReportedType ==
  ASSUME ServerInv
  PROVE  LastReported \in Nat
BY LiveStreamConstants DEF ServerInv, Server, LastReported

LEMMA LastReportedGrows ==
  ASSUME ServerInv, ServerInv', server'.count = server.count,
         \A a \in Gets : /\ attempts[a].aborted => attempts'[a].aborted
                         /\ attempts[a].firstByte => attempts'[a].firstByte
  PROVE  LastReported <= LastReported'
<1>1. server.count \in Nat /\ (server.count # 0 => server.count \in Gets)
  BY LiveStreamConstants DEF ServerInv, Server, Gets
<1>2. server.count # 0 => /\ attempts[server.count] \in Attempt
                          /\ attempts'[server.count] \in Attempt
  BY <1>1 DEF ServerInv
<1> QED BY <1>1, <1>2 DEF LastReported, Attempt

\* Settling, from attempts that wind down, keeps the server in order.
LEMMA SettleKeeps ==
  ASSUME ServerInv, NEW verdict \in Verdict \ {"open"},
         verdict = "idle" => server.timer # "stopped",
         NEW after \in [Gets -> Attempt], Winds(after), Settle(verdict, server, after)
  PROVE  /\ ServerInv'
         /\ LastReported <= LastReported'
         /\ \A a \in Gets : attempts'[a].producer = after[a].producer
         /\ server'.verdict \in {server.verdict, verdict}
         /\ server'.count = server.count
<1>1. /\ server' \in Server /\ attempts' \in [Gets -> Attempt]
      /\ server'.count = server.count
      /\ server.verdict # "open" => server' = server /\ attempts' = after
      /\ server.verdict = "open" =>
           /\ server'.verdict = verdict /\ server'.timer = "stopped"
           /\ server'.active \in {server.active, NoAttempt}
           /\ \A a \in Gets : Settled(after[a], attempts'[a])
  BY SettleEffect DEF ServerInv
<1>2. \A a \in Gets :
        /\ attempts'[a].producer = after[a].producer
        /\ attempts'[a].aborted = after[a].aborted
        /\ attempts'[a].firstByte = after[a].firstByte
        /\ after[a].terminal => attempts'[a].terminal
        /\ attempts'[a].response # "open"
        /\ after[a].response = "drained" => attempts'[a].response = "drained"
  BY <1>1 DEF Settled, Winds, ServerInv, OpenIsAlive
<1>3. /\ server'.verdict # "open" /\ server'.verdict \in {server.verdict, verdict}
      /\ server'.timer \in {server.timer, "stopped"}
      /\ server.verdict = "open" \/ server'.verdict = server.verdict
  BY <1>1
<1>4. Numbered'
  <2>1. server'.active \in {NoAttempt, server'.count}
    BY <1>1 DEF ServerInv, Numbered
  <2>2. \A a \in Gets : attempts'[a].producer = "none" <=> a > server'.count
    BY <1>1, <1>2 DEF ServerInv, Numbered, Winds
  <2>3. \A a \in Gets : attempts'[a].producer = "none" => attempts'[a].response = "none"
    BY <1>1, <1>2 DEF ServerInv, Numbered, Winds, Settled
  <2> QED BY <2>1, <2>2, <2>3 DEF Numbered
<1>5. OpenIsAlive' /\ AliveIsActive'
  BY <1>2, <1>3 DEF OpenIsAlive, AliveIsActive
<1>6. CompletedIsWhole'
  BY <1>1, <1>2, <1>3 DEF CompletedIsWhole, Completed, Winds, ServerInv
<1>7. ServerInv'
  BY <1>1, <1>4, <1>5, <1>6 DEF ServerInv
<1>8. LastReported <= LastReported'
  BY <1>1, <1>2, <1>7, LastReportedGrows DEF Winds
<1> QED BY <1>1, <1>2, <1>3, <1>7, <1>8

\* What every step does to the server and the attempts, but for the verdict
\* "success" and the continuation of a completed download.
Keeps ==
  /\ ServerInv'
  /\ LastReported <= LastReported'
  /\ \A a \in Gets :
       /\ attempts[a].producer = "completed" => attempts'[a].producer = "completed"
       /\ attempts[a].producer \in {"reporting", "reported"} =>
            attempts'[a].producer \in {"reporting", "reported"}

SameVerdict == server'.verdict = "success" => server.verdict = "success"

LEMMA UntouchedKeeps ==
  ASSUME ServerInv, UNCHANGED <<server, attempts>>
  PROVE  Keeps /\ SameVerdict
<1>1. ServerInv' /\ LastReported' = LastReported
  BY DEF ServerInv, Numbered, OpenIsAlive, AliveIsActive, CompletedIsWhole, Completed, LastReported
<1> QED BY <1>1, LastReportedType DEF Keeps, SameVerdict

LEMMA SettleOnlyKeeps ==
  ASSUME ServerInv, NEW verdict \in Verdict \ {"open", "success"},
         verdict = "idle" => server.timer # "stopped",
         Settle(verdict, server, attempts)
  PROVE  Keeps /\ SameVerdict
<1>1. attempts \in [Gets -> Attempt] /\ Winds(attempts)
  BY DEF ServerInv, Winds, Completed
<1> QED BY <1>1, SettleKeeps DEF Keeps, SameVerdict

LEMMA ProducerFailsKeeps ==
  ASSUME ServerInv, NEW a \in Gets, NEW verdict \in {"generation", "callback"},
         attempts[a].producer \in {"generating", "posting", "draining"},
         ProducerFails(a, verdict)
  PROVE  Keeps /\ SameVerdict
<1> DEFINE ended == [attempts EXCEPT ![a].producer = "ended"]
           closed == [ended EXCEPT ![a] = [Close(@) EXCEPT !.terminal = TRUE]]
<1>1. /\ attempts[a] \in Attempt
      /\ ended = [attempts EXCEPT ![a] = [attempts[a] EXCEPT !.producer = "ended"]]
      /\ [attempts[a] EXCEPT !.producer = "ended"] \in Attempt
  BY DEF ServerInv, Attempt, Producer
<1>2. ended \in [Gets -> Attempt] /\ \A b \in Gets : b # a => ended[b] = attempts[b]
  BY <1>1 DEF ServerInv
<1>3. ended[a] = [attempts[a] EXCEPT !.producer = "ended"]
  BY <1>1 DEF ServerInv
<1>4. /\ ended[a].producer = "ended" /\ ended[a].response = attempts[a].response
      /\ ended[a].aborted = attempts[a].aborted /\ ended[a].firstByte = attempts[a].firstByte
      /\ ended[a].terminal = attempts[a].terminal
  BY <1>1, <1>3 DEF Attempt
<1>5. CASE attempts[a].aborted \/ server.verdict # "open"
  <2>1. attempts' = ended /\ server' = server
    BY <1>5 DEF ProducerFails
  <2>2. ServerInv'
    BY <1>2, <1>4, <1>5, <2>1
       DEF ServerInv, Numbered, OpenIsAlive, AliveIsActive, CompletedIsWhole, Completed
  <2>3. LastReported <= LastReported'
    BY <1>2, <1>4, <2>1, <2>2, LastReportedGrows
  <2> QED BY <1>2, <1>4, <2>1, <2>2, <2>3 DEF Keeps, SameVerdict
<1>6. CASE ~(attempts[a].aborted \/ server.verdict # "open")
  <2>1. Settle(verdict, server, closed)
    BY <1>6 DEF ProducerFails
  <2>2. closed = [ended EXCEPT ![a] = [Close(ended[a]) EXCEPT !.terminal = TRUE]]
    BY <1>2
  <2>3. Settled(ended[a], closed[a]) /\ \A b \in Gets : b # a => closed[b] = ended[b]
    BY <1>2, <2>2, CloseEffect
  <2>4. closed \in [Gets -> Attempt]
    BY <1>2, <2>2, <2>3 DEF Settled
  <2>5. Winds(closed)
    BY <1>2, <1>4, <2>3 DEF Winds, Settled, Completed
  <2>6. verdict \in Verdict \ {"open", "success"} /\ verdict # "idle"
    BY DEF Verdict
  <2> HIDE DEF closed
  <2>7. /\ ServerInv' /\ LastReported <= LastReported'
        /\ \A b \in Gets : attempts'[b].producer = closed[b].producer
        /\ server'.verdict \in {server.verdict, verdict}
    BY <2>1, <2>4, <2>5, <2>6, SettleKeeps
  <2>8. \A b \in Gets : closed[b].producer = IF b = a THEN "ended" ELSE attempts[b].producer
    BY <1>2, <1>4, <2>3 DEF Settled
  <2> QED BY <2>6, <2>7, <2>8 DEF Keeps, SameVerdict
<1> QED BY <1>5, <1>6

\* Aborting the active attempt reports it as the last stage so far.
LEMMA AbortKeeps ==
  ASSUME ServerInv, NEW a \in Gets, a = server.active,
         NEW now \in Server,
         now.verdict = server.verdict, now.active = server.active, now.count = server.count,
         now.timer = server.timer \/ server.timer = "stall",
         NEW after \in [Gets -> Attempt],
         \A b \in Gets : b # a => after[b] = attempts[b],
         after[a].producer = attempts[a].producer, after[a].aborted = attempts[a].aborted,
         after[a].firstByte = attempts[a].firstByte, after[a].terminal = attempts[a].terminal,
         \/ after[a].response = attempts[a].response
         \/ attempts[a].response = "open" /\ after[a].response = "closed",
         AbortAttempt(a, now, after)
  PROVE  /\ Keeps /\ SameVerdict
         /\ \/ chain' = chain
            \/ /\ LastReported' = Rank([kind |-> "stream_aborted", attempt |-> a])
               /\ \/ chain' = Report(chain, "stream_aborted", a)
                  \/ chain' = ThenSettle(Report(chain, "stream_aborted", a), a)
<1>1. after[a] \in Attempt
  OBVIOUS
<1>2. CASE now.verdict # "open" \/ after[a].aborted \/ after[a].terminal
  <2>1. server' = now /\ attempts' = after /\ chain' = chain
    BY <1>2 DEF AbortAttempt
  <2>2. ServerInv'
    <3>1. Numbered' /\ OpenIsAlive' /\ AliveIsActive'
      BY <2>1 DEF ServerInv, Numbered, OpenIsAlive, AliveIsActive, Completed
    <3>2. CompletedIsWhole'
      BY <2>1 DEF ServerInv, CompletedIsWhole, Completed
    <3> QED BY <2>1, <3>1, <3>2 DEF ServerInv
  <2>3. LastReported <= LastReported'
    BY <2>1, <2>2, LastReportedGrows
  <2> QED BY <2>1, <2>2, <2>3 DEF Keeps, SameVerdict
<1>3. CASE ~(now.verdict # "open" \/ after[a].aborted \/ after[a].terminal)
  <2> DEFINE last == a >= MaxAttempts
             links == Report(chain, "stream_aborted", a)
             gone == [Close(after[a]) EXCEPT !.aborted = TRUE]
  <2>1. /\ server' = [now EXCEPT !.active = NoAttempt,
                                 !.terminalFailurePending = @ \/ last,
                                 !.timer = IF last THEN "stopped" ELSE RetryWaiting(@)]
        /\ attempts' = [after EXCEPT ![a] = gone]
        /\ chain' = IF last THEN ThenSettle(links, a) ELSE links
    BY <1>3 DEF AbortAttempt
  <2>2. /\ server' \in Server /\ server'.count = server.count
        /\ server'.verdict = "open" /\ server.verdict = "open" /\ server'.active = NoAttempt
        /\ now.timer = "stopped" => server'.timer = "stopped"
    BY <1>3, <2>1 DEF Server, Timer, RetryWaiting, NoAttempt
  <2>3. /\ gone \in Attempt /\ gone.producer = attempts[a].producer
        /\ gone.aborted /\ gone.firstByte = attempts[a].firstByte
        /\ gone.terminal = attempts[a].terminal /\ gone.response # "open"
    <3> DEFINE closed == Close(after[a])
    <3>1. /\ closed \in Attempt /\ closed.producer = attempts[a].producer
          /\ closed.firstByte = attempts[a].firstByte
          /\ closed.terminal = attempts[a].terminal /\ closed.response # "open"
      BY <1>1, CloseEffect DEF Settled
    <3> HIDE DEF closed
    <3>2. gone = [closed EXCEPT !.aborted = TRUE]
      BY DEF closed
    <3> HIDE DEF gone
    <3> QED BY <3>1, <3>2 DEF Attempt
  <2> HIDE DEF gone
  <2>4. /\ attempts' \in [Gets -> Attempt] /\ attempts'[a] = gone
        /\ \A b \in Gets : b # a => attempts'[b] = attempts[b]
    BY <2>1, <2>3
  <2>5. ~attempts[a].terminal /\ ~Completed(a) /\ a = server.count
    BY <1>3 DEF ServerInv, CompletedIsWhole, Numbered, Gets, NoAttempt
  <2>6. ServerInv'
    <3>1. Numbered'
      <4>1. \A b \in Gets : attempts'[b].producer = attempts[b].producer
        BY <2>3, <2>4
      <4>2. \A b \in Gets : attempts[b].response # "open" => attempts'[b].response # "open"
        BY <2>3, <2>4
      <4>3. attempts[a].producer # "none"
        BY <2>5, LiveStreamConstants DEF ServerInv, Numbered, Gets
      <4> QED BY <2>2, <2>3, <2>4, <4>1, <4>3 DEF ServerInv, Numbered
    <3>2. OpenIsAlive'
      BY <2>2, <2>3, <2>4 DEF ServerInv, OpenIsAlive
    <3>3. AliveIsActive'
      BY <2>2, <2>3, <2>4 DEF ServerInv, AliveIsActive, Completed
    <3>4. CompletedIsWhole'
      BY <2>2, <2>3, <2>4, <2>5 DEF ServerInv, CompletedIsWhole, Completed
    <3> QED BY <2>2, <2>4, <3>1, <3>2, <3>3, <3>4 DEF ServerInv
  <2>7. LastReported <= LastReported'
    BY <2>2, <2>3, <2>4, <2>6, LastReportedGrows
  <2>8. LastReported' = Rank([kind |-> "stream_aborted", attempt |-> a])
    <3>1. server'.count = a /\ a # 0 /\ attempts'[a].aborted
      BY <2>2, <2>3, <2>4, <2>5 DEF Gets
    <3>2. LastReported' = 3 * a + 3
      BY <3>1 DEF LastReported
    <3> QED BY <3>2, StageRanks
  <2> QED BY <2>1, <2>2, <2>3, <2>4, <2>5, <2>6, <2>7, <2>8 DEF Keeps, SameVerdict, Completed
<1> QED BY <1>2, <1>3

LEMMA ProducerMovesKeeps ==
  ASSUME ServerInv, NEW a \in Gets, NEW p \in {"generating", "posting", "draining", "ended"},
         attempts[a].producer \in {"generating", "posting", "draining"},
         p = "ended" => attempts[a].aborted \/ server.verdict # "open",
         attempts' = [attempts EXCEPT ![a].producer = p], UNCHANGED server
  PROVE  Keeps /\ SameVerdict
<1> DEFINE moved == [attempts[a] EXCEPT !.producer = p]
<1>1. /\ moved \in Attempt /\ moved.producer = p
      /\ moved.response = attempts[a].response /\ moved.firstByte = attempts[a].firstByte
      /\ moved.aborted = attempts[a].aborted /\ moved.terminal = attempts[a].terminal
  BY DEF ServerInv, Attempt, Producer
<1>2. attempts' = [attempts EXCEPT ![a] = moved]
  BY DEF ServerInv
<1> HIDE DEF moved
<1>3. /\ attempts' \in [Gets -> Attempt] /\ attempts'[a] = moved
      /\ \A b \in Gets : b # a => attempts'[b] = attempts[b]
  BY <1>1, <1>2 DEF ServerInv
<1>4. ServerInv'
  BY <1>1, <1>3
     DEF ServerInv, Numbered, OpenIsAlive, AliveIsActive, CompletedIsWhole, Completed
<1>5. LastReported <= LastReported'
  BY <1>1, <1>3, <1>4, LastReportedGrows
<1> QED BY <1>1, <1>3, <1>4, <1>5 DEF Keeps, SameVerdict

LEMMA ResponseDrainsKeeps ==
  ASSUME ServerInv, NEW a \in Gets, ResponseDrains(a)
  PROVE  Keeps /\ SameVerdict
<1> DEFINE drained == [attempts[a] EXCEPT !.response = "drained"]
<1>1. /\ drained \in Attempt /\ drained.producer = attempts[a].producer
      /\ drained.response = "drained" /\ drained.firstByte = attempts[a].firstByte
      /\ drained.aborted = attempts[a].aborted /\ drained.terminal = attempts[a].terminal
  BY DEF ServerInv, Attempt
<1>2. attempts' = [attempts EXCEPT ![a] = drained] /\ server' = server
  BY DEF ServerInv, ResponseDrains
<1>3. attempts[a].producer = "draining"
  BY DEF ResponseDrains
<1> HIDE DEF drained
<1>4. /\ attempts' \in [Gets -> Attempt] /\ attempts'[a] = drained
      /\ \A b \in Gets : b # a => attempts'[b] = attempts[b]
  BY <1>1, <1>2 DEF ServerInv
<1>5. ServerInv'
  BY <1>1, <1>2, <1>3, <1>4
     DEF ServerInv, Numbered, OpenIsAlive, AliveIsActive, CompletedIsWhole, Completed
<1>6. LastReported <= LastReported'
  BY <1>1, <1>2, <1>4, <1>5, LastReportedGrows
<1> QED BY <1>1, <1>2, <1>4, <1>5, <1>6 DEF Keeps, SameVerdict

LEMMA FirstByteKeeps ==
  ASSUME ServerInv, NEW a \in Gets, FirstByte(a)
  PROVE  /\ Keeps /\ SameVerdict
         /\ LastReported' = Rank([kind |-> "first_byte", attempt |-> a])
<1> DEFINE first == [attempts[a] EXCEPT !.firstByte = TRUE]
<1>1. /\ first \in Attempt /\ first.producer = attempts[a].producer
      /\ first.response = attempts[a].response /\ first.firstByte
      /\ first.aborted = attempts[a].aborted /\ first.terminal = attempts[a].terminal
  BY DEF ServerInv, Attempt
<1>2. /\ attempts' = [attempts EXCEPT ![a] = first]
      /\ server' = [server EXCEPT !.timer = ActivityObserved(@)]
      /\ attempts[a].response = "open"
  BY DEF ServerInv, FirstByte
<1> HIDE DEF first
<1>3. /\ attempts' \in [Gets -> Attempt] /\ attempts'[a] = first
      /\ \A b \in Gets : b # a => attempts'[b] = attempts[b]
  BY <1>1, <1>2 DEF ServerInv
<1>4. /\ server' \in Server /\ server'.count = server.count /\ server'.active = server.active
      /\ server'.verdict = server.verdict /\ (server.timer = "stopped" => server'.timer = "stopped")
  BY <1>2 DEF ServerInv, Server, Timer, ActivityObserved
<1>5. ServerInv'
  BY <1>1, <1>3, <1>4
     DEF ServerInv, Numbered, OpenIsAlive, AliveIsActive, CompletedIsWhole, Completed
<1>6. LastReported <= LastReported'
  BY <1>1, <1>3, <1>4, <1>5, LastReportedGrows
<1>7. a = server.count /\ ~attempts[a].aborted
  <2>1. server.verdict = "open" /\ ~attempts[a].aborted /\ ~attempts[a].terminal
    BY <1>2 DEF ServerInv, OpenIsAlive
  <2>2. a <= server.count
    BY <1>2 DEF ServerInv, Numbered, Server, Gets
  <2> QED BY <2>1, <2>2 DEF ServerInv, AliveIsActive, Numbered, Gets, NoAttempt
<1>8. LastReported' = 3 * a + 2
  BY <1>1, <1>3, <1>4, <1>7 DEF LastReported, Gets
<1> QED BY <1>1, <1>3, <1>4, <1>5, <1>6, <1>8, StageRanks DEF Keeps, SameVerdict

LEMMA RequestAcceptedKeeps ==
  ASSUME ServerInv, RequestAccepted
  PROVE  /\ Keeps /\ SameVerdict
         /\ server.count + 1 \in Gets
         /\ LastReported' = Rank([kind |-> "request_accepted", attempt |-> server.count + 1])
<1> DEFINE a == server.count + 1
<1>1. /\ a \in Gets /\ server.verdict = "open" /\ server.active = NoAttempt
      /\ server.count \in Nat
  BY LiveStreamConstants DEF RequestAccepted, Busy, ServerInv, Server, Gets
<1>2. /\ server' = [server EXCEPT !.count = a, !.active = a, !.timer = RequestStarted(@)]
      /\ attempts' = [attempts EXCEPT ![a] = Accepted]
  BY DEF RequestAccepted
<1>3. /\ Accepted \in Attempt /\ Accepted.producer = "generating"
      /\ Accepted.response = "open" /\ ~Accepted.firstByte
      /\ ~Accepted.aborted /\ ~Accepted.terminal
  BY DEF Accepted, NotAccepted, Attempt, Producer
<1>4. /\ attempts' \in [Gets -> Attempt] /\ attempts'[a] = Accepted
      /\ \A b \in Gets : b # a => attempts'[b] = attempts[b]
  BY <1>1, <1>2, <1>3 DEF ServerInv
<1>5. /\ server' \in Server /\ server'.count = a /\ server'.active = a
      /\ server'.verdict = server.verdict /\ (server.timer = "stopped" => server'.timer = "stopped")
  <2> DEFINE t == RequestStarted(server.timer)
  <2>1. t \in Timer /\ (server.timer = "stopped" => t = "stopped")
    BY DEF ServerInv, Server, Timer, RequestStarted
  <2>2. a \in Gets \cup {NoAttempt} /\ a \in 0..MaxGets
    BY <1>1, LiveStreamConstants DEF Gets
  <2>3. server' = [server EXCEPT !.count = a, !.active = a, !.timer = t]
    BY <1>2 DEF ServerInv, Server
  <2> HIDE DEF a, t
  <2> QED BY <2>1, <2>2, <2>3 DEF ServerInv, Server
<1>6. attempts[a].producer = "none"
  BY <1>1, LiveStreamConstants DEF ServerInv, Numbered, Gets
<1> HIDE DEF a
<1>7. ServerInv'
  <2>1. Numbered'
    <3>1. \A b \in Gets : b # a => (b > server.count <=> b > a)
      BY <1>1 DEF a, Gets
    <3> QED BY <1>1, <1>3, <1>4, <1>5, <3>1 DEF ServerInv, Numbered, Gets
  <2>2. OpenIsAlive'
    BY <1>1, <1>3, <1>4, <1>5 DEF ServerInv, OpenIsAlive
  <2>3. AliveIsActive'
    <3>1. \A b \in Gets : b # a /\ b <= a => b <= server.count
      BY <1>1 DEF a, Gets
    <3>2. \A b \in Gets : b # NoAttempt
      BY DEF Gets, NoAttempt
    <3> QED BY <1>1, <1>3, <1>4, <1>5, <3>1, <3>2 DEF ServerInv, AliveIsActive, Completed
  <2>4. CompletedIsWhole'
    BY <1>3, <1>4, <1>5 DEF ServerInv, CompletedIsWhole, Completed
  <2> QED BY <1>4, <1>5, <2>1, <2>2, <2>3, <2>4 DEF ServerInv
<1>8. LastReported' = 3 * a + 1
  BY <1>1, <1>3, <1>4, <1>5 DEF LastReported, Gets
<1>9. LastReported <= LastReported'
  <2>1. LastReported <= 3 * server.count + 3
    BY <1>1 DEF LastReported
  <2> QED BY <1>1, <1>8, <2>1, LastReportedType DEF a
<1>10. Rank([kind |-> "request_accepted", attempt |-> a]) = 3 * a + 1
  BY <1>1, StageRanks
<1>11. Keeps /\ SameVerdict
  BY <1>4, <1>5, <1>6, <1>7, <1>9 DEF Keeps, SameVerdict
<1> QED BY <1>1, <1>8, <1>10, <1>11 DEF a

LEMMA ProducerResumesKeeps ==
  ASSUME ServerInv, NEW a \in Gets, ProducerResumes(a)
  PROVE  /\ Keeps /\ SameVerdict
         /\ attempts[a].producer # "completed"
         /\ \/ chain' = chain
            \/ chain' = ThenSucceed(chain, a) /\ attempts'[a].producer = "completed"
<1>1. attempts[a].producer = "draining" /\ attempts[a].response = "drained"
  BY DEF ProducerResumes, ResponseFinished
<1>2. CASE server.verdict # "open" \/ attempts[a].aborted
  <2>1. /\ attempts' = [attempts EXCEPT ![a].producer = "ended"]
        /\ server' = server /\ chain' = chain
    BY <1>2 DEF ProducerResumes
  <2> QED BY <1>1, <1>2, <2>1, ProducerMovesKeeps
<1>3. CASE ~(server.verdict # "open" \/ attempts[a].aborted)
  <2> DEFINE completed == [attempts[a] EXCEPT !.producer = "completed", !.terminal = TRUE]
  <2>1. /\ completed \in Attempt /\ completed.producer = "completed"
        /\ completed.response = "drained" /\ completed.firstByte = attempts[a].firstByte
        /\ ~completed.aborted /\ completed.terminal
    BY <1>1, <1>3 DEF ServerInv, Attempt, Producer
  <2>2. /\ attempts' = [attempts EXCEPT ![a] = completed]
        /\ server' = [server EXCEPT !.active = NoAttempt, !.timer = "stopped"]
        /\ chain' = ThenSucceed(chain, a)
    BY <1>3 DEF ServerInv, ProducerResumes, DeliveryComplete
  <2> HIDE DEF completed
  <2>3. /\ attempts' \in [Gets -> Attempt] /\ attempts'[a] = completed
        /\ \A b \in Gets : b # a => attempts'[b] = attempts[b]
    BY <2>1, <2>2 DEF ServerInv
  <2>4. /\ server' \in Server /\ server'.count = server.count /\ server'.active = NoAttempt
        /\ server'.verdict = "open" /\ server'.timer = "stopped"
    BY <1>3, <2>2 DEF ServerInv, Server, Timer
  <2>5. a = server.active
    <3>1. a <= server.count
      BY <1>1 DEF ServerInv, Numbered, Server, Gets
    <3> QED BY <1>1, <1>3, <3>1 DEF ServerInv, AliveIsActive, Completed
  <2>6. ServerInv'
    <3>1. Numbered' /\ OpenIsAlive'
      BY <1>1, <2>1, <2>3, <2>4 DEF ServerInv, Numbered, OpenIsAlive
    <3>2. AliveIsActive'
      BY <1>3, <2>1, <2>3, <2>4, <2>5 DEF ServerInv, AliveIsActive, Completed
    <3>3. CompletedIsWhole'
      BY <2>1, <2>3, <2>4 DEF ServerInv, CompletedIsWhole, Completed
    <3> QED BY <2>3, <2>4, <3>1, <3>2, <3>3 DEF ServerInv
  <2>7. LastReported <= LastReported'
    BY <1>3, <2>1, <2>3, <2>4, <2>6, LastReportedGrows
  <2> QED BY <1>1, <2>1, <2>2, <2>3, <2>4, <2>6, <2>7 DEF Keeps, SameVerdict
<1> QED BY <1>2, <1>3

LEMMA ResponseClosesKeeps ==
  ASSUME ServerInv, NEW a \in Gets, ResponseCloses(a)
  PROVE  /\ Keeps /\ SameVerdict
         /\ \/ chain' = chain
            \/ /\ LastReported' = Rank([kind |-> "stream_aborted", attempt |-> a])
               /\ \/ chain' = Report(chain, "stream_aborted", a)
                  \/ chain' = ThenSettle(Report(chain, "stream_aborted", a), a)
<1> DEFINE closed == [attempts[a] EXCEPT !.response = "closed"]
           after == [attempts EXCEPT ![a] = closed]
<1>1. /\ closed \in Attempt /\ closed.producer = attempts[a].producer
      /\ closed.response = "closed" /\ closed.firstByte = attempts[a].firstByte
      /\ closed.aborted = attempts[a].aborted /\ closed.terminal = attempts[a].terminal
  BY DEF ServerInv, Attempt
<1>2. after = [attempts EXCEPT ![a].response = "closed"]
  BY DEF ServerInv
<1>3. attempts[a].response = "open" /\ AbortAttempt(a, server, after)
  BY <1>2 DEF ResponseCloses
<1> HIDE DEF closed
<1>4. /\ after \in [Gets -> Attempt] /\ after[a] = closed
      /\ \A b \in Gets : b # a => after[b] = attempts[b]
  BY <1>1 DEF ServerInv
<1> HIDE DEF after
<1>5. a = server.active
  <2>1. server.verdict = "open" /\ ~attempts[a].aborted /\ ~attempts[a].terminal
    BY <1>3 DEF ServerInv, OpenIsAlive
  <2>2. a <= server.count
    BY <1>3 DEF ServerInv, Numbered, Server, Gets
  <2> QED BY <2>1, <2>2 DEF ServerInv, AliveIsActive
<1>6. server \in Server
  BY DEF ServerInv
<1> QED BY <1>1, <1>3, <1>4, <1>5, <1>6, AbortKeeps

LEMMA StallTimeoutKeeps ==
  ASSUME ServerInv, StallTimeout
  PROVE  /\ Keeps /\ SameVerdict
         /\ \/ chain' = chain
            \/ \E a \in Gets :
                 /\ LastReported' = Rank([kind |-> "stream_aborted", attempt |-> a])
                 /\ \/ chain' = Report(chain, "stream_aborted", a)
                    \/ chain' = ThenSettle(Report(chain, "stream_aborted", a), a)
<1> DEFINE fired == [server EXCEPT !.timer = "spent"]
<1>1. /\ fired \in Server /\ fired.verdict = server.verdict /\ fired.active = server.active
      /\ fired.count = server.count /\ server.timer = "stall"
  BY DEF ServerInv, StallTimeout, Server, Timer
<1>2. CASE server.active = NoAttempt
  <2>1. server' = fired /\ attempts' = attempts /\ chain' = chain
    BY <1>2 DEF StallTimeout
  <2> HIDE DEF fired
  <2>2. ServerInv'
    BY <1>1, <2>1
       DEF ServerInv, Numbered, OpenIsAlive, AliveIsActive, CompletedIsWhole, Completed
  <2>3. LastReported <= LastReported'
    BY <1>1, <2>1, <2>2, LastReportedGrows
  <2> QED BY <1>1, <2>1, <2>2, <2>3 DEF Keeps, SameVerdict
<1>3. CASE server.active # NoAttempt
  <2>1. PICK a \in Gets : a = server.active
    BY <1>3 DEF ServerInv, Server
  <2>2. AbortAttempt(a, fired, attempts)
    BY <1>3, <2>1 DEF StallTimeout
  <2>3. attempts \in [Gets -> Attempt]
    BY DEF ServerInv
  <2> HIDE DEF fired
  <2>4. /\ Keeps /\ SameVerdict
        /\ \/ chain' = chain
           \/ /\ LastReported' = Rank([kind |-> "stream_aborted", attempt |-> a])
              /\ \/ chain' = Report(chain, "stream_aborted", a)
                 \/ chain' = ThenSettle(Report(chain, "stream_aborted", a), a)
    BY <1>1, <2>1, <2>2, <2>3, AbortKeeps
  <2> QED BY <2>4
<1> QED BY <1>2, <1>3

LEMMA ReportedKeeps ==
  ASSUME ServerInv, NEW a \in Gets, attempts[a].producer = "reporting",
         NEW verdict \in {"success", "callback"},
         Settle(verdict, server, [attempts EXCEPT ![a].producer = "reported"])
  PROVE  /\ Keeps
         /\ attempts'[a].producer = "reported"
         /\ server'.verdict \in {server.verdict, verdict}
<1> DEFINE reported == [attempts[a] EXCEPT !.producer = "reported"]
           after == [attempts EXCEPT ![a] = reported]
<1>1. /\ reported \in Attempt /\ reported.producer = "reported"
      /\ reported.response = attempts[a].response /\ reported.firstByte = attempts[a].firstByte
      /\ reported.aborted = attempts[a].aborted /\ reported.terminal = attempts[a].terminal
  BY DEF ServerInv, Attempt, Producer
<1>2. after = [attempts EXCEPT ![a].producer = "reported"]
  BY DEF ServerInv
<1>3. Settle(verdict, server, after) /\ verdict \in Verdict \ {"open"} /\ verdict # "idle"
  BY <1>2 DEF Verdict
<1> HIDE DEF reported
<1>4. /\ after \in [Gets -> Attempt] /\ after[a] = reported
      /\ \A b \in Gets : b # a => after[b] = attempts[b]
  BY <1>1 DEF ServerInv
<1> HIDE DEF after
<1>5. Winds(after)
  BY <1>1, <1>4 DEF Winds, Completed
<1>6. /\ ServerInv' /\ LastReported <= LastReported'
      /\ \A b \in Gets : attempts'[b].producer = after[b].producer
      /\ server'.verdict \in {server.verdict, verdict}
  BY <1>3, <1>4, <1>5, SettleKeeps
<1> QED BY <1>1, <1>4, <1>6 DEF Keeps

\* The success callback is due: its attempt goes on.
LEMMA SuccessDueKeeps ==
  ASSUME ServerInv, NEW a \in Gets, attempts[a].producer = "completed",
         attempts' = [attempts EXCEPT ![a].producer = "reporting"], UNCHANGED server
  PROVE  /\ ServerInv' /\ LastReported <= LastReported'
         /\ attempts'[a].producer = "reporting"
         /\ \A b \in Gets : b # a => attempts'[b] = attempts[b]
<1> DEFINE due == [attempts[a] EXCEPT !.producer = "reporting"]
<1>1. /\ due \in Attempt /\ due.producer = "reporting"
      /\ due.response = attempts[a].response /\ due.firstByte = attempts[a].firstByte
      /\ due.aborted = attempts[a].aborted /\ due.terminal = attempts[a].terminal
  BY DEF ServerInv, Attempt, Producer
<1>2. attempts' = [attempts EXCEPT ![a] = due]
  BY DEF ServerInv
<1> HIDE DEF due
<1>3. /\ attempts' \in [Gets -> Attempt] /\ attempts'[a] = due
      /\ \A b \in Gets : b # a => attempts'[b] = attempts[b]
  BY <1>1, <1>2 DEF ServerInv
<1>4. ServerInv'
  BY <1>1, <1>3
     DEF ServerInv, Numbered, OpenIsAlive, AliveIsActive, CompletedIsWhole, Completed
<1>5. LastReported <= LastReported'
  BY <1>1, <1>3, <1>4, LastReportedGrows
<1> QED BY <1>1, <1>3, <1>4, <1>5

-----------------------------------------------------------------------------
(***************************************************************************)
(* The chain of posts.                                                     *)
(***************************************************************************)

LEMMA ChainLinks ==
  ASSUME NEW c \in Seq(Link)
  PROVE  \A i \in DOMAIN c : c[i] \in Link /\ c[i].attempt \in Gets
<1>1. \A link \in Link : link.attempt \in Gets
  BY DEF Link
<1> QED BY <1>1

LEMMA OrderedGrows ==
  ASSUME NEW c \in Seq(Link), NEW from \in Nat, NEW to \in Nat, NEW last \in Nat,
         Ordered(c, from, to), to <= last
  PROVE  Ordered(c, from, last)
<1>1. \A i \in DOMAIN c : c[i] \in Link
  OBVIOUS
<1>2. \A i \in DOMAIN c : IsStage(c[i]) => Rank(c[i]) \in Nat
  BY <1>1, StageRankType
<1> QED BY <1>2 DEF Ordered

LEMMA OrderedAppend ==
  ASSUME NEW c \in Seq(Link), NEW from \in Nat, NEW to \in Nat, NEW link \in Link,
         Ordered(c, from, to)
  PROVE  /\ Append(c, link) \in Seq(Link)
         /\ ~IsStage(link) => Ordered(Append(c, link), from, to)
         /\ IsStage(link) /\ to <= Rank(link) => Ordered(Append(c, link), from, Rank(link))
<1> DEFINE d == Append(c, link)
<1>1. /\ d \in Seq(Link) /\ DOMAIN d = 1..(Len(c) + 1) /\ DOMAIN c = 1..Len(c)
      /\ \A i \in 1..Len(c) : d[i] = c[i]
      /\ d[Len(c) + 1] = link
      /\ Len(c) \in Nat
  OBVIOUS
<1>2. \A i \in DOMAIN d : IsStage(d[i]) => Rank(d[i]) \in Nat
  <2>1. \A i \in DOMAIN d : d[i] \in Link
    BY <1>1
  <2> QED BY <2>1, StageRankType
<1> HIDE DEF d
<1>3. ~IsStage(link) => Ordered(d, from, to)
  BY <1>1, <1>2 DEF Ordered
<1>4. ASSUME IsStage(link), to <= Rank(link)
      PROVE  Ordered(d, from, Rank(link))
  BY <1>1, <1>2, <1>4 DEF Ordered
<1> QED BY <1>1, <1>3, <1>4 DEF d

LEMMA OrderedTail ==
  ASSUME NEW c \in Seq(Link), c # <<>>, NEW from \in Nat, NEW to \in Nat, Ordered(c, from, to)
  PROVE  /\ Head(c) \in Link /\ Tail(c) \in Seq(Link)
         /\ Ordered(Tail(c), from, to)
         /\ IsStage(Head(c)) => /\ Ordered(Tail(c), Rank(Head(c)), to)
                                /\ Ordered(c, Rank(Head(c)), to)
                                /\ from <= Rank(Head(c)) /\ Rank(Head(c)) \in Nat
<1> DEFINE d == Tail(c)
<1>1. /\ d \in Seq(Link) /\ DOMAIN d = 1..(Len(c) - 1) /\ DOMAIN c = 1..Len(c)
      /\ \A i \in 1..(Len(c) - 1) : d[i] = c[i + 1]
      /\ Len(c) \in Nat /\ Len(c) >= 1
      /\ Head(c) = c[1] /\ c[1] \in Link
  OBVIOUS
<1>2. \A i \in DOMAIN c : IsStage(c[i]) => Rank(c[i]) \in Nat
  <2>1. \A i \in DOMAIN c : c[i] \in Link
    OBVIOUS
  <2> QED BY <2>1, StageRankType
<1> HIDE DEF d
<1>3. \A i \in DOMAIN d : i + 1 \in DOMAIN c /\ d[i] = c[i + 1] /\ i \in Nat
  BY <1>1
<1>4. Ordered(d, from, to)
  BY <1>3 DEF Ordered
<1>5. ASSUME IsStage(c[1])
      PROVE  /\ Ordered(d, Rank(c[1]), to) /\ Ordered(c, Rank(c[1]), to)
             /\ from <= Rank(c[1]) /\ Rank(c[1]) \in Nat
  <2>1. 1 \in DOMAIN c /\ \A i \in DOMAIN c : 1 <= i
    BY <1>1
  <2>2. Ordered(c, Rank(c[1]), to)
    BY <1>5, <2>1 DEF Ordered
  <2>3. Ordered(d, Rank(c[1]), to)
    BY <1>3, <2>2 DEF Ordered
  <2> QED BY <1>2, <1>5, <2>1, <2>2, <2>3 DEF Ordered
<1> QED BY <1>1, <1>4, <1>5 DEF d

LEMMA WaitingKept ==
  ASSUME NEW c \in Seq(Link), NEW now, NEW next, Waiting(c, now),
         \A a \in Gets : now[a].producer = "completed" => next[a].producer = "completed"
  PROVE  Waiting(c, next)
<1>1. \A i \in DOMAIN c : c[i].attempt \in Gets
  BY ChainLinks
<1> QED BY <1>1 DEF Waiting

LEMMA WaitingAppend ==
  ASSUME NEW c \in Seq(Link), NEW now, NEW link \in Link, Waiting(c, now)
  PROVE  link.kind # "succeed" => Waiting(Append(c, link), now)
<1> DEFINE d == Append(c, link)
<1>1. /\ DOMAIN d = 1..(Len(c) + 1) /\ DOMAIN c = 1..Len(c)
      /\ \A i \in 1..Len(c) : d[i] = c[i]
      /\ d[Len(c) + 1] = link
      /\ Len(c) \in Nat
  OBVIOUS
<1> HIDE DEF d
<1>2. link.kind # "succeed" => Waiting(d, now)
  BY <1>1 DEF Waiting
<1> QED BY <1>2 DEF d

\* A completed attempt joins the chain once.
LEMMA WaitingSucceeds ==
  ASSUME NEW c \in Seq(Link), NEW now, NEW next, NEW a \in Gets, Waiting(c, now),
         now[a].producer # "completed", next[a].producer = "completed",
         \A b \in Gets : now[b].producer = "completed" => next[b].producer = "completed"
  PROVE  Waiting(ThenSucceed(c, a), next)
<1> DEFINE link == [kind |-> "succeed", attempt |-> a]
           d == Append(c, link)
<1>1. /\ DOMAIN d = 1..(Len(c) + 1) /\ DOMAIN c = 1..Len(c)
      /\ \A i \in 1..Len(c) : d[i] = c[i]
      /\ d[Len(c) + 1] = link
      /\ Len(c) \in Nat
  OBVIOUS
<1>2. link.kind = "succeed" /\ link.attempt = a
  OBVIOUS
<1>3. Waiting(c, next)
  BY WaitingKept
<1>4. \A i \in DOMAIN c : c[i].kind = "succeed" => c[i].attempt # a
  BY DEF Waiting
<1> HIDE DEF d, link
<1>5. Waiting(d, next)
  BY <1>1, <1>2, <1>3, <1>4 DEF Waiting
<1> QED BY <1>5 DEF d, link, ThenSucceed

LEMMA WaitingTail ==
  ASSUME NEW c \in Seq(Link), c # <<>>, NEW now, Waiting(c, now)
  PROVE  /\ Waiting(Tail(c), now)
         /\ Head(c).kind = "succeed" =>
              /\ now[Head(c).attempt].producer = "completed"
              /\ \A next : (\A b \in Gets : b # Head(c).attempt => next[b] = now[b]) =>
                   Waiting(Tail(c), next)
<1> DEFINE d == Tail(c)
<1>1. /\ DOMAIN d = 1..(Len(c) - 1) /\ DOMAIN c = 1..Len(c)
      /\ \A i \in 1..(Len(c) - 1) : d[i] = c[i + 1]
      /\ Len(c) \in Nat /\ Len(c) >= 1
      /\ Head(c) = c[1]
  OBVIOUS
<1>2. \A i \in DOMAIN c : c[i].attempt \in Gets
  BY ChainLinks
<1> HIDE DEF d
<1>3. \A i \in DOMAIN d : /\ i + 1 \in DOMAIN c /\ i + 1 # 1 /\ d[i] = c[i + 1]
                          /\ \A j \in DOMAIN d : j # i => j + 1 # i + 1
  BY <1>1
<1>4. Waiting(d, now)
  BY <1>3 DEF Waiting
<1>5. ASSUME c[1].kind = "succeed"
      PROVE  /\ now[c[1].attempt].producer = "completed"
             /\ \A next : (\A b \in Gets : b # c[1].attempt => next[b] = now[b]) =>
                  Waiting(d, next)
  <2>1. 1 \in DOMAIN c
    BY <1>1
  <2>2. \A i \in DOMAIN c : i # 1 /\ c[i].kind = "succeed" => c[i].attempt # c[1].attempt
    BY <1>5, <2>1 DEF Waiting
  <2> QED BY <1>2, <1>3, <1>4, <1>5, <2>1, <2>2 DEF Waiting
<1> QED BY <1>1, <1>4, <1>5 DEF d

-----------------------------------------------------------------------------
(***************************************************************************)
(* The invariant is inductive.                                             *)
(***************************************************************************)

LEMMA InitLInv == Init => LInv
<1> SUFFICES ASSUME Init PROVE LInv
  OBVIOUS
<1>1. NotAccepted \in Attempt /\ NotAccepted.producer = "none" /\ NotAccepted.response = "none"
  BY DEF NotAccepted, Attempt, Producer
<1>2. server \in Server
  BY LiveStreamConstants DEF Init, Server, Verdict, Timer, NoAttempt
<1>3. attempts \in [Gets -> Attempt] /\ \A a \in Gets : attempts[a] = NotAccepted
  BY <1>1 DEF Init
<1>4. StreamTypeOK
  BY <1>2, <1>3, LiveStreamConstants DEF Init, StreamTypeOK
<1>5. ServerInv
  <2>1. \A a \in Gets : a > server.count
    BY LiveStreamConstants DEF Init, Gets
  <2>2. server.count = 0 /\ server.active = NoAttempt
    BY DEF Init
  <2>3. \A a \in Gets : attempts[a].producer = "none" /\ attempts[a].response = "none"
    BY <1>1, <1>3
  <2>4. \A a \in Gets : ~(a <= server.count)
    BY <2>2 DEF Gets
  <2>5. Numbered
    BY <2>1, <2>2, <2>3 DEF Numbered
  <2>6. OpenIsAlive /\ CompletedIsWhole
    BY <2>3 DEF OpenIsAlive, CompletedIsWhole, Completed
  <2>7. AliveIsActive
    BY <2>4 DEF AliveIsActive
  <2> QED BY <1>2, <1>3, <2>5, <2>6, <2>7 DEF ServerInv
<1>6. SuccessWaits /\ ChainInOrder
  BY DEF Init, SuccessWaits, Waiting, ChainInOrder, Ordered, LastReported
<1>7. SuccessMeansWholeZip
  BY DEF Init, SuccessMeansWholeZip
<1> QED BY <1>4, <1>5, <1>6, <1>7 DEF LInv

OthersTyped ==
  /\ ready \in {"unposted", "posting", "over"}
  /\ tries \in [Posters -> 0..(PostTries - 1)]
  /\ main \in {"serving", "failing", "returned", "exited"}
  /\ record \in {"none", "running", "succeeded", "failed"}
  /\ delivered \in 0..(3 * MaxGets + 3)

Reported(a) == attempts[a].producer \in {"reporting", "reported"}

LEMMA LInvTypes ==
  ASSUME LInv
  PROVE  /\ ServerInv /\ chain \in Seq(Link) /\ OthersTyped
         /\ delivered \in Nat /\ LastReported \in Nat
BY LastReportedType, LiveStreamConstants DEF LInv, StreamTypeOK, OthersTyped

\* What remains to be shown of a step that keeps the server in order.
LEMMA StepKeepsLInv ==
  ASSUME LInv, ServerInv', OthersTyped', chain' \in Seq(Link),
         Waiting(chain', attempts'), Ordered(chain', delivered', LastReported'),
         \A a \in Gets : Reported(a) => Reported(a)',
         record' = "succeeded" => record = "succeeded" \/ \E a \in Gets : Reported(a),
         server'.verdict = "success" =>
           server.verdict = "success" \/ \E a \in Gets : Reported(a)
  PROVE  LInv'
<1>1. StreamTypeOK'
  BY DEF StreamTypeOK, ServerInv, OthersTyped
<1>2. SuccessMeansWholeZip'
  <2> SUFFICES ASSUME record' = "succeeded" \/ server'.verdict = "success"
               PROVE  \E a \in Gets : /\ Reported(a)'
                                      /\ attempts'[a].response = "drained"
                                      /\ ~attempts'[a].aborted
    BY DEF SuccessMeansWholeZip, Reported
  <2>1. \E a \in Gets : Reported(a)
    BY DEF LInv, SuccessMeansWholeZip, Reported
  <2>2. PICK a \in Gets : Reported(a)'
    BY <2>1
  <2> QED BY <2>2 DEF ServerInv, CompletedIsWhole, Completed, Reported
<1> QED BY <1>1, <1>2 DEF LInv, SuccessWaits, ChainInOrder

\* Steps that leave the chain and all callbacks alone.
LEMMA QuietStep ==
  ASSUME LInv, Keeps, SameVerdict, UNCHANGED <<chain, record, delivered>>, OthersTyped'
  PROVE  LInv'
<1>1. /\ chain \in Seq(Link) /\ delivered \in Nat /\ LastReported \in Nat
      /\ ServerInv' /\ LastReported <= LastReported'
  BY LInvTypes DEF Keeps
<1>2. LastReported' \in Nat
  BY <1>1, LiveStreamConstants DEF ServerInv, Server, LastReported
<1>3. Waiting(chain, attempts')
  BY <1>1, WaitingKept DEF LInv, SuccessWaits, Keeps
<1>4. Ordered(chain, delivered, LastReported')
  BY <1>1, <1>2, OrderedGrows DEF LInv, ChainInOrder
<1>5. \A a \in Gets : Reported(a) => Reported(a)'
  BY DEF Keeps, Reported
<1> QED BY <1>1, <1>3, <1>4, <1>5, StepKeepsLInv DEF SameVerdict

\* Steps that report a stage, the failure of the last attempt at most after it.
LEMMA ReportingStep ==
  ASSUME LInv, Keeps, SameVerdict, UNCHANGED <<record, delivered>>, OthersTyped',
         NEW a \in Gets, NEW kind \in {"request_accepted", "first_byte", "stream_aborted"},
         LastReported' = Rank([kind |-> kind, attempt |-> a]),
         \/ chain' = Report(chain, kind, a)
         \/ chain' = ThenSettle(Report(chain, kind, a), a)
  PROVE  LInv'
<1> DEFINE link == [kind |-> kind, attempt |-> a]
           settle == [kind |-> "settle", attempt |-> a]
           links == Append(chain, link)
<1>1. /\ chain \in Seq(Link) /\ delivered \in Nat /\ LastReported \in Nat
      /\ ServerInv' /\ LastReported <= LastReported'
  BY LInvTypes DEF Keeps
<1>2. LastReported' \in Nat
  BY <1>1, LiveStreamConstants DEF ServerInv, Server, LastReported
<1>3. /\ link \in Link /\ IsStage(link) /\ link.kind # "succeed"
      /\ settle \in Link /\ ~IsStage(settle) /\ settle.kind # "succeed"
  BY LinkType DEF IsStage
<1>4. LastReported' = Rank(link) /\ chain' \in {links, Append(links, settle)}
  BY DEF Report, ThenSettle
<1> HIDE DEF link, settle
<1>5. Waiting(chain, attempts')
  BY <1>1, WaitingKept DEF LInv, SuccessWaits, Keeps
<1>6. Ordered(chain, delivered, LastReported)
  BY DEF LInv, ChainInOrder
<1>7. /\ links \in Seq(Link) /\ Waiting(links, attempts')
      /\ Ordered(links, delivered, LastReported')
  BY <1>1, <1>3, <1>4, <1>5, <1>6, OrderedAppend, WaitingAppend
<1> HIDE DEF links
<1>8. /\ Append(links, settle) \in Seq(Link) /\ Waiting(Append(links, settle), attempts')
      /\ Ordered(Append(links, settle), delivered, LastReported')
  BY <1>1, <1>2, <1>3, <1>7, OrderedAppend, WaitingAppend
<1>9. \A b \in Gets : Reported(b) => Reported(b)'
  BY DEF Keeps, Reported
<1> QED BY <1>1, <1>4, <1>7, <1>8, <1>9, StepKeepsLInv DEF SameVerdict

-----------------------------------------------------------------------------
(***************************************************************************)
(* Callbacks and continuations.                                            *)
(***************************************************************************)

LEMMA PosterCases ==
  ASSUME NEW p \in Posters
  PROVE  /\ ReadyPost \notin Gets /\ ChainPost \notin Gets /\ MainPost \notin Gets
         /\ ReadyPost # ChainPost /\ ReadyPost # MainPost /\ ChainPost # MainPost
         /\ p \in Gets \/ p = ReadyPost \/ p = ChainPost \/ p = MainPost
BY LiveStreamConstants DEF Posters, Gets, ReadyPost, ChainPost, MainPost

\* What the Durable Object makes of a post that arrives, or is lost.
LEMMA PostEffect ==
  ASSUME LInv, NEW p \in Posters, NextEvent, UnderWay(p), Arrives(p) \/ Lost
  PROVE  /\ record' \in {"none", "running", "succeeded", "failed"}
         /\ record' = "succeeded" => record = "succeeded" \/ (p \in Gets /\ Reported(p))
         /\ delivered' \in 0..(3 * MaxGets + 3)
         /\ delivered <= delivered'
         /\ Ordered(chain, delivered', LastReported)
         /\ p = ChainPost => /\ chain # <<>> /\ IsStage(Head(chain))
                             /\ Ordered(Tail(chain), delivered', LastReported)
<1>1. /\ chain \in Seq(Link) /\ delivered \in Nat /\ LastReported \in Nat /\ OthersTyped
      /\ Ordered(chain, delivered, LastReported)
  BY LInvTypes DEF LInv, ChainInOrder
<1>2. CASE Lost
  <2>1. record' = record /\ delivered' = delivered
    BY <1>2 DEF Lost
  <2>2. p = ChainPost => chain # <<>>
    BY PosterCases DEF UnderWay
  <2>3. p = ChainPost => IsStage(Head(chain))
    BY <2>2 DEF NextEvent, ContinuationDue
  <2>4. p = ChainPost => Ordered(Tail(chain), delivered, LastReported)
    BY <1>1, <2>2, OrderedTail
  <2> QED BY <1>1, <2>1, <2>2, <2>3, <2>4 DEF OthersTyped
<1>3. CASE Arrives(p)
  <2>1. /\ record' \in {"none", "running", "succeeded", "failed"}
        /\ record' = "succeeded" => p \in Gets /\ Reported(p)
    <3>1. /\ StatusOf(p) \in {"running", "succeeded", "failed"}
          /\ StatusOf(p) = "succeeded" => p \in Gets /\ attempts[p].producer = "reporting"
      BY DEF StatusOf
    <3> QED BY <1>3, <3>1 DEF Arrives, Reported
  <2>2. CASE p = ChainPost
    <3>1. chain # <<>>
      BY <2>2, PosterCases DEF UnderWay
    <3>2. IsStage(Head(chain))
      BY <3>1 DEF NextEvent, ContinuationDue
    <3>3. delivered' = Rank(Head(chain))
      BY <1>3, <2>2 DEF Arrives
    <3>4. /\ Head(chain) \in Link
          /\ Ordered(Tail(chain), Rank(Head(chain)), LastReported)
          /\ Ordered(chain, Rank(Head(chain)), LastReported)
          /\ delivered <= Rank(Head(chain))
      BY <1>1, <3>1, <3>2, OrderedTail
    <3>5. Rank(Head(chain)) \in 0..(3 * MaxGets + 3)
      BY <3>2, <3>4, StageRankType, LiveStreamConstants
    <3> QED BY <2>1, <3>1, <3>2, <3>3, <3>4, <3>5
  <2>3. CASE p # ChainPost
    <3>1. delivered' = delivered
      BY <1>3, <2>3 DEF Arrives
    <3> QED BY <1>1, <2>1, <2>3, <3>1 DEF OthersTyped
  <2> QED BY <2>2, <2>3
<1> QED BY <1>2, <1>3

LEMMA PostAgainKeepsLInv ==
  ASSUME LInv, NEW p \in Posters, PostAgain(p)
  PROVE  LInv'
<1>1. NextEvent /\ UnderWay(p) /\ (Arrives(p) \/ Lost) /\ UNCHANGED <<server, attempts, chain>>
  BY DEF PostAgain
<1>2. /\ ServerInv /\ chain \in Seq(Link) /\ OthersTyped /\ LastReported \in Nat
  BY LInvTypes
<1>3. OthersTyped'
  <2>1. tries' \in [Posters -> 0..(PostTries - 1)]
    <3>1. tries[p] + 1 \in 0..(PostTries - 1)
      BY <1>2, LiveStreamConstants DEF PostAgain, TriesLeft, OthersTyped
    <3> QED BY <1>2, <3>1 DEF PostAgain, OthersTyped
  <2> QED BY <1>1, <1>2, <2>1, PostEffect DEF OthersTyped, PostAgain
<1>4. ServerInv' /\ LastReported' = LastReported
  BY <1>1, <1>2
     DEF ServerInv, Numbered, OpenIsAlive, AliveIsActive, CompletedIsWhole, Completed, LastReported
<1>5. Waiting(chain', attempts')
  BY <1>1 DEF LInv, SuccessWaits
<1>6. Ordered(chain', delivered', LastReported')
  BY <1>1, <1>4, PostEffect
<1>7. record' = "succeeded" => record = "succeeded" \/ \E a \in Gets : Reported(a)
  BY <1>1, PostEffect
<1> QED BY <1>1, <1>2, <1>3, <1>4, <1>5, <1>6, <1>7, StepKeepsLInv DEF Reported

\* A post is over, delivered if ok, and the poster goes on.
LEMMA PostOverKeepsLInv ==
  ASSUME LInv, NEW p \in Posters, NEW ok \in BOOLEAN, NextEvent, UnderWay(p),
         Arrives(p) \/ Lost, tries' = [tries EXCEPT ![p] = 0], AfterPost(p, ok)
  PROVE  LInv'
<1>1. ServerInv /\ chain \in Seq(Link) /\ OthersTyped /\ LastReported \in Nat
  BY LInvTypes
<1>2. tries' \in [Posters -> 0..(PostTries - 1)]
  BY <1>1, LiveStreamConstants DEF OthersTyped
<1>3. /\ record' \in {"none", "running", "succeeded", "failed"}
      /\ record' = "succeeded" => record = "succeeded" \/ \E a \in Gets : Reported(a)
      /\ delivered' \in 0..(3 * MaxGets + 3)
      /\ delivered' \in Nat
      /\ Ordered(chain, delivered', LastReported)
  BY PostEffect
<1>4. ASSUME Keeps, chain' = chain,
             server'.verdict = "success" =>
               server.verdict = "success" \/ \E a \in Gets : Reported(a),
             ready' \in {ready, "over"}, main' \in {main, "exited"}
      PROVE  LInv'
  <2>1. OthersTyped'
    BY <1>1, <1>2, <1>3, <1>4 DEF OthersTyped
  <2>2. ServerInv' /\ LastReported <= LastReported'
    BY <1>4 DEF Keeps
  <2>3. LastReported' \in Nat
    BY <2>2, LiveStreamConstants DEF ServerInv, Server, LastReported
  <2>4. Waiting(chain', attempts')
    BY <1>1, <1>4, WaitingKept DEF LInv, SuccessWaits, Keeps
  <2>5. Ordered(chain', delivered', LastReported')
    BY <1>1, <1>3, <1>4, <2>2, <2>3, OrderedGrows
  <2>6. \A a \in Gets : Reported(a) => Reported(a)'
    BY <1>4 DEF Keeps, Reported
  <2> QED BY <1>1, <1>3, <1>4, <2>1, <2>2, <2>4, <2>5, <2>6, StepKeepsLInv
<1>5. CASE /\ p = ReadyPost
           /\ ready' = "over"
           /\ IF ok THEN UNCHANGED <<server, attempts>> ELSE Settle("ready", server, attempts)
           /\ UNCHANGED <<chain, main>>
  <2>1. "ready" \in Verdict \ {"open", "success"}
    BY DEF Verdict
  <2>2. Keeps /\ SameVerdict
    BY <1>1, <1>5, <2>1, UntouchedKeeps, SettleOnlyKeeps
  <2> QED BY <1>4, <1>5, <2>2 DEF SameVerdict
<1>6. CASE /\ p = ChainPost
           /\ chain' = Tail(chain)
           /\ UNCHANGED <<server, attempts, ready, main>>
  <2>1. OthersTyped'
    BY <1>1, <1>2, <1>3, <1>6 DEF OthersTyped
  <2>2. ServerInv' /\ LastReported' = LastReported
    BY <1>1, <1>6
       DEF ServerInv, Numbered, OpenIsAlive, AliveIsActive, CompletedIsWhole, Completed,
           LastReported
  <2>3. chain # <<>> /\ Ordered(Tail(chain), delivered', LastReported)
    BY <1>6, PostEffect
  <2>4. Tail(chain) \in Seq(Link) /\ Waiting(Tail(chain), attempts)
    BY <1>1, <2>3, WaitingTail DEF LInv, SuccessWaits
  <2> QED BY <1>3, <1>6, <2>1, <2>2, <2>3, <2>4, StepKeepsLInv DEF Reported
<1>7. CASE /\ p = MainPost
           /\ main' = "exited"
           /\ UNCHANGED <<server, attempts, chain, ready>>
  BY <1>1, <1>4, <1>7, UntouchedKeeps DEF SameVerdict
<1>8. CASE /\ p \in Gets /\ attempts[p].producer = "posting"
           /\ IF ok THEN attempts' = [attempts EXCEPT ![p].producer = "generating"] /\ UNCHANGED server
                    ELSE ProducerFails(p, "callback")
           /\ UNCHANGED <<chain, ready, main>>
  <2>1. Keeps /\ SameVerdict
    BY <1>1, <1>8, ProducerMovesKeeps, ProducerFailsKeeps
  <2> QED BY <1>4, <1>8, <2>1 DEF SameVerdict
<1>9. CASE /\ p \in Gets /\ attempts[p].producer = "reporting"
           /\ Settle(IF ok THEN "success" ELSE "callback", server,
                     [attempts EXCEPT ![p].producer = "reported"])
           /\ UNCHANGED <<chain, ready, main>>
  <2>1. Keeps
    BY <1>1, <1>9, ReportedKeeps
  <2>2. \E a \in Gets : Reported(a)
    BY <1>9 DEF Reported
  <2> QED BY <1>4, <1>9, <2>1, <2>2
<1> QED BY <1>5, <1>6, <1>7, <1>8, <1>9 DEF AfterPost

LEMMA ContinuationKeepsLInv ==
  ASSUME LInv, Continuation
  PROVE  LInv'
<1> DEFINE link == Head(chain)
<1>1. /\ ServerInv /\ chain \in Seq(Link) /\ OthersTyped /\ LastReported \in Nat
      /\ delivered \in Nat
  BY LInvTypes
<1>2. /\ chain # <<>> /\ chain' = Tail(chain) /\ ~IsStage(link)
      /\ UNCHANGED <<ready, tries, main, record, delivered>>
  BY DEF Continuation, ContinuationDue
<1>3. OthersTyped'
  BY <1>1, <1>2 DEF OthersTyped
<1>4. /\ link \in Link /\ Tail(chain) \in Seq(Link)
      /\ Ordered(Tail(chain), delivered, LastReported)
  BY <1>1, <1>2, OrderedTail DEF LInv, ChainInOrder
<1>5. /\ Waiting(Tail(chain), attempts)
      /\ link.kind = "succeed" =>
           /\ attempts[link.attempt].producer = "completed"
           /\ \A next : (\A b \in Gets : b # link.attempt => next[b] = attempts[b]) =>
                Waiting(Tail(chain), next)
  BY <1>1, <1>2, WaitingTail DEF LInv, SuccessWaits
<1>6. ASSUME ServerInv', LastReported <= LastReported'
      PROVE  Ordered(Tail(chain), delivered', LastReported')
  <2>1. LastReported' \in Nat
    BY <1>6, LiveStreamConstants DEF ServerInv, Server, LastReported
  <2> QED BY <1>1, <1>2, <1>4, <1>6, <2>1, OrderedGrows
<1>7. CASE link.kind = "settle"
  <2>1. "exhausted" \in Verdict \ {"open", "success"}
    BY DEF Verdict
  <2>2. Keeps /\ SameVerdict
    BY <1>1, <1>7, <2>1, SettleOnlyKeeps DEF Continuation
  <2>3. Waiting(Tail(chain), attempts')
    <3>1. Tail(chain) \in Seq(Link) /\ Waiting(Tail(chain), attempts)
      BY <1>4, <1>5
    <3>2. \A a \in Gets : attempts[a].producer = "completed" =>
            attempts'[a].producer = "completed"
      BY <2>2 DEF Keeps
    <3> QED BY <3>1, <3>2, WaitingKept
  <2>4. \A a \in Gets : Reported(a) => Reported(a)'
    BY <2>2 DEF Keeps, Reported
  <2> QED BY <1>2, <1>3, <1>4, <1>6, <2>2, <2>3, <2>4, StepKeepsLInv DEF Keeps, SameVerdict
<1>8. CASE link.kind # "settle"
  <2>1. link.kind = "succeed" /\ link.attempt \in Gets
    BY <1>2, <1>4, <1>8 DEF Link, IsStage
  <2>2. attempts' = [attempts EXCEPT ![link.attempt].producer = "reporting"] /\ server' = server
    BY <1>8 DEF Continuation
  <2> HIDE DEF link
  <2>3. /\ ServerInv' /\ LastReported <= LastReported'
        /\ attempts'[link.attempt].producer = "reporting"
        /\ \A b \in Gets : b # link.attempt => attempts'[b] = attempts[b]
    BY <1>1, <1>5, <2>1, <2>2, SuccessDueKeeps
  <2>4. Waiting(Tail(chain), attempts')
    BY <1>5, <2>1, <2>3
  <2>5. \A a \in Gets : Reported(a) => Reported(a)'
    BY <2>3 DEF Reported
  <2> QED BY <1>2, <1>3, <1>4, <1>6, <2>2, <2>3, <2>4, <2>5, StepKeepsLInv
<1> QED BY <1>7, <1>8

LEMMA NextKeepsLInv ==
  ASSUME LInv, [Next]_vars
  PROVE  LInv'
<1>1. ServerInv /\ chain \in Seq(Link) /\ OthersTyped
  BY LInvTypes
<1> DEFINE Others == UNCHANGED <<ready, tries, main, record, delivered>>
<1>2. ASSUME Others PROVE OthersTyped'
  BY <1>1, <1>2 DEF OthersTyped
<1>3. CASE Listen
  <2>1. UNCHANGED <<server, attempts, chain, record, delivered>> /\ OthersTyped'
    BY <1>1, <1>3 DEF Listen, OthersTyped
  <2> QED BY <1>1, <2>1, UntouchedKeeps, QuietStep
<1>4. CASE ServerFails
  <2>1. Settle("server", server, attempts) /\ Others /\ chain' = chain
    BY <1>4 DEF ServerFails
  <2>2. "server" \in Verdict \ {"open", "success"}
    BY DEF Verdict
  <2> QED BY <1>1, <1>2, <2>1, <2>2, SettleOnlyKeeps, QuietStep
<1>5. CASE RequestAccepted
  <2>1. chain' = Report(chain, "request_accepted", server.count + 1) /\ Others
    BY <1>5 DEF RequestAccepted
  <2> QED BY <1>1, <1>2, <1>5, <2>1, RequestAcceptedKeeps, ReportingStep
<1>6. CASE IdleTimeout
  <2>1. Settle("idle", server, attempts) /\ server.timer # "stopped" /\ Others /\ chain' = chain
    BY <1>6 DEF IdleTimeout
  <2>2. "idle" \in Verdict \ {"open", "success"}
    BY DEF Verdict
  <2> QED BY <1>1, <1>2, <2>1, <2>2, SettleOnlyKeeps, QuietStep
<1>7. CASE StallTimeout
  <2>1. Others
    BY <1>7 DEF StallTimeout
  <2> QED BY <1>1, <1>2, <1>7, <2>1, StallTimeoutKeeps, QuietStep, ReportingStep
<1>8. CASE Continuation
  BY <1>8, ContinuationKeepsLInv
<1>9. CASE ServerCloses \/ ProcessEnds
  <2>1. UNCHANGED <<server, attempts, chain, record, delivered>> /\ OthersTyped'
    BY <1>1, <1>9 DEF ServerCloses, ProcessEnds, OthersTyped
  <2> QED BY <1>1, <2>1, UntouchedKeeps, QuietStep
<1>10. ASSUME NEW a \in Gets, FirstByte(a)
       PROVE  LInv'
  <2>1. chain' = Report(chain, "first_byte", a) /\ Others
    BY <1>10 DEF FirstByte
  <2> QED BY <1>1, <1>2, <1>10, <2>1, FirstByteKeeps, ReportingStep
<1>11. ASSUME NEW a \in Gets, ResponseCloses(a)
       PROVE  LInv'
  <2>1. Others
    BY <1>11 DEF ResponseCloses
  <2> QED BY <1>1, <1>2, <1>11, <2>1, ResponseClosesKeeps, QuietStep, ReportingStep
<1>12. ASSUME NEW a \in Gets, ProducerPosts(a) \/ GenerationEnds(a)
       PROVE  LInv'
  <2>1. /\ attempts[a].producer = "generating"
        /\ \E p \in {"posting", "draining"} : attempts' = [attempts EXCEPT ![a].producer = p]
        /\ UNCHANGED <<server, chain>> /\ Others
    BY <1>12 DEF ProducerPosts, GenerationEnds
  <2>2. Keeps /\ SameVerdict
    BY <1>1, <2>1, ProducerMovesKeeps
  <2> QED BY <1>2, <2>1, <2>2, QuietStep
<1>13. ASSUME NEW a \in Gets, GenerationFails(a)
       PROVE  LInv'
  <2>1. /\ attempts[a].producer \in {"generating", "draining"} /\ ProducerFails(a, "generation")
        /\ chain' = chain /\ Others
    BY <1>13 DEF GenerationFails
  <2> QED BY <1>1, <1>2, <2>1, ProducerFailsKeeps, QuietStep
<1>14. ASSUME NEW a \in Gets, ResponseDrains(a)
       PROVE  LInv'
  <2>1. chain' = chain /\ Others
    BY <1>14 DEF ResponseDrains
  <2> QED BY <1>1, <1>2, <1>14, <2>1, ResponseDrainsKeeps, QuietStep
<1>15. ASSUME NEW a \in Gets, ProducerResumes(a)
       PROVE  LInv'
  <2>1. Others
    BY <1>15 DEF ProducerResumes
  <2>2. /\ Keeps /\ SameVerdict /\ attempts[a].producer # "completed"
        /\ \/ chain' = chain
           \/ chain' = ThenSucceed(chain, a) /\ attempts'[a].producer = "completed"
    BY <1>1, <1>15, ProducerResumesKeeps
  <2>3. CASE chain' = chain
    BY <1>2, <2>1, <2>2, <2>3, QuietStep
  <2>4. CASE chain' = ThenSucceed(chain, a) /\ attempts'[a].producer = "completed"
    <3> DEFINE link == [kind |-> "succeed", attempt |-> a]
    <3>1. link \in Link /\ ~IsStage(link)
      BY LinkType DEF IsStage
    <3>2. chain' = Append(chain, link)
      BY <2>4 DEF ThenSucceed
    <3>3. /\ delivered \in Nat /\ LastReported \in Nat /\ LastReported <= LastReported'
          /\ ServerInv'
      BY <2>2, LInvTypes DEF Keeps
    <3>4. LastReported' \in Nat
      BY <3>3, LiveStreamConstants DEF ServerInv, Server, LastReported
    <3> HIDE DEF link
    <3>5. Ordered(chain, delivered, LastReported')
      BY <1>1, <3>3, <3>4, OrderedGrows DEF LInv, ChainInOrder
    <3>6. chain' \in Seq(Link) /\ Ordered(chain', delivered', LastReported')
      BY <1>1, <2>1, <3>1, <3>2, <3>3, <3>4, <3>5, OrderedAppend
    <3>7. Waiting(chain', attempts')
      BY <1>1, <2>2, <2>4, WaitingSucceeds DEF LInv, SuccessWaits, Keeps
    <3>8. \A b \in Gets : Reported(b) => Reported(b)'
      BY <2>2 DEF Keeps, Reported
    <3> QED BY <1>2, <2>1, <2>2, <3>3, <3>6, <3>7, <3>8, StepKeepsLInv DEF SameVerdict
  <2> QED BY <2>2, <2>3, <2>4
<1>16. ASSUME NEW p \in Posters, PostAgain(p)
       PROVE  LInv'
  BY <1>16, PostAgainKeepsLInv
<1>17. ASSUME NEW p \in Posters, PostReturns(p) \/ PostThrows(p)
       PROVE  LInv'
  <2>1. /\ NextEvent /\ UnderWay(p) /\ (Arrives(p) \/ Lost)
        /\ tries' = [tries EXCEPT ![p] = 0]
        /\ AfterPost(p, TRUE) \/ AfterPost(p, FALSE)
    BY <1>17 DEF PostReturns, PostThrows
  <2> QED BY <2>1, PostOverKeepsLInv
<1>18. CASE UNCHANGED vars
  <2>1. UNCHANGED <<server, attempts, chain, record, delivered>> /\ Others
    BY <1>18 DEF vars
  <2> QED BY <1>1, <1>2, <2>1, UntouchedKeeps, QuietStep
<1> QED BY <1>3, <1>4, <1>5, <1>6, <1>7, <1>8, <1>9, <1>10, <1>11, <1>12, <1>13, <1>14, <1>15,
           <1>16, <1>17, <1>18 DEF Next

LEMMA NextKeepsOrder ==
  ASSUME LInv, [Next]_vars
  PROVE  [delivered' >= delivered]_vars
<1>1. delivered \in Nat
  BY LInvTypes
<1>2. ASSUME NEW p \in Posters, PostAgain(p) \/ PostReturns(p) \/ PostThrows(p)
      PROVE  delivered' >= delivered
  <2>1. NextEvent /\ UnderWay(p) /\ (Arrives(p) \/ Lost)
    BY <1>2 DEF PostAgain, PostReturns, PostThrows
  <2>2. delivered <= delivered' /\ delivered' \in 0..(3 * MaxGets + 3)
    BY <2>1, PostEffect
  <2> QED BY <1>1, <2>2
<1>3. \/ delivered' = delivered
      \/ \E p \in Posters : PostAgain(p) \/ PostReturns(p) \/ PostThrows(p)
  BY DEF Next, vars, Listen, ServerFails, RequestAccepted, IdleTimeout, StallTimeout, Continuation,
         ServerCloses, ProcessEnds, FirstByte, ResponseCloses, ProducerPosts, GenerationEnds,
         GenerationFails, ResponseDrains, ProducerResumes
<1> QED BY <1>1, <1>2, <1>3

-----------------------------------------------------------------------------
(***************************************************************************)
(* The theorems, for any MaxAttempts, PostTries and MaxGets.               *)
(***************************************************************************)

\* The order of attempts, the posts and the outcome survives every interleaving of
\* clients, producers, timers and callbacks (serveArtifactLiveStream,
\* export-runner.ts:1091-1464).
THEOREM LiveStreamInvariant == Spec => []LInv
<1>1. LInv /\ [Next]_vars => LInv'
  BY NextKeepsLInv
<1> QED BY InitLInv, <1>1, PTL DEF Spec

\* The closure of the promise, the attempts and the chain of posts keep their types,
\* and no callback is tried more often than postCallback allows
\* (export-runner.ts:1119-1139).
THEOREM StreamTypeCorrect == Spec => []StreamTypeOK
<1>1. LInv => StreamTypeOK
  BY DEF LInv
<1> QED BY LiveStreamInvariant, <1>1, PTL

\* Only the active attempt writes to a client, after any number of aborts and retries
\* (export-runner.ts:1259, 1187-1192).
THEOREM OneClientIsServed == Spec => []OneClientAtATime
<1>1. LInv => OneClientAtATime
  <2> SUFFICES ASSUME LInv, NEW a \in Gets, attempts[a].response = "open"
               PROVE  a = server.active
    BY DEF OneClientAtATime
  <2>1. server.verdict = "open" /\ ~attempts[a].aborted /\ ~attempts[a].terminal
    BY DEF LInv, ServerInv, OpenIsAlive
  <2>2. a <= server.count
    BY DEF LInv, ServerInv, Numbered, Server, Gets
  <2> QED BY <2>1, <2>2 DEF LInv, ServerInv, AliveIsActive
<1> QED BY LiveStreamInvariant, <1>1, PTL

\* Success is reported only for an attempt whose whole ZIP was written to its client
\* (export-runner.ts:1368-1371).
THEOREM SuccessNeedsWholeZip == Spec => []SuccessMeansWholeZip
<1>1. LInv => SuccessMeansWholeZip
  BY DEF LInv
<1> QED BY LiveStreamInvariant, <1>1, PTL

\* After a completed download no delivery timer runs again, nor was it one that ended
\* the run (export-runner.ts:1381-1384).
THEOREM CompletedDownloadsHaveNoTimer == Spec => []TimersSpareDownloads
<1>1. LInv => TimersSpareDownloads
  BY DEF LInv, ServerInv, CompletedIsWhole, TimersSpareDownloads
<1> QED BY LiveStreamInvariant, <1>1, PTL

\* No stage is applied after a later one, whatever posts are lost, repeated or given
\* up (export-runner.ts:1141-1164).
THEOREM StagesAreOrdered == Spec => StagesArriveInOrder
<1>1. LInv /\ [Next]_vars => [delivered' >= delivered]_vars
  BY NextKeepsOrder
<1> QED BY LiveStreamInvariant, <1>1, PTL DEF Spec, StagesArriveInOrder
===============================================================================
