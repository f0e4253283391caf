--------------------------- MODULE ArtifactLiveStream ---------------------------
(***************************************************************************)
(* The HTTP server with which the export container hands the ZIP to one    *)
(* client at a time (serveArtifactLiveStream).  Every accepted GET is an   *)
(* attempt with a producer of its own; an attempt that breaks or stalls is *)
(* aborted and the server waits for the next GET.  Progress goes to the    *)
(* Durable Object as callbacks, each retried by postCallback; those of the *)
(* delivery stages queue up behind one another on deliveryProgressChain.   *)
(***************************************************************************)
EXTENDS Naturals, Sequences

CONSTANTS
  MaxAttempts,  \* MAX_ARTIFACT_STREAM_ATTEMPTS
  PostTries,    \* tries of postCallback before it throws
  MaxGets       \* bound: GETs accepted in all

ASSUME LiveStreamConstants ==
  /\ MaxAttempts \in Nat \ {0}
  /\ PostTries \in Nat \ {0}
  /\ MaxGets \in Nat

VARIABLES
  server,     \* the closure of the promise and its timeout controller
  attempts,   \* the attempts, by number
  chain,      \* deliveryProgressChain: posts and continuations not done yet
  ready,      \* the artifact_delivery.ready post
  tries,      \* failed tries of each post under way
  main,       \* the run around the server
  record,     \* status of the last callback the Durable Object applied
  delivered   \* history: rank of the last stage post it applied

vars == <<server, attempts, chain, ready, tries, main, record, delivered>>

Gets == 1..MaxGets
NoAttempt == 0

\* Who may have a callback on its way: the attempts, by their numbers, the ready
\* post, the chain, and main once the run has failed.
ReadyPost == 0
ChainPost == MaxGets + 1
MainPost == MaxGets + 2
Posters == Gets \cup {ReadyPost, ChainPost, MainPost}

\* How the promise settled, or "open".
Verdict == {"open", "success", "idle", "exhausted", "generation", "callback", "ready", "server"}

\* The timer that runs: a spent stall timer has fired with nothing to abort.
Timer == {"idle", "stall", "spent", "stopped"}

Server == [verdict: Verdict, timer: Timer, terminalFailurePending: BOOLEAN,
           active: Gets \cup {NoAttempt}, count: 0..MaxGets]

Producer == {"none", "generating", "posting", "draining", "completed", "reporting", "reported",
             "ended"}

Attempt == [producer: Producer, response: {"none", "open", "drained", "closed"},
            firstByte: BOOLEAN, aborted: BOOLEAN, terminal: BOOLEAN]

\* Posts of the chain, in the order an attempt makes them, and the two
\* continuations that wait for the posts before them.
Stages == <<"request_accepted", "first_byte", "stream_aborted">>
Link == [kind: {Stages[i] : i \in 1..3} \cup {"settle", "succeed"}, attempt: Gets]

Rank(link) == 3 * link.attempt + (CHOOSE i \in 1..3 : Stages[i] = link.kind)

StreamTypeOK ==
  /\ server \in Server
  /\ attempts \in [Gets -> Attempt]
  /\ chain \in Seq(Link)
  /\ ready \in {"unposted", "posting", "over"}
  /\ tries \in [Posters -> 0..(PostTries - 1)]
  /\ main \in {"serving", "failing", "returned", "exited"}
  /\ record \in {"none", "running", "succeeded", "failed"}
  /\ delivered \in 0..(3 * MaxGets + 3)

NotAccepted ==
  [producer |-> "none", response |-> "none", firstByte |-> FALSE, aborted |-> FALSE,
   terminal |-> FALSE]

Accepted == [NotAccepted EXCEPT !.producer = "generating", !.response = "open"]

Init ==
  /\ server = [verdict |-> "open", timer |-> "idle", terminalFailurePending |-> FALSE,
               active |-> NoAttempt, count |-> 0]
  /\ attempts = [a \in Gets |-> NotAccepted]
  /\ chain = <<>>
  /\ ready = "unposted"
  /\ tries = [p \in Posters |-> 0]
  /\ main = "serving"
  /\ record = "none"
  /\ delivered = 0

\* The attempt's whole ZIP reached the client.
Completed(a) == attempts[a].producer \in {"completed", "reporting", "reported"}

-----------------------------------------------------------------------------
(* The timeout controller *)

RequestStarted(timer) == IF timer = "idle" THEN "stall" ELSE timer
ActivityObserved(timer) == IF timer = "spent" THEN "stall" ELSE timer

\* Slip: waiting for a retry does not arm the idle timer again.
RetryWaiting_NoIdle(timer) == timer

RetryWaiting(timer) == IF timer \in {"stall", "spent"} THEN "idle" ELSE timer

-----------------------------------------------------------------------------
(* The chain of delivery posts *)

IsStage(link) == link.kind \notin {"settle", "succeed"}

\* Slip: a stage is posted at once, ahead of those still being posted.
Report_JumpsTheQueue(links, kind, a) == <<[kind |-> kind, attempt |-> a]>> \o links

\* reportDeliveryStage
Report(links, kind, a) == Append(links, [kind |-> kind, attempt |-> a])

\* await deliveryProgressChain, before the success callback
ThenSucceed(links, a) == Append(links, [kind |-> "succeed", attempt |-> a])

\* deliveryProgressChain.then, with the failure of the last attempt
ThenSettle(links, a) == Append(links, [kind |-> "settle", attempt |-> a])

\* Node runs the continuations that are due before the next event.
ContinuationDue == chain # <<>> /\ ~IsStage(Head(chain))
NextEvent == main # "exited" /\ ~ContinuationDue

-----------------------------------------------------------------------------
(* Settling the promise and aborting an attempt *)

\* Destroying a response that was written out in full takes nothing back.
Close(attempt) ==
  [attempt EXCEPT !.response = IF attempt.response = "open" THEN "closed" ELSE @]

\* settle.  Only the first call counts; it closes every connection.
Settle(verdict, now, after) ==
  IF now.verdict # "open"
  THEN server' = now /\ attempts' = after
  ELSE LET failing == verdict # "success"
           open == [a \in Gets |-> Close(after[a])]
       IN  /\ server' = [now EXCEPT !.verdict = verdict,
                                    !.timer = "stopped",
                                    !.active = IF failing THEN NoAttempt ELSE @]
           /\ attempts' = [a \in Gets |->
                IF failing /\ a = now.active THEN [open[a] EXCEPT !.terminal = TRUE]
                                             ELSE open[a]]

\* abortAttempt, after which the last attempt's failure waits for the chain.
AbortAttempt(a, now, after) ==
  IF now.verdict # "open" \/ after[a].aborted \/ after[a].terminal
  THEN server' = now /\ attempts' = after /\ UNCHANGED chain
  ELSE LET last == a >= MaxAttempts
           links == Report(chain, "stream_aborted", a)
       IN  /\ server' = [now EXCEPT !.active = NoAttempt,
                                    !.terminalFailurePending = @ \/ last,
                                    !.timer = IF last THEN "stopped" ELSE RetryWaiting(@)]
           /\ attempts' = [after EXCEPT ![a] = [Close(@) EXCEPT !.aborted = TRUE]]
           /\ chain' = IF last THEN ThenSettle(links, a) ELSE links

\* The catch clause of the producer of attempt a.
ProducerFails(a, verdict) ==
  LET ended == [attempts EXCEPT ![a].producer = "ended"]
  IN  IF attempts[a].aborted \/ server.verdict # "open"
      THEN attempts' = ended /\ UNCHANGED server
      ELSE Settle(verdict, server, [ended EXCEPT ![a] = [Close(@) EXCEPT !.terminal = TRUE]])

-----------------------------------------------------------------------------
(* The server *)

\* The port is bound and the Durable Object is told.
Listen ==
  /\ NextEvent
  /\ ready = "unposted" /\ server.verdict = "open"
  /\ ready' = "posting"
  /\ UNCHANGED <<server, attempts, chain, tries, main, record, delivered>>

\* The port cannot be bound.
ServerFails ==
  /\ NextEvent
  /\ ready = "unposted" /\ server.verdict = "open"
  /\ Settle("server", server, attempts)
  /\ UNCHANGED <<chain, ready, tries, main, record, delivered>>

\* Slip: a request is accepted while another one is served.
Busy_ExhaustedOnly == server.terminalFailurePending

\* The server answers 409.
Busy == server.active # NoAttempt \/ server.terminalFailurePending

\* A GET that is not answered by 404 or 409.  Requests come through the Durable
\* Object, which forwards them once it has applied the ready callback.
RequestAccepted ==
  LET a == server.count + 1
  IN  /\ NextEvent
      /\ record # "none" /\ a <= MaxGets
      /\ server.verdict = "open" /\ ~Busy
      /\ server' = [server EXCEPT !.count = a, !.active = a, !.timer = RequestStarted(@)]
      /\ attempts' = [attempts EXCEPT ![a] = Accepted]
      /\ chain' = Report(chain, "request_accepted", a)
      /\ UNCHANGED <<ready, tries, main, record, delivered>>

\* The first chunk of the ZIP.  Later ones only arm the stall timer again.
FirstByte(a) ==
  /\ NextEvent
  /\ attempts[a].response = "open" /\ ~attempts[a].firstByte
  /\ server' = [server EXCEPT !.timer = ActivityObserved(@)]
  /\ attempts' = [attempts EXCEPT ![a].firstByte = TRUE]
  /\ chain' = Report(chain, "first_byte", a)
  /\ UNCHANGED <<ready, tries, main, record, delivered>>

\* The response closes before it was written out.
ResponseCloses(a) ==
  /\ NextEvent
  /\ attempts[a].response = "open"
  /\ AbortAttempt(a, server, [attempts EXCEPT ![a].response = "closed"])
  /\ UNCHANGED <<ready, tries, main, record, delivered>>

IdleTimeout ==
  /\ NextEvent
  /\ server.timer = "idle"
  /\ Settle("idle", server, attempts)
  /\ UNCHANGED <<chain, ready, tries, main, record, delivered>>

StallTimeout ==
  /\ NextEvent
  /\ server.timer = "stall"
  /\ LET fired == [server EXCEPT !.timer = "spent"]
     IN  IF server.active = NoAttempt
         THEN server' = fired /\ UNCHANGED <<attempts, chain>>
         ELSE AbortAttempt(server.active, fired, attempts)
  /\ UNCHANGED <<ready, tries, main, record, delivered>>

-----------------------------------------------------------------------------
(* The producer of an attempt.  An abort reaches it at its next look at the *)
(* signal or at its writer; a post it is in the middle of goes on.          *)

ProducerPosts(a) ==
  /\ NextEvent
  /\ attempts[a].producer = "generating"
  /\ attempts' = [attempts EXCEPT ![a].producer = "posting"]
  /\ UNCHANGED <<server, chain, ready, tries, main, record, delivered>>

\* The archive is finalized; the response has yet to drain.
GenerationEnds(a) ==
  /\ NextEvent
  /\ attempts[a].producer = "generating" /\ attempts[a].response = "open"
  /\ attempts' = [attempts EXCEPT ![a].producer = "draining"]
  /\ UNCHANGED <<server, chain, ready, tries, main, record, delivered>>

GenerationFails(a) ==
  /\ NextEvent
  /\ \/ attempts[a].producer = "generating"
     \/ attempts[a].producer = "draining" /\ attempts[a].response = "closed"
  /\ ProducerFails(a, "generation")
  /\ UNCHANGED <<chain, ready, tries, main, record, delivered>>

\* The producer of a closed response finds out.
StrandedProducerFails(a) == attempts[a].response = "closed" /\ GenerationFails(a)

ResponseDrains(a) ==
  /\ NextEvent
  /\ attempts[a].producer = "draining" /\ attempts[a].response = "open" /\ attempts[a].firstByte
  /\ attempts' = [attempts EXCEPT ![a].response = "drained"]
  /\ UNCHANGED <<server, chain, ready, tries, main, record, delivered>>

\* Slip: the producer does not wait for the response to drain.
ResponseFinished_Unawaited(a) == attempts[a].producer = "draining"

\* await responseFinished
ResponseFinished(a) == attempts[a].producer = "draining" /\ attempts[a].response = "drained"

\* Slip: a delivery timer can still fire.
DeliveryComplete_KeepsTimer(now) == [now EXCEPT !.active = NoAttempt]

\* Only the success callback is left to do.
DeliveryComplete(now) == [now EXCEPT !.active = NoAttempt, !.timer = "stopped"]

\* The producer resumes after the response has drained.
ProducerResumes(a) ==
  /\ NextEvent
  /\ ResponseFinished(a)
  /\ IF server.verdict # "open" \/ attempts[a].aborted
     THEN attempts' = [attempts EXCEPT ![a].producer = "ended"] /\ UNCHANGED <<server, chain>>
     ELSE /\ attempts' = [attempts EXCEPT ![a].producer = "completed", ![a].terminal = TRUE]
          /\ server' = DeliveryComplete(server)
          /\ chain' = ThenSucceed(chain, a)
  /\ UNCHANGED <<ready, tries, main, record, delivered>>

\* The posts a continuation waited for are over.
Continuation ==
  /\ main # "exited" /\ ContinuationDue
  /\ chain' = Tail(chain)
  /\ LET link == Head(chain)
     IN  IF link.kind = "settle"
         THEN Settle("exhausted", server, attempts)
         ELSE /\ attempts' = [attempts EXCEPT ![link.attempt].producer = "reporting"]
              /\ UNCHANGED server
  /\ UNCHANGED <<ready, tries, main, record, delivered>>

-----------------------------------------------------------------------------
(* Callbacks: postCallback *)

UnderWay(p) ==
  CASE p = ReadyPost -> ready = "posting"
    [] p = ChainPost -> chain # <<>>
    [] p = MainPost -> main = "failing"
    [] OTHER -> attempts[p].producer \in {"posting", "reporting"}

StatusOf(p) ==
  CASE p = MainPost -> "failed"
    [] p \in Gets /\ attempts[p].producer = "reporting" -> "succeeded"
    [] OTHER -> "running"

Arrives(p) ==
  /\ record' = StatusOf(p)
  /\ delivered' = IF p = ChainPost THEN Rank(Head(chain)) ELSE delivered

\* Slip: postCallback tries once too often.
TriesLeft_OneMore(p) == tries[p] < PostTries

TriesLeft(p) == tries[p] < PostTries - 1

Lost == UNCHANGED <<record, delivered>>

\* The request or its answer is lost, and the post is tried again.
PostAgain(p) ==
  /\ NextEvent /\ UnderWay(p)
  /\ TriesLeft(p)
  /\ Arrives(p) \/ Lost
  /\ tries' = [tries EXCEPT ![p] = @ + 1]
  /\ UNCHANGED <<server, attempts, chain, ready, main>>

\* What the poster does when postCallback has returned or thrown.
AfterPost(p, ok) ==
  \/ /\ p = ReadyPost
     /\ ready' = "over"
     /\ IF ok THEN UNCHANGED <<server, attempts>> ELSE Settle("ready", server, attempts)
     /\ UNCHANGED <<chain, main>>
  \/ /\ p = ChainPost
     /\ chain' = Tail(chain)
     /\ UNCHANGED <<server, attempts, ready, main>>
  \/ /\ p = MainPost
     /\ main' = "exited"
     /\ UNCHANGED <<server, attempts, chain, ready>>
  \/ /\ p \in Gets /\ attempts[p].producer = "posting"
     /\ IF ok THEN attempts' = [attempts EXCEPT ![p].producer = "generating"] /\ UNCHANGED server
              ELSE ProducerFails(p, "callback")
     /\ UNCHANGED <<chain, ready, main>>
  \/ /\ p \in Gets /\ attempts[p].producer = "reporting"
     /\ Settle(IF ok THEN "success" ELSE "callback", server,
               [attempts EXCEPT ![p].producer = "reported"])
     /\ UNCHANGED <<chain, ready, main>>

PostReturns(p) ==
  /\ NextEvent /\ UnderWay(p)
  /\ Arrives(p)
  /\ tries' = [tries EXCEPT ![p] = 0]
  /\ AfterPost(p, TRUE)

PostThrows(p) ==
  /\ NextEvent /\ UnderWay(p)
  /\ ~TriesLeft(p)
  /\ Arrives(p) \/ Lost
  /\ tries' = [tries EXCEPT ![p] = 0]
  /\ AfterPost(p, FALSE)

-----------------------------------------------------------------------------
(* The run around the server *)

\* The promise settles: runDownloadFlow returns, or handleMainFailure reports.
ServerCloses ==
  /\ NextEvent
  /\ main = "serving" /\ server.verdict # "open"
  /\ main' = IF server.verdict = "success" THEN "returned" ELSE "failing"
  /\ UNCHANGED <<server, attempts, chain, ready, tries, record, delivered>>

\* Node ends a process that has nothing left to wait for.
NothingLeft ==
  /\ chain = <<>> /\ ready # "posting"
  /\ \A a \in Gets : attempts[a].producer \in {"none", "reported", "ended"}

ProcessEnds ==
  /\ main = "returned" /\ NothingLeft
  /\ main' = "exited"
  /\ UNCHANGED <<server, attempts, chain, ready, tries, record, delivered>>

Next ==
  \/ Listen \/ ServerFails \/ RequestAccepted \/ IdleTimeout \/ StallTimeout
  \/ Continuation \/ ServerCloses \/ ProcessEnds
  \/ \E a \in Gets :
       \/ FirstByte(a) \/ ResponseCloses(a) \/ ProducerPosts(a) \/ GenerationEnds(a)
       \/ GenerationFails(a) \/ ResponseDrains(a) \/ ProducerResumes(a)
  \/ \E p \in Posters : PostAgain(p) \/ PostReturns(p) \/ PostThrows(p)

Spec == Init /\ [][Next]_vars

\* Sockets, timers and posts get their turn; every post ends because its tries
\* do.  A producer stops some time after its client is gone: its next look at
\* the signal or the next write fails, however often it posts before that.
Fairness ==
  /\ WF_vars(Listen) /\ WF_vars(IdleTimeout) /\ WF_vars(StallTimeout)
  /\ WF_vars(Continuation) /\ WF_vars(ServerCloses) /\ WF_vars(ProcessEnds)
  /\ \A a \in Gets : WF_vars(ProducerResumes(a)) /\ SF_vars(StrandedProducerFails(a))
  /\ \A p \in Posters : WF_vars(PostReturns(p) \/ PostAgain(p) \/ PostThrows(p))

FairSpec == Spec /\ Fairness

-----------------------------------------------------------------------------
(* Safety *)

\* A ZIP is written to one client at a time: only the active attempt has an open
\* response, whatever aborts, retries and failures came before
\* (export-runner.ts:1259, 1187-1192).
OneClientAtATime ==
  \A a \in Gets : attempts[a].response = "open" => a = server.active

\* The run is reported as succeeded only for an attempt that wrote its whole ZIP
\* to the client and was not aborted (export-runner.ts:1368-1371).
SuccessMeansWholeZip ==
  record = "succeeded" \/ server.verdict = "success" =>
    \E a \in Gets : /\ attempts[a].producer \in {"reporting", "reported"}
                   /\ attempts[a].response = "drained" /\ ~attempts[a].aborted

\* Once a ZIP went through, no delivery timer ends the run or an attempt: none runs
\* any more, not even after a further GET or abort, and none had settled the
\* promise (export-runner.ts:1381-1384).
TimersSpareDownloads ==
  (\E a \in Gets : Completed(a)) => server.timer = "stopped" /\ server.verdict # "idle"

\* The Durable Object learns of the stages in the order they happened, repeated
\* posts and lost ones notwithstanding (export-runner.ts:1141-1164).
StagesArriveInOrder == [][delivered' >= delivered]_vars

-----------------------------------------------------------------------------
(* Liveness *)

\* The run ends whatever clients, producers and the network do: a client that
\* never comes, stalls or leaves, a producer that hangs, callbacks that are lost.
RunEnds == <>(main = "exited")

-----------------------------------------------------------------------------
(* What the code says of itself and does not keep *)

\* After one client got its whole ZIP, nothing but a lost success callback fails
\* the run: "the worker callback is the only remaining terminal operation"
\* (export-runner.ts:1381-1384).
CompletedDownloadSucceeds ==
  (\E a \in Gets : Completed(a)) => server.verdict \in {"open", "success", "callback"}

\* Without a GET after the one that was served, the success callback is the last
\* one the Durable Object applies (artifact-live-stream.test.ts:144).
SuccessIsTheLastCallback ==
  [][record = "succeeded" /\ Completed(server.count) => record' = "succeeded"]_vars
=============================================================================
