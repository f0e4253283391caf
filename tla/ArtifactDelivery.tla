---------------------------- MODULE ArtifactDelivery ----------------------------
(***************************************************************************)
(* Delivery of the ZIP artifact through the Durable Object: a client asks  *)
(* for a download link, which carries an access token, and opens it; the   *)
(* handler connects to the live artifact stream of the container, retrying *)
(* for ten seconds while the container is not there yet, and looks at the  *)
(* token a second time before it streams.  The module adds these handlers  *)
(* to ExporterJob.                                                         *)
(***************************************************************************)
EXTENDS ExporterJob

CONSTANTS
  MaxDownloads  \* bound: download handlers suspended at once

ASSUME DownloadBound == MaxDownloads \in Nat

VARIABLES
  granted,    \* the tokens minted so far
  downloads,  \* download handlers connecting to the container
  stream      \* history: the stream that began in the last step

allVars == <<store, container, starts, callbacks, monitors, minted, ended, restarts,
             granted, downloads, stream>>

\* A service request carries no token and is authorised without one.
Download == [run: Runs, token: Tokens \cup {NoToken}]

\* The run whose token or session opened the stream, the status its record had
\* then, and the run whose container sends the bytes.
NoStream == [run |-> NoRun, token |-> NoToken, source |-> NoRun, failed |-> FALSE]
Stream == [run: Runs, token: Tokens \cup {NoToken}, source: Runs, failed: BOOLEAN]

DeliveryTypeOK ==
  /\ TypeOK
  /\ granted \subseteq Tokens
  /\ downloads \subseteq Download
  /\ stream \in Stream \cup {NoStream}

DeliveryInit ==
  /\ Init
  /\ granted = {}
  /\ downloads = {}
  /\ stream = NoStream

-----------------------------------------------------------------------------
(* Download links *)

\* isDownloadArtifactReady
ArtifactReady(job) == job.status = "succeeded" \/ job.window # Absent

\* The checks shared by handleArtifactAccessRequest and handleArtifactDownload.
\* The session must still be the one of the run on record.
Deliverable(s) ==
  /\ s.job.task = "download"
  /\ s.job.failure # "delivery_timeout"
  /\ ArtifactReady(s.job)
  /\ s.job.window # 0
  /\ s.job.status # "failed"
  /\ s.session # NoRun /\ s.session = s.job.run

\* Slip: a token always lives for its full time to live.
Capped_FullTTL(s, left) == left

\* expiresAt of a token, capped to the artifact window.
Capped(s, left) == Earliest(left, s.job.window)

\* An outstanding token is handed out again while it has not expired.
Reusable(s) ==
  /\ s.access.run = s.session
  /\ Capped(s, s.access.left) > 0

WriteArtifactAccess(s, token) ==
  [s EXCEPT !.access = [run |-> s.session, token |-> token, left |-> Capped(s, Window)]]

\* handleArtifactAccessRequest, after the expiry check every request begins with.
RequestAccess ==
  LET s == FailExpiredRunIfNeeded(store)
  IN  /\ \/ /\ ~Deliverable(s) \/ Reusable(s)
            /\ store' = s
            /\ UNCHANGED granted
         \/ /\ Deliverable(s) /\ ~Reusable(s)
            /\ \E token \in Tokens \ granted :
                 /\ store' = WriteArtifactAccess(ClearArtifactAccess(s), token)
                 /\ granted' = granted \cup {token}
      /\ stream' = NoStream
      /\ UNCHANGED <<volatile, minted, restarts, downloads>>

-----------------------------------------------------------------------------
(* Downloads *)

TokenValid(s, token) ==
  /\ s.access.run # NoRun /\ s.access.run = s.session
  /\ s.access.token = token
  /\ s.access.left > 0

\* Slip: any failed validation forgets the outstanding access.
AfterValidation_AnyMismatch(s, token) ==
  IF TokenValid(s, token) THEN s ELSE ClearArtifactAccess(s)

\* validateArtifactToken forgets an access of another run, and, when it is the
\* one presented, an expired one.
AfterValidation(s, token) ==
  IF \/ s.access.run # s.session
     \/ s.access.token = token /\ s.access.left = 0
  THEN ClearArtifactAccess(s) ELSE s

\* A download request with a token that was granted once, or of the service,
\* up to the first fetch from the container.
DownloadArrives(token) ==
  LET s == FailExpiredRunIfNeeded(store)
      byService == token = NoToken
  IN  /\ Cardinality(downloads) < MaxDownloads
      /\ \/ /\ Deliverable(s)
            /\ byService \/ TokenValid(s, token)
            /\ store' = s
            /\ downloads' = downloads \cup {[run |-> s.session, token |-> token]}
         \/ /\ ~Deliverable(s)
            /\ store' = s
            /\ UNCHANGED downloads
         \/ /\ Deliverable(s)
            /\ ~byService /\ ~TokenValid(s, token)
            /\ store' = AfterValidation(s, token)
            /\ UNCHANGED downloads
      /\ stream' = NoStream
      /\ UNCHANGED <<volatile, minted, restarts, granted>>

\* Slip: the handler trusts the check it made before it connected.
StillGranted_ChecksOnce(s, d) == TRUE

\* The second look at the token, after the container answered.
StillGranted(s, d) ==
  d.token = NoToken \/ (s.access.token = d.token /\ s.access.run = d.run)

\* The container answers with the artifact; whichever container runs now.
DownloadConnects(d) ==
  /\ container.task = "download"
  /\ downloads' = downloads \ {d}
  /\ stream' =
       IF StillGranted(store, d)
       THEN [run |-> d.run, token |-> d.token, source |-> container.run,
             failed |-> store.job.run = d.run /\ store.job.status = "failed"]
       ELSE NoStream
  /\ UNCHANGED <<store, volatile, minted, restarts, granted>>

\* The container refuses, or ARTIFACT_UPSTREAM_RETRY_ATTEMPTS are used up.
DownloadFails(d) ==
  /\ downloads' = downloads \ {d}
  /\ stream' = NoStream
  /\ UNCHANGED <<store, volatile, minted, restarts, granted>>

DeliveryStep ==
  \/ RequestAccess
  \/ \E token \in granted \cup {NoToken} : DownloadArrives(token)
  \/ \E d \in downloads : DownloadConnects(d) \/ DownloadFails(d)

\* A tick is longer than the retries of a download; a restart drops them.
DeliveryNext ==
  /\ \/ DeliveryStep
     \/ Step /\ stream' = NoStream /\ UNCHANGED <<granted, downloads>>
     \/ Tick /\ downloads = {} /\ stream' = NoStream /\ UNCHANGED <<granted, downloads>>
     \/ Restart /\ downloads' = {} /\ stream' = NoStream /\ UNCHANGED granted
  /\ History

DeliverySpec == DeliveryInit /\ [][DeliveryNext]_allVars

-----------------------------------------------------------------------------
(* Properties *)

\* A token of a live run ends with the artifact window that its record knows and
\* that its container, while it runs, still keeps, whatever is granted, reused
\* or reported ready in between.  A token granted after the run's success, with
\* no ready event on record, has nothing to be capped by.
TokenWithinWindow ==
  \A r \in Runs : Live(r) /\ store.access.run = r =>
    /\ store.access.left <= store.job.window
    /\ container.run = r => store.access.left <= container.expiry

\* A link that was handed out keeps working while its run is live and it has
\* not expired: neither further link requests, nor downloads with other
\* tokens, nor the end of an older run take it away.
LinkKeepsWorking ==
  [][\A r \in Runs :
       Live(r) /\ Live(r)' /\ store.access.run = r /\ store.access.left > 0
         => store'.access.token = store.access.token]_allVars

\* No stream begins on a token once its run is on record as failed, although
\* the handler checked the record up to ten seconds earlier.
NoStreamAfterFailure == stream.token # NoToken => ~stream.failed

\* A stream that begins for a live run comes from the container of that run.
StreamComesFromItsRun ==
  [][stream' # NoStream /\ Live(stream'.run) => stream'.source = stream'.run]_allVars
=============================================================================
