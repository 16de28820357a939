-------------------------------- MODULE Intake ---------------------------------
(***************************************************************************)
(* How episodes come in: observe (service.py), captures and batches        *)
(* (capture.py), called over HTTP by clients (native_client.py, sdk.py,    *)
(* mcp_adapter.py) whose requests and answers may be lost or late.  A      *)
(* request is one transaction under the tenant's lock (TenantBarrier), so  *)
(* one step here.  Its idempotency row, the row of its source event and    *)
(* the identities of its jobs outlive the objects they name.               *)
(* An object is named after the call that made it.                         *)
(***************************************************************************)
EXTENDS Integers, Sequences, FiniteSets, Functions, Outcomes

CONSTANTS
  Call,          \* calls of clients; a retry is another call with the same key
  Key,
  Event,         \* source_namespace and source_event_id
  Content,       \* the rest of an episode's payload
  Memory,        \* the memories a capture asks for
  Requests,      \* the requests clients make
  MaxOpenJobs    \* the 100 open jobs of enqueue

ASSUME IntakeAssumption ==
  /\ None \notin Call
  /\ None \notin [request : Requests, key : Key]
  /\ None \notin {"result", "error", "fault"}
  /\ MaxOpenJobs \in Nat
  /\ \A r \in Requests :
       /\ r \in [operation : {"observe", "capture", "capture_batch"}, event : Event,
                 content : Content, memories : Seq(Memory)]
       /\ IsInjective(r.memories)
       /\ CASE r.operation = "observe"       -> Len(r.memories) = 0
            [] r.operation = "capture"       -> Len(r.memories) = 1
            [] r.operation = "capture_batch" -> Len(r.memories) > 0

VARIABLES
  episodes,       \* those there are
  sourceEvents,   \* source_event: one row per event, kept by purges
  identities,     \* job_identity: one row per intent, kept by purges
  liveJobs, openJobs,
  answers,        \* idempotency: one row per operation and key
  calls,          \* [request, key] of each call, or None
  inFlight,       \* calls whose request the service may still handle
  reply,          \* what the service sent and the client has not read
  callTold        \* what the client told its user

intakeTables == <<episodes, sourceEvents, identities, liveJobs, openJobs, answers>>
intakeVars   == <<intakeTables, calls, inFlight, reply, callTold>>

Job    == Call \X Memory
Answer == [by : Call, key : Key, request : Requests, episode : Call,
           jobs : Seq(Job)]

\* The types of the tables and of the calls under way.
IntakeTypeOK ==
  /\ episodes \subseteq Call
  /\ sourceEvents \subseteq [event : Event, content : Content, episode : Call]
  /\ identities \subseteq [episode : Call, memory : Memory, job : Job]
  /\ openJobs \subseteq liveJobs /\ liveJobs \subseteq Job
  /\ answers \subseteq Answer
  /\ calls \in [Call -> [request : Requests, key : Key] \cup {None}]
  /\ inFlight \subseteq Call
  /\ reply \in [Call -> {"result", "error", "fault", None}]
  /\ callTold \in [Call -> Verdicts \cup {None}]

IntakeInit ==
  /\ episodes = {} /\ sourceEvents = {} /\ identities = {}
  /\ liveJobs = {} /\ openJobs = {} /\ answers = {}
  /\ calls = [c \in Call |-> None]
  /\ inFlight = {}
  /\ reply = [c \in Call |-> None]
  /\ callTold = [c \in Call |-> None]

-------------------------------------------------------------------------------
(* The service.  c is the call, r its request.                             *)

\* replay: the row of the same operation and key.
Answered(c) == {w \in answers : /\ w.key = calls[c].key
                                /\ w.request.operation = calls[c].request.operation}

\* A stored result is served while every object it names is there.
Replayable(c) == \E w \in Answered(c) :
  /\ w.request = calls[c].request
  /\ w.episode \in episodes
  /\ Range(w.jobs) \subseteq liveJobs

\* observe: the row of the same source event.
Known(r) == {s \in sourceEvents : s.event = r.event}

EpisodeFor(c, r) == IF Known(r) = {} THEN c ELSE (CHOOSE s \in Known(r) : TRUE).episode

\* source_event_conflict, or the episode is gone.
EventRefused(r) == \E s \in Known(r) : s.content # r.content \/ s.episode \notin episodes

\* Jobs.enqueue: the rows of the intents of an episode's memories.
Intended(e, r) == {i \in identities : i.episode = e /\ i.memory \in Range(r.memories)}

Fresh(e, r) == Range(r.memories) \ {i.memory : i \in Intended(e, r)}

\* A duplicate's job is gone, or a new one is one too many.
EnqueueRefused(e, r) ==
  \/ \E i \in Intended(e, r) : i.job \notin liveJobs
  \/ Cardinality(openJobs) + Cardinality(Fresh(e, r)) > MaxOpenJobs /\ Fresh(e, r) # {}

Refused(c) ==
  LET r == calls[c].request IN
  IF Answered(c) # {} THEN ~Replayable(c)
  ELSE EventRefused(r) \/ EnqueueRefused(EpisodeFor(c, r), r)

\* observe, Captures.create and create_batch: everything or nothing, for it is one
\* transaction.  The rows under derived keys say the same as the answer's row.
Take(c, r) ==
  LET e     == EpisodeFor(c, r)
      fresh == Fresh(e, r)
      Of(m) == IF m \in fresh THEN <<c, m>> ELSE (CHOOSE i \in Intended(e, r) : i.memory = m).job
  IN
  /\ episodes' = episodes \cup {e}
  /\ sourceEvents' = sourceEvents
       \cup {[event |-> r.event, content |-> r.content, episode |-> e]}
  /\ identities' = identities
       \cup {[episode |-> e, memory |-> m, job |-> <<c, m>>] : m \in fresh}
  /\ liveJobs' = liveJobs \cup {<<c, m>> : m \in fresh}
  /\ openJobs' = openJobs \cup {<<c, m>> : m \in fresh}
  /\ answers' = answers \cup {[by |-> c, key |-> calls[c].key, request |-> r, episode |-> e,
                               jobs |-> [n \in DOMAIN r.memories |-> Of(r.memories[n])]]}

\* The service is done with a request; nobody may be listening any more.
Answering(c, outcome) ==
  /\ inFlight' = inFlight \ {c}
  /\ reply' = IF callTold[c] = None THEN [reply EXCEPT ![c] = outcome] ELSE reply
  /\ UNCHANGED <<calls, callTold>>

Reject(c) ==
  /\ c \in inFlight
  /\ Refused(c)
  /\ Answering(c, "error")
  /\ UNCHANGED intakeTables

\* outcome "fault": the connection failed before or after the COMMIT arrived.
Accept(c, outcome) ==
  /\ c \in inFlight
  /\ ~Refused(c)
  /\ outcome \in {"result", "fault"}
  /\ Answering(c, outcome)
  /\ IF Answered(c) # {} THEN UNCHANGED intakeTables ELSE Take(c, calls[c].request)

\* A dependency fails and the transaction rolls back, or the request is lost, or the
\* service stops: the client reads a status of 500 or more, or waits in vain.
Break(c) ==
  /\ c \in inFlight
  /\ Answering(c, "fault")
  /\ UNCHANGED intakeTables

\* What happens to the objects besides: workers settle jobs, users forget jobs
\* and episodes, and the jobs that cite an episode go with it (Forget).
Settle(j) ==
  /\ j \in openJobs
  /\ openJobs' = openJobs \ {j}
  /\ UNCHANGED <<episodes, sourceEvents, identities, liveJobs, answers, calls, inFlight,
                 reply, callTold>>

ForgetWithEvent(e) ==                        \* mutant: the event's row goes too
  {s \in sourceEvents : s.episode # e}

\* A purge deletes no row of source_event.
EventsAfterForget(e) == sourceEvents

Erase(es, js) ==
  LET gone == js \cup {i.job : i \in {i \in identities : i.episode \in es}} IN
  /\ episodes' = episodes \ es
  /\ liveJobs' = liveJobs \ gone
  /\ openJobs' = openJobs \ gone
  /\ UNCHANGED <<identities, answers, calls, inFlight, reply, callTold>>

ForgetEpisode(e) ==
  /\ e \in episodes
  /\ Erase({e}, {})
  /\ sourceEvents' = EventsAfterForget(e)

ForgetJob(j) ==
  /\ j \in liveJobs
  /\ Erase({}, {j})
  /\ UNCHANGED sourceEvents

-------------------------------------------------------------------------------
(* The clients: NativeHTTPClient.request and its users.                    *)

Send(c, q) ==
  /\ calls[c] = None /\ callTold[c] = None
  /\ calls' = [calls EXCEPT ![c] = q]
  /\ inFlight' = inFlight \cup {c}
  /\ UNCHANGED <<intakeTables, reply, callTold>>

Tell(c, told) ==
  /\ callTold' = [callTold EXCEPT ![c] = told]
  /\ reply' = [reply EXCEPT ![c] = None]
  /\ UNCHANGED <<intakeTables, inFlight>>

\* An invalid key, or a body that cannot be encoded or is too large.
RefuseUnsent(c) ==
  /\ calls[c] = None /\ callTold[c] = None
  /\ Tell(c, "refused")
  /\ UNCHANGED calls

JudgeRetryable(outcome) ==          \* mutant: a status of 500 or more is an error too
  IF outcome = "result" THEN "applied" ELSE "refused"

Judge(outcome) ==
  CASE outcome = "result" -> "applied"
    [] outcome = "error"  -> "refused"
    [] outcome = "fault"  -> "unknown"      \* a status of 500 or more

Hear(c) ==
  /\ reply[c] # None
  /\ Tell(c, Judge(reply[c]))
  /\ UNCHANGED calls

\* The client's time is up, its connection breaks, or what it reads is no answer.
GiveUp(c) ==
  /\ calls[c] # None
  /\ callTold[c] = None
  /\ Tell(c, "unknown")
  /\ UNCHANGED calls

IntakeNext ==
  \/ \E c \in Call :
       \/ \E q \in [request : Requests, key : Key] : Send(c, q)
       \/ RefuseUnsent(c) \/ Reject(c) \/ Break(c) \/ Hear(c) \/ GiveUp(c)
       \/ \E outcome \in {"result", "fault"} : Accept(c, outcome)
  \/ \E j \in liveJobs : Settle(j) \/ ForgetJob(j)
  \/ \E e \in episodes : ForgetEpisode(e)

IntakeSpec == IntakeInit /\ [][IntakeNext]_intakeVars

-------------------------------------------------------------------------------
\* observe, source_event: whatever was answered, retried and forgotten in between,
\* an event has had one episode with one content: nothing brings a forgotten event
\* back under another name.  An operation and key have had one request.
OneEpisodePerEvent ==
  \A v, w \in answers :
    /\ v.request.event = w.request.event =>
         v.episode = w.episode /\ v.request.content = w.request.content
    /\ v.key = w.key /\ v.request.operation = w.request.operation => v = w

\* Captures.create, create_batch: no part of a capture is there without the rest.
\* Every event has an answer that tells of it, every episode an event, every job
\* that was ever made is in the answer of the call that made it, and an answer's
\* jobs are those of its memories over its episode.
CapturesAreWhole ==
  /\ \A w \in answers :
       /\ [event |-> w.request.event, content |-> w.request.content,
           episode |-> w.episode] \in sourceEvents
       /\ DOMAIN w.jobs = DOMAIN w.request.memories
       /\ \A n \in DOMAIN w.jobs :
            [episode |-> w.episode, memory |-> w.request.memories[n], job |-> w.jobs[n]]
              \in identities
  /\ \A s \in sourceEvents : \E w \in answers : w.by = s.episode /\ w.episode = s.episode
  /\ \A i \in identities : \E w \in answers : w.by = i.job[1] /\ i.job \in Range(w.jobs)
  /\ episodes \subseteq {s.episode : s \in sourceEvents}
  /\ \A j \in liveJobs : \E i \in identities : i.job = j /\ i.episode \in episodes

\* Intake agrees with itself: both of the above, and the bound on open jobs.
IntakeIsConsistent ==
  /\ OneEpisodePerEvent
  /\ CapturesAreWhole
  /\ Cardinality(openJobs) <= MaxOpenJobs

\* AdapterError.outcome_unknown: a call that was reported refused, without
\* outcome_unknown, has changed nothing and is not waiting to do so behind the
\* client's back; a call reported as done has its answer in the table.
ClientsAreToldTheTruth == \A c \in Call :
  /\ callTold[c] # "applied" =>
       Honest(callTold[c], \E w \in answers : w.by = c, c \in inFlight)
  /\ callTold[c] = "applied" => \E w \in answers :
       w.key = calls[c].key /\ w.request = calls[c].request
===============================================================================
