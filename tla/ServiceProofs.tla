----------------------------- MODULE ServiceProofs -----------------------------
(***************************************************************************)
(* The service that MCService composes.  First its clients: for any calls, *)
(* requests, events and memories an event has one episode whatever is      *)
(* retried, answered late and forgotten, nothing of a capture is there     *)
(* without the rest, and no client is misled; the argument is that a call  *)
(* writes its answer when it leaves the service, so what is still under    *)
(* way, or was refused, has none.  Then the callers of model providers,    *)
(* for any texts, models and vectors.  Last, what the proofs of the parts  *)
(* show holds in the service.                                              *)
(***************************************************************************)
EXTENDS MCService, AdministrationProofs, ReadsProofs

USE OutcomesAssumption

-------------------------------------------------------------------------------
(* Captures *)

\* An event has one row.
RowsOnce == \A s, t \in sourceEvents : s.event = t.event => s = t

\* The tables of the service agree with each other.
TablesAgree ==
  /\ episodes \subseteq Call
  /\ sourceEvents \subseteq [event : Event, content : Content, episode : Call]
  /\ identities \subseteq [episode : Call, memory : Memory, job : Job]
  /\ openJobs \subseteq liveJobs /\ liveJobs \subseteq Job
  /\ answers \subseteq Answer
  /\ IsFiniteSet(openJobs)
  /\ RowsOnce
  /\ IntakeIsConsistent

\* A call writes its answer when it leaves the service.
AnswersFollow == \A w \in answers :
  /\ calls[w.by] = [request |-> w.request, key |-> w.key]
  /\ w.by \notin inFlight

\* What is under way has been sent.
Flying == \A c \in inFlight : calls[c] \in [request : Requests, key : Key]

\* What the service sent, and the client has not read, is true.
RepliesAreTrue == \A c \in Call : reply[c] # None =>
  /\ callTold[c] = None
  /\ calls[c] # None
  /\ c \notin inFlight
  /\ reply[c] = "error" => \A w \in answers : w.by # c
  /\ reply[c] = "result" => \E w \in answers :
       w.key = calls[c].key /\ w.request = calls[c].request

IntakeSound ==
  /\ IntakeTypeOK
  /\ TablesAgree
  /\ AnswersFollow
  /\ Flying
  /\ RepliesAreTrue
  /\ ClientsAreToldTheTruth

\* No client has called.
LEMMA IntakeInitSound == IntakeInit => IntakeSound
<1> SUFFICES ASSUME IntakeInit PROVE IntakeSound
  OBVIOUS
<1>1. IntakeTypeOK
  BY DEF IntakeInit, IntakeTypeOK
<1>2. IntakeIsConsistent
  BY FS_EmptySet, IntakeAssumption DEF IntakeInit, IntakeIsConsistent, OneEpisodePerEvent,
     CapturesAreWhole
<1>3. TablesAgree
  BY <1>2, FS_EmptySet DEF IntakeInit, TablesAgree, RowsOnce
<1>4. AnswersFollow /\ Flying /\ RepliesAreTrue
  BY DEF IntakeInit, AnswersFollow, Flying, RepliesAreTrue
<1>5. ClientsAreToldTheTruth
  BY DEF IntakeInit, ClientsAreToldTheTruth, Honest, Verdicts
<1> QED
  BY <1>1, <1>3, <1>4, <1>5 DEF IntakeSound

\* Jobs.enqueue: what a capture opens is finite, and counts what is fresh at most.
LEMMA OpenJobsBound ==
  ASSUME NEW c, NEW r \in Requests, NEW fresh \in SUBSET Range(r.memories)
  PROVE  /\ IsFiniteSet({<<c, m>> : m \in fresh}) /\ IsFiniteSet(fresh)
         /\ Cardinality({<<c, m>> : m \in fresh}) <= Cardinality(fresh)
<1>1. r.memories \in Seq(Memory)
  BY IntakeAssumption
<1>2. r.memories \in Surjection(1..Len(r.memories), Range(r.memories))
  BY <1>1 DEF Surjection, Range
<1>3. IsFiniteSet(fresh)
  <2>1. IsFiniteSet(1..Len(r.memories))
    BY <1>1, FS_Interval
  <2>2. IsFiniteSet(Range(r.memories))
    BY <1>2, <2>1, FS_Surjection
  <2> QED
    BY <2>2, FS_Subset
<1>4. [m \in fresh |-> <<c, m>>] \in Surjection(fresh, {<<c, m>> : m \in fresh})
  BY DEF Surjection
<1> QED
  BY <1>3, <1>4, FS_Surjection

\* The jobs a capture answers with: the fresh ones are its own, the others known.
JobFor(c, e, r, m) ==
  IF m \in Fresh(e, r) THEN <<c, m>> ELSE (CHOOSE i \in Intended(e, r) : i.memory = m).job

\* ... and each is a job whose identity is in the table, or comes into it.
LEMMA JobForIdentity ==
  ASSUME TablesAgree, NEW c \in Call, NEW e \in Call, NEW r \in Requests,
         NEW m \in Range(r.memories)
  PROVE  /\ JobFor(c, e, r, m) \in Job
         /\ \/ m \in Fresh(e, r) /\ JobFor(c, e, r, m) = <<c, m>>
            \/ [episode |-> e, memory |-> m, job |-> JobFor(c, e, r, m)] \in identities
<1>1. m \in Memory
  <2>1. r.memories \in Seq(Memory)
    BY IntakeAssumption
  <2> QED
    BY <2>1 DEF Range
<1>2. CASE m \in Fresh(e, r)
  BY <1>1, <1>2 DEF JobFor, Job
<1>3. CASE m \notin Fresh(e, r)
  <2> DEFINE i == CHOOSE i \in Intended(e, r) : i.memory = m
  <2>1. \E j \in Intended(e, r) : j.memory = m
    BY <1>3 DEF Fresh
  <2>2. i \in Intended(e, r) /\ i.memory = m
    BY <2>1
  <2>3. i \in identities /\ i.episode = e /\ i \in [episode : Call, memory : Memory, job : Job]
    BY <2>2 DEF Intended, TablesAgree
  <2>4. i = [episode |-> e, memory |-> m, job |-> i.job] /\ i.job \in Job
    BY <2>2, <2>3
  <2>5. JobFor(c, e, r, m) = i.job
    BY <1>3 DEF JobFor
  <2> QED
    BY <2>3, <2>4, <2>5
<1> QED
  BY <1>2, <1>3

\* observe: the episode of a capture is the one of its event's row, and the row is
\* there or comes with it.
LEMMA EpisodeForRow ==
  ASSUME TablesAgree, NEW c \in Call, NEW r \in Requests, ~EventRefused(r)
  PROVE  /\ EpisodeFor(c, r) \in Call
         /\ \/ Known(r) = {} /\ EpisodeFor(c, r) = c
            \/ [event |-> r.event, content |-> r.content, episode |-> EpisodeFor(c, r)]
                 \in sourceEvents
<1>1. CASE Known(r) = {}
  BY <1>1 DEF EpisodeFor
<1>2. CASE Known(r) # {}
  <2> DEFINE s == CHOOSE s \in Known(r) : TRUE
  <2>1. s \in Known(r) /\ EpisodeFor(c, r) = s.episode
    BY <1>2 DEF EpisodeFor
  <2>2. s \in sourceEvents /\ s.event = r.event /\ s.content = r.content
        /\ s \in [event : Event, content : Content, episode : Call]
    BY <2>1 DEF Known, EventRefused, TablesAgree
  <2>3. s = [event |-> r.event, content |-> r.content, episode |-> s.episode]
    BY <2>2
  <2> QED
    BY <2>1, <2>2, <2>3
<1> QED
  BY <1>1, <1>2

\* observe, create, create_batch: taking a capture keeps the tables in agreement.
LEMMA TakeAgrees ==
  ASSUME TablesAgree, NEW c \in Call, NEW r \in Requests, NEW k \in Key,
         calls[c].key = k, calls[c].request = r, Answered(c) = {}, ~EventRefused(r),
         ~EnqueueRefused(EpisodeFor(c, r), r), Take(c, r)
  PROVE  TablesAgree'
<1> DEFINE e     == EpisodeFor(c, r)
           fresh == Fresh(e, r)
           row   == [event |-> r.event, content |-> r.content, episode |-> e]
           new   == {<<c, m>> : m \in fresh}
           w     == [by |-> c, key |-> k, request |-> r, episode |-> e,
                     jobs |-> [n \in DOMAIN r.memories |-> JobFor(c, e, r, r.memories[n])]]
           ids   == {[episode |-> e, memory |-> m, job |-> <<c, m>>] : m \in fresh}
<1>1. /\ episodes' = episodes \cup {e}
      /\ sourceEvents' = sourceEvents \cup {row}
      /\ identities' = identities \cup ids
      /\ liveJobs' = liveJobs \cup new
      /\ openJobs' = openJobs \cup new
      /\ answers' = answers \cup {w}
  BY DEF Take, JobFor
<1>2. r.event \in Event /\ r.content \in Content /\ r.memories \in Seq(Memory)
  BY IntakeAssumption
<1>3. e \in Call /\ ((Known(r) = {} /\ e = c) \/ row \in sourceEvents)
  BY EpisodeForRow
<1>4. fresh \in SUBSET Range(r.memories) /\ fresh \subseteq Memory
  BY <1>2 DEF Fresh, Range
<1>5. \A m \in Range(r.memories) :
        /\ JobFor(c, e, r, m) \in Job
        /\ \/ m \in fresh /\ JobFor(c, e, r, m) = <<c, m>>
           \/ [episode |-> e, memory |-> m, job |-> JobFor(c, e, r, m)] \in identities
  BY <1>3, JobForIdentity
<1>6. \A n \in DOMAIN r.memories : r.memories[n] \in Range(r.memories)
  BY DEF Range
<1>7. w \in Answer
  <2>1. /\ DOMAIN r.memories = 1..Len(r.memories)
        /\ \A n \in DOMAIN r.memories : JobFor(c, e, r, r.memories[n]) \in Job
    <3>1. DOMAIN r.memories = 1..Len(r.memories)
      BY <1>2
    <3>2. \A m \in Range(r.memories) : JobFor(c, e, r, m) \in Job
      BY <1>5
    <3> HIDE DEF e
    <3> QED
      BY <1>6, <3>1, <3>2
  <2>2. w.jobs \in [1..Len(r.memories) -> Job]
    BY <2>1
  <2>3. Len(r.memories) \in Nat
    BY <1>2
  <2>4. w.jobs \in Seq(Job)
    BY <2>2, <2>3
  <2> QED
    BY <1>3, <2>4 DEF Answer
<1>8. new \subseteq Job /\ ids \subseteq [episode : Call, memory : Memory, job : Job]
  BY <1>3, <1>4 DEF Job
<1>9. row \in [event : Event, content : Content, episode : Call]
  BY <1>2, <1>3
<1>10. RowsOnce'
  BY <1>1, <1>3 DEF RowsOnce, Known, TablesAgree
<1>11. IsFiniteSet(new) /\ IsFiniteSet(fresh) /\ Cardinality(new) <= Cardinality(fresh)
  BY <1>4, OpenJobsBound
<1>12. IsFiniteSet(openJobs) /\ Cardinality(openJobs) <= MaxOpenJobs
  BY DEF TablesAgree, IntakeIsConsistent
<1>13. IsFiniteSet(openJobs')
  BY <1>1, <1>11, <1>12, FS_Union
<1>14. Cardinality(openJobs') <= MaxOpenJobs
  <2>1. CASE fresh = {}
    <3>1. openJobs' = openJobs
      BY <1>1, <2>1
    <3> QED
      BY <1>12, <3>1
  <2>2. CASE fresh # {}
    <3>1. ~ (Cardinality(openJobs) + Cardinality(fresh) > MaxOpenJobs)
      BY <2>2 DEF EnqueueRefused
    <3>2. /\ Cardinality(openJobs') = Cardinality(openJobs) + Cardinality(new)
                                        - Cardinality(openJobs \cap new)
          /\ Cardinality(openJobs \cap new) \in Nat /\ Cardinality(openJobs) \in Nat
          /\ Cardinality(new) \in Nat /\ Cardinality(fresh) \in Nat
      BY <1>1, <1>11, <1>12, FS_Union, FS_CardinalityType, FS_Subset
    <3> QED
      BY <1>11, <3>1, <3>2, IntakeAssumption
  <2> QED
    BY <2>1, <2>2
<1>15. OneEpisodePerEvent'
  <2>1. \A v \in answers : [event |-> v.request.event, content |-> v.request.content,
                            episode |-> v.episode] \in sourceEvents
    BY DEF TablesAgree, IntakeIsConsistent, CapturesAreWhole
  <2>2. \A v \in answers : v.request.event = r.event =>
          v.episode = e /\ v.request.content = r.content
    <3> SUFFICES ASSUME NEW v \in answers, v.request.event = r.event
                 PROVE  v.episode = e /\ v.request.content = r.content
      OBVIOUS
    <3> DEFINE t == [event |-> v.request.event, content |-> v.request.content,
                     episode |-> v.episode]
    <3>1. t \in sourceEvents /\ t.event = r.event
      BY <2>1
    <3>2. t \in Known(r)
      BY <3>1 DEF Known
    <3>3. row \in sourceEvents /\ row.event = t.event
      BY <1>3, <3>1, <3>2
    <3>4. t = row
      BY <3>1, <3>3 DEF TablesAgree, RowsOnce
    <3> QED
      BY <3>4
  <2>3. \A v \in answers : ~(v.key = k /\ v.request.operation = r.operation)
    BY DEF Answered
  <2> QED
    BY <1>1, <2>2, <2>3 DEF OneEpisodePerEvent, TablesAgree, IntakeIsConsistent
<1>16. CapturesAreWhole'
  <2>1. CapturesAreWhole
    BY DEF TablesAgree, IntakeIsConsistent
  <2>2. \A v \in answers' :
          /\ [event |-> v.request.event, content |-> v.request.content,
              episode |-> v.episode] \in sourceEvents'
          /\ DOMAIN v.jobs = DOMAIN v.request.memories
          /\ \A n \in DOMAIN v.jobs :
               [episode |-> v.episode, memory |-> v.request.memories[n], job |-> v.jobs[n]]
                 \in identities'
    <3> SUFFICES ASSUME NEW v \in answers'
                 PROVE  /\ [event |-> v.request.event, content |-> v.request.content,
                            episode |-> v.episode] \in sourceEvents'
                        /\ DOMAIN v.jobs = DOMAIN v.request.memories
                        /\ \A n \in DOMAIN v.jobs :
                             [episode |-> v.episode, memory |-> v.request.memories[n],
                              job |-> v.jobs[n]] \in identities'
      OBVIOUS
    <3>1. CASE v \in answers
      BY <1>1, <2>1, <3>1 DEF CapturesAreWhole
    <3>2. CASE v = w
      <4>1. \A n \in DOMAIN r.memories :
              [episode |-> e, memory |-> r.memories[n],
               job |-> JobFor(c, e, r, r.memories[n])] \in identities'
        BY <1>1, <1>5, <1>6
      <4> QED
        BY <1>1, <3>2, <4>1
    <3> QED
      BY <1>1, <3>1, <3>2
  <2>3. \A s \in sourceEvents' : \E v \in answers' : v.by = s.episode /\ v.episode = s.episode
    <3>1. ASSUME row \notin sourceEvents
          PROVE  w \in answers' /\ w.by = row.episode /\ w.episode = row.episode
      BY <1>1, <1>3, <3>1
    <3>2. \A s \in sourceEvents : \E v \in answers' : v.by = s.episode /\ v.episode = s.episode
      BY <1>1, <2>1 DEF CapturesAreWhole
    <3>3. ASSUME NEW s \in sourceEvents', s \notin sourceEvents
          PROVE  s = row /\ row \notin sourceEvents
      BY <1>1, <3>3
    <3> HIDE DEF w, row
    <3> QED
      BY <3>1, <3>2, <3>3
  <2>4. \A i \in identities' : \E v \in answers' : v.by = i.job[1] /\ i.job \in Range(v.jobs)
    <3>1. ASSUME NEW m \in fresh
          PROVE  w.by = <<c, m>>[1] /\ <<c, m>> \in Range(w.jobs)
      <4>1. PICK n \in DOMAIN r.memories : r.memories[n] = m
        BY <1>4, <3>1 DEF Range
      <4>2. JobFor(c, e, r, m) = <<c, m>>
        BY DEF JobFor
      <4>3. n \in DOMAIN w.jobs /\ w.jobs[n] = <<c, m>>
        BY <4>1, <4>2
      <4> QED
        BY <4>3 DEF Range
    <3>2. \A i \in ids : w.by = i.job[1] /\ i.job \in Range(w.jobs)
      BY <3>1
    <3>3. \A i \in identities : \E v \in answers' : v.by = i.job[1] /\ i.job \in Range(v.jobs)
      BY <1>1, <2>1 DEF CapturesAreWhole
    <3>4. w \in answers'
      BY <1>1
    <3>5. \A i \in ids : \E v \in answers' : v.by = i.job[1] /\ i.job \in Range(v.jobs)
      BY <3>2, <3>4
    <3>6. identities' = identities \cup ids
      BY <1>1
    <3> QED
      BY <3>3, <3>5, <3>6
  <2>5. episodes' \subseteq {s.episode : s \in sourceEvents'}
    <3>1. row.episode = e /\ row \in sourceEvents'
      BY <1>1
    <3>2. episodes \subseteq {s.episode : s \in sourceEvents'}
      BY <1>1, <2>1 DEF CapturesAreWhole
    <3>3. episodes' = episodes \cup {e}
      BY <1>1
    <3> HIDE DEF row, e
    <3> QED
      BY <3>1, <3>2, <3>3
  <2>6. \A j \in liveJobs' : \E i \in identities' : i.job = j /\ i.episode \in episodes'
    <3>1. ASSUME NEW m \in fresh
          PROVE  \E i \in ids : i.job = <<c, m>> /\ i.episode = e
      <4>1. [episode |-> e, memory |-> m, job |-> <<c, m>>] \in ids
        BY <3>1
      <4> QED
        BY <4>1
    <3> QED
      BY <1>1, <2>1, <3>1 DEF CapturesAreWhole
  <2> QED
    BY <2>2, <2>3, <2>4, <2>5, <2>6 DEF CapturesAreWhole
<1> QED
  BY <1>1, <1>3, <1>7, <1>8, <1>9, <1>10, <1>13, <1>14, <1>15, <1>16
  DEF TablesAgree, IntakeIsConsistent

\* forget: erasing episodes with the jobs that cite them, or a job, keeps the tables
\* in agreement; so does a worker that settles a job.
LEMMA EraseAgrees ==
  ASSUME TablesAgree, NEW es, NEW js, Erase(es, js), UNCHANGED sourceEvents
  PROVE  TablesAgree'
<1> DEFINE gone == js \cup {i.job : i \in {i \in identities : i.episode \in es}}
<1>1. /\ episodes' = episodes \ es
      /\ liveJobs' = liveJobs \ gone
      /\ openJobs' = openJobs \ gone
      /\ UNCHANGED <<sourceEvents, identities, answers>>
  BY DEF Erase
<1>2. IsFiniteSet(openJobs') /\ Cardinality(openJobs') <= Cardinality(openJobs)
      /\ Cardinality(openJobs) \in Nat /\ Cardinality(openJobs') \in Nat
  BY <1>1, FS_Subset, FS_CardinalityType DEF TablesAgree
<1>3. Cardinality(openJobs') <= MaxOpenJobs
  BY <1>2, IntakeAssumption DEF TablesAgree, IntakeIsConsistent
<1>4. \A j \in liveJobs' : \E i \in identities : i.job = j /\ i.episode \in episodes'
  BY <1>1 DEF TablesAgree, IntakeIsConsistent, CapturesAreWhole
<1>5. CapturesAreWhole' /\ OneEpisodePerEvent'
  BY <1>1, <1>4 DEF TablesAgree, IntakeIsConsistent, CapturesAreWhole, OneEpisodePerEvent
<1>6. RowsOnce'
  BY <1>1 DEF TablesAgree, RowsOnce
<1>7. openJobs' \subseteq liveJobs' /\ liveJobs' \subseteq liveJobs /\ episodes' \subseteq episodes
  BY <1>1 DEF TablesAgree
<1> QED
  BY <1>1, <1>2, <1>3, <1>5, <1>6, <1>7 DEF TablesAgree, IntakeIsConsistent

\* Nothing said of the tables changes while they stay.
LEMMA TablesStay ==
  ASSUME TablesAgree, UNCHANGED intakeTables
  PROVE  TablesAgree'
  BY DEF TablesAgree, intakeTables, RowsOnce, IntakeIsConsistent, OneEpisodePerEvent,
     CapturesAreWhole

\* The types of the tables are those of the agreement.
LEMMA TablesTyped ==
  ASSUME TablesAgree', inFlight' \subseteq Call,
         calls' \in [Call -> [request : Requests, key : Key] \cup {None}],
         reply' \in [Call -> {"result", "error", "fault", None}],
         callTold' \in [Call -> Verdicts \cup {None}]
  PROVE  IntakeTypeOK'
  BY DEF TablesAgree, IntakeTypeOK

\* Forgetting and settling touch no answer and no call.
LEMMA ObjectsSound ==
  ASSUME IntakeSound, TablesAgree', UNCHANGED <<answers, calls, inFlight, reply, callTold>>
  PROVE  IntakeSound'
<1>1. IntakeTypeOK'
  BY TablesTyped DEF IntakeSound, IntakeTypeOK
<1>2. AnswersFollow' /\ Flying' /\ RepliesAreTrue' /\ ClientsAreToldTheTruth'
  BY DEF IntakeSound, AnswersFollow, Flying, RepliesAreTrue, ClientsAreToldTheTruth, Honest
<1> QED
  BY <1>1, <1>2 DEF IntakeSound

\* The service is done with a call whose outcome it reports as it is.
LEMMA AnsweringSound ==
  ASSUME IntakeSound, TablesAgree', NEW c \in inFlight,
         NEW outcome \in {"result", "error", "fault"}, Answering(c, outcome),
         answers \subseteq answers',
         \A w \in answers' \ answers :
           w.by = c /\ calls[c] = [request |-> w.request, key |-> w.key],
         outcome = "error" => answers' = answers,
         outcome = "result" => \E w \in answers' :
           w.key = calls[c].key /\ w.request = calls[c].request
  PROVE  IntakeSound'
<1>1. c \in Call /\ calls[c] \in [request : Requests, key : Key] /\ calls[c] # None
      /\ \A w \in answers : w.by # c
  <2>1. None \notin [request : Requests, key : Key]
    BY IntakeAssumption
  <2>2. c \in Call /\ calls[c] \in [request : Requests, key : Key]
    BY DEF IntakeSound, IntakeTypeOK, Flying
  <2>3. \A w \in answers : w.by # c
    BY DEF IntakeSound, AnswersFollow
  <2> QED
    BY <2>1, <2>2, <2>3
<1>2. /\ inFlight' = inFlight \ {c} /\ UNCHANGED <<calls, callTold>>
      /\ reply' = IF callTold[c] = None THEN [reply EXCEPT ![c] = outcome] ELSE reply
  BY DEF Answering
<1>3. IntakeTypeOK'
  BY <1>1, <1>2, TablesTyped DEF IntakeSound, IntakeTypeOK
<1>4. AnswersFollow' /\ Flying'
  BY <1>1, <1>2 DEF IntakeSound, AnswersFollow, Flying
<1>5. RepliesAreTrue'
  <2> SUFFICES ASSUME NEW d \in Call, reply'[d] # None
               PROVE  /\ callTold[d] = None
                      /\ calls[d] # None
                      /\ d \notin inFlight'
                      /\ reply'[d] = "error" => \A w \in answers' : w.by # d
                      /\ reply'[d] = "result" => \E w \in answers' :
                           w.key = calls[d].key /\ w.request = calls[d].request
    BY <1>2 DEF RepliesAreTrue
  <2>1. CASE d = c /\ callTold[c] = None
    <3>1. reply'[d] = outcome
      BY <1>1, <1>2, <2>1 DEF IntakeSound, IntakeTypeOK
    <3> QED
      BY <1>1, <1>2, <2>1, <3>1
  <2>2. CASE ~(d = c /\ callTold[c] = None)
    <3>1. reply'[d] = reply[d] /\ d # c
      BY <1>1, <1>2, <2>2 DEF IntakeSound, IntakeTypeOK, RepliesAreTrue
    <3>2. /\ callTold[d] = None
          /\ calls[d] # None
          /\ d \notin inFlight
          /\ reply[d] = "error" => \A w \in answers : w.by # d
          /\ reply[d] = "result" => \E w \in answers :
               w.key = calls[d].key /\ w.request = calls[d].request
      BY <3>1 DEF IntakeSound, RepliesAreTrue
    <3>3. reply'[d] = "error" => \A w \in answers' : w.by # d
      BY <3>1, <3>2
    <3>4. reply'[d] = "result" => \E w \in answers' :
            w.key = calls[d].key /\ w.request = calls[d].request
      BY <3>1, <3>2
    <3>5. reply[d] # None /\ d \notin inFlight'
      BY <1>2, <3>1, <3>2
    <3> QED
      BY <3>2, <3>3, <3>4, <3>5
  <2> QED
    BY <2>1, <2>2
<1>6. ClientsAreToldTheTruth'
  <2> SUFFICES ASSUME NEW d \in Call
               PROVE  /\ callTold[d] # "applied" =>
                           Honest(callTold[d], \E w \in answers' : w.by = d, d \in inFlight')
                      /\ callTold[d] = "applied" => \E w \in answers' :
                           w.key = calls[d].key /\ w.request = calls[d].request
    BY <1>2 DEF ClientsAreToldTheTruth, Honest
  <2>1. /\ callTold[d] \in {"unchanged", "refused"} =>
             d \notin inFlight /\ ~ \E w \in answers : w.by = d
        /\ callTold[d] = "applied" => \E w \in answers :
             w.key = calls[d].key /\ w.request = calls[d].request
    BY DEF IntakeSound, ClientsAreToldTheTruth, Honest
  <2>2. callTold[d] \in {"unchanged", "refused"} => ~ \E w \in answers' : w.by = d
    BY <2>1
  <2> QED
    BY <1>2, <2>1, <2>2 DEF Honest
<1> QED
  BY <1>3, <1>4, <1>5, <1>6 DEF IntakeSound

\* A client that is told what became of its call is told the truth.
LEMMA TellSound ==
  ASSUME IntakeSound, NEW c \in Call, NEW told \in Verdicts, Tell(c, told), UNCHANGED calls,
         told \in {"unchanged", "refused"} => c \notin inFlight /\ \A w \in answers : w.by # c,
         told = "applied" => \E w \in answers :
           w.key = calls[c].key /\ w.request = calls[c].request
  PROVE  IntakeSound'
<1>1. /\ callTold' = [callTold EXCEPT ![c] = told]
      /\ reply' = [reply EXCEPT ![c] = None]
      /\ UNCHANGED <<intakeTables, answers, calls, inFlight>>
  BY DEF Tell, intakeTables
<1>2. TablesAgree'
  BY <1>1, TablesStay DEF IntakeSound
<1>3. IntakeTypeOK'
  BY <1>1, <1>2, TablesTyped DEF IntakeSound, IntakeTypeOK
<1>4. AnswersFollow' /\ Flying'
  BY <1>1 DEF IntakeSound, AnswersFollow, Flying
<1>5. RepliesAreTrue'
  BY <1>1 DEF IntakeSound, IntakeTypeOK, RepliesAreTrue
<1>6. ClientsAreToldTheTruth'
  BY <1>1 DEF IntakeSound, IntakeTypeOK, ClientsAreToldTheTruth, Honest
<1> QED
  BY <1>2, <1>3, <1>4, <1>5, <1>6 DEF IntakeSound

\* Whoever has an answer has called.
LEMMA AnswersSent ==
  ASSUME IntakeSound, NEW w \in answers
  PROVE  calls[w.by] \in [request : Requests, key : Key] /\ calls[w.by] # None
<1>1. calls[w.by] = [request |-> w.request, key |-> w.key]
  BY DEF IntakeSound, AnswersFollow
<1>2. w.request \in Requests /\ w.key \in Key
  BY DEF IntakeSound, IntakeTypeOK, Answer
<1>3. None \notin [request : Requests, key : Key]
  BY IntakeAssumption
<1>4. [request |-> w.request, key |-> w.key] \in [request : Requests, key : Key]
  BY <1>2
<1> QED
  BY <1>1, <1>3, <1>4

\* Every step of the service, of its clients and of those who forget keeps all sound.
LEMMA IntakeStepSound == IntakeSound /\ [IntakeNext]_intakeVars => IntakeSound'
<1> SUFFICES ASSUME IntakeSound, [IntakeNext]_intakeVars PROVE IntakeSound'
  OBVIOUS
<1>1. ASSUME NEW c \in Call, NEW q \in [request : Requests, key : Key], Send(c, q)
      PROVE  IntakeSound'
  <2>1. /\ calls[c] = None /\ callTold[c] = None
        /\ calls' = [calls EXCEPT ![c] = q] /\ inFlight' = inFlight \cup {c}
        /\ UNCHANGED <<intakeTables, answers, reply, callTold>>
    BY <1>1 DEF Send, intakeTables
  <2>2. TablesAgree'
    BY <2>1, TablesStay DEF IntakeSound
  <2>3. IntakeTypeOK'
    BY <2>1, <2>2, TablesTyped DEF IntakeSound, IntakeTypeOK
  <2>4. \A w \in answers : w.by # c
    BY <2>1, AnswersSent
  <2>5. AnswersFollow' /\ Flying'
    BY <2>1, <2>4 DEF IntakeSound, IntakeTypeOK, AnswersFollow, Flying
  <2>6. RepliesAreTrue' /\ ClientsAreToldTheTruth'
    BY <2>1 DEF IntakeSound, IntakeTypeOK, RepliesAreTrue, ClientsAreToldTheTruth, Honest, Verdicts
  <2> QED
    BY <2>2, <2>3, <2>5, <2>6 DEF IntakeSound
<1>2. ASSUME NEW c \in Call, RefuseUnsent(c) PROVE IntakeSound'
  <2>1. c \notin inFlight /\ \A w \in answers : w.by # c
    <3>1. calls[c] = None /\ None \notin [request : Requests, key : Key]
      BY <1>2, IntakeAssumption DEF RefuseUnsent
    <3>2. \A w \in answers : calls[w.by] # None
      BY AnswersSent
    <3> QED
      BY <3>1, <3>2 DEF IntakeSound, Flying
  <2>2. Tell(c, "refused") /\ UNCHANGED calls
    BY <1>2 DEF RefuseUnsent
  <2> QED
    BY <2>1, <2>2, TellSound DEF Verdicts
<1>3. ASSUME NEW c \in Call, Reject(c) \/ Break(c) PROVE IntakeSound'
  <2>1. /\ c \in inFlight /\ (Answering(c, "error") \/ Answering(c, "fault"))
        /\ UNCHANGED intakeTables /\ UNCHANGED answers
    BY <1>3 DEF Reject, Break, intakeTables
  <2>2. TablesAgree'
    BY <2>1, TablesStay DEF IntakeSound
  <2> QED
    BY <2>1, <2>2, AnsweringSound
<1>4. ASSUME NEW c \in Call, NEW outcome \in {"result", "fault"}, Accept(c, outcome)
      PROVE  IntakeSound'
  <2> DEFINE r == calls[c].request
             k == calls[c].key
  <2>1. c \in inFlight /\ ~Refused(c) /\ Answering(c, outcome)
    BY <1>4 DEF Accept
  <2>2. calls[c] = [request |-> r, key |-> k] /\ r \in Requests /\ k \in Key
    BY <2>1 DEF IntakeSound, Flying
  <2>3. CASE Answered(c) # {}
    <3>1. UNCHANGED intakeTables /\ UNCHANGED answers /\ Replayable(c)
      BY <1>4, <2>1, <2>3 DEF Accept, Refused, intakeTables
    <3>2. TablesAgree'
      BY <3>1, TablesStay DEF IntakeSound
    <3>3. \E w \in answers' : w.key = calls[c].key /\ w.request = calls[c].request
      BY <3>1 DEF Replayable, Answered
    <3> QED
      BY <2>1, <3>1, <3>2, <3>3, AnsweringSound
  <2>4. CASE Answered(c) = {}
    <3>1. /\ Take(c, r) /\ ~EventRefused(r) /\ ~EnqueueRefused(EpisodeFor(c, r), r)
      BY <1>4, <2>1, <2>4 DEF Accept, Refused
    <3>2. TablesAgree'
      BY <2>2, <2>4, <3>1, TakeAgrees DEF IntakeSound
    <3> DEFINE e == EpisodeFor(c, r)
               w == [by |-> c, key |-> k, request |-> r, episode |-> e,
                     jobs |-> [n \in DOMAIN r.memories |-> JobFor(c, e, r, r.memories[n])]]
    <3>3. answers' = answers \cup {w}
      BY <3>1 DEF Take, JobFor
    <3>4. w.by = c /\ w.key = k /\ w.request = r
      OBVIOUS
    <3> HIDE DEF w
    <3>5. \E v \in answers' : v.key = calls[c].key /\ v.request = calls[c].request
      BY <3>3, <3>4
    <3>6. /\ answers \subseteq answers'
          /\ \A v \in answers' \ answers :
               v.by = c /\ calls[c] = [request |-> v.request, key |-> v.key]
      BY <2>2, <3>3, <3>4
    <3> QED
      BY <2>1, <3>2, <3>5, <3>6, AnsweringSound
  <2> QED
    BY <2>3, <2>4
<1>5. ASSUME NEW c \in Call, Hear(c) PROVE IntakeSound'
  <2>1. reply[c] # None /\ Tell(c, Judge(reply[c])) /\ UNCHANGED calls
    BY <1>5 DEF Hear
  <2>2. reply[c] \in {"result", "error", "fault"}
    BY <2>1 DEF IntakeSound, IntakeTypeOK
  <2>3. /\ Judge(reply[c]) \in Verdicts
        /\ Judge(reply[c]) = "applied" => reply[c] = "result"
        /\ Judge(reply[c]) \in {"unchanged", "refused"} => reply[c] = "error"
    BY <2>2 DEF Judge, Verdicts
  <2>4. /\ c \notin inFlight
        /\ reply[c] = "error" => \A w \in answers : w.by # c
        /\ reply[c] = "result" => \E w \in answers :
             w.key = calls[c].key /\ w.request = calls[c].request
    BY <2>1 DEF IntakeSound, RepliesAreTrue
  <2> QED
    BY <2>1, <2>3, <2>4, TellSound
<1>6. ASSUME NEW c \in Call, GiveUp(c) PROVE IntakeSound'
  <2>1. Tell(c, "unknown") /\ UNCHANGED calls
    BY <1>6 DEF GiveUp
  <2> QED
    BY <2>1, TellSound DEF Verdicts
<1>7. ASSUME NEW j \in liveJobs, Settle(j) \/ ForgetJob(j) PROVE IntakeSound'
  <2>1. CASE Settle(j)
    <3>1. /\ openJobs' = openJobs \ {j}
          /\ UNCHANGED <<episodes, sourceEvents, identities, liveJobs, answers, calls,
                         inFlight, reply, callTold>>
      BY <2>1 DEF Settle
    <3>2. IsFiniteSet(openJobs') /\ Cardinality(openJobs') <= MaxOpenJobs
      <4>1. /\ IsFiniteSet(openJobs) /\ Cardinality(openJobs) <= MaxOpenJobs
            /\ openJobs' \in SUBSET openJobs
        BY <3>1 DEF IntakeSound, TablesAgree, IntakeIsConsistent
      <4>2. /\ IsFiniteSet(openJobs') /\ Cardinality(openJobs') <= Cardinality(openJobs)
            /\ Cardinality(openJobs) \in Nat /\ Cardinality(openJobs') \in Nat
        BY <4>1, FS_Subset, FS_CardinalityType
      <4> QED
        BY <4>1, <4>2, IntakeAssumption
    <3>3. TablesAgree'
      BY <3>1, <3>2 DEF IntakeSound, TablesAgree, RowsOnce, IntakeIsConsistent, OneEpisodePerEvent,
         CapturesAreWhole
    <3> QED
      BY <3>1, <3>3, ObjectsSound
  <2>2. CASE ForgetJob(j)
    <3>1. Erase({}, {j}) /\ UNCHANGED sourceEvents
      BY <2>2 DEF ForgetJob
    <3>2. TablesAgree'
      BY <3>1, EraseAgrees DEF IntakeSound
    <3>3. UNCHANGED <<answers, calls, inFlight, reply, callTold>>
      BY <3>1 DEF Erase
    <3> QED
      BY <3>2, <3>3, ObjectsSound
  <2> QED
    BY <1>7, <2>1, <2>2
<1>8. ASSUME NEW e \in episodes, ForgetEpisode(e) PROVE IntakeSound'
  <2>1. Erase({e}, {}) /\ UNCHANGED sourceEvents
    BY <1>8 DEF ForgetEpisode, EventsAfterForget
  <2>2. TablesAgree'
    BY <2>1, EraseAgrees DEF IntakeSound
  <2>3. UNCHANGED <<answers, calls, inFlight, reply, callTold>>
    BY <2>1 DEF Erase
  <2> QED
    BY <2>2, <2>3, ObjectsSound
<1>9. ASSUME UNCHANGED intakeVars PROVE IntakeSound'
  <2>1. UNCHANGED <<intakeTables, answers, calls, inFlight, reply, callTold>>
    BY <1>9 DEF intakeVars, intakeTables
  <2>2. TablesAgree'
    BY <2>1, TablesStay DEF IntakeSound
  <2> QED
    BY <2>1, <2>2, ObjectsSound
<1> QED
  BY <1>1, <1>2, <1>3, <1>4, <1>5, <1>6, <1>7, <1>8, <1>9 DEF IntakeNext

\* The argument holds in every state.
LEMMA IntakeStaysSound == IntakeSpec => []IntakeSound
  BY IntakeInitSound, IntakeStepSound, PTL DEF IntakeSpec

\* observe, Captures.create, create_batch: an event has had one episode with one
\* content and no part of a capture is there without the rest, whatever is answered,
\* lost, retried and forgotten, for any clients, requests, keys and limit.
THEOREM IntakeConsistent == IntakeSpec => []IntakeIsConsistent
<1>1. IntakeSound => IntakeIsConsistent
  BY DEF IntakeSound, TablesAgree
<1> QED
  BY <1>1, IntakeStaysSound, PTL

\* native_client.py: a call that was reported refused changed nothing, then or later,
\* and a call reported done has its answer in the table, for any clients.
THEOREM ClientsNotMisled == IntakeSpec => []ClientsAreToldTheTruth
<1>1. IntakeSound => ClientsAreToldTheTruth
  BY DEF IntakeSound
<1> QED
  BY <1>1, IntakeStaysSound, PTL

-------------------------------------------------------------------------------
(* Calls of model providers *)

\* A call that has not been submitted has cost nothing and got nothing, and no call
\* has its vector before it has ended.
CallsInOrder == \A i \in Inference :
  /\ inferPhase[i] # "idle" => subject[i] \in Text \X Model
  /\ inferPhase[i] \in {"idle", "checking"} => i \notin working \cup billed /\ response[i] = None
  /\ inferPhase[i] # "ended" =>
       inferTold[i] = None /\ generated[i] = None /\ putTold[i] = None
  /\ i \in working => i \notin billed /\ response[i] = None

\* What a provider answered says whether it has worked.
AnswersAreBilled == \A i \in Inference : response[i] # None =>
  /\ response[i] \in Vector \cup {"invalid"} => i \in billed
  /\ response[i] = "declined" /\ response[i] \notin Vector => i \notin billed

\* Texts that are there have at most one vector of a model.
VectorsAgree ==
  /\ IsFiniteSet(vectors)
  /\ \A v \in vectors : v.text \in texts
  /\ \A v, w \in vectors : v.text = w.text /\ v.model = w.model => v = w
  /\ \A i \in Inference : putTold[i] = "applied" /\ subject[i][1] \in texts =>
       [text |-> subject[i][1], model |-> subject[i][2], vector |-> generated[i]] \in vectors

ProvidersSound ==
  /\ ProvidersTypeOK
  /\ CallsInOrder
  /\ AnswersAreBilled
  /\ VectorsAgree
  /\ CallersAreToldTheTruth

\* No call was made.
LEMMA ProvidersInitSound == ProvidersInit => ProvidersSound
<1> SUFFICES ASSUME ProvidersInit PROVE ProvidersSound
  OBVIOUS
<1>1. ProvidersTypeOK /\ CallsInOrder /\ AnswersAreBilled
  BY DEF ProvidersInit, ProvidersTypeOK, CallsInOrder, AnswersAreBilled
<1>2. VectorsAgree
  BY FS_EmptySet DEF ProvidersInit, VectorsAgree, Verdicts
<1>3. \A text \in Text : Cardinality({v \in vectors : v.text = text}) = 0
  BY FS_EmptySet DEF ProvidersInit
<1>4. \A i \in Inference : inferTold[i] = None /\ putTold[i] = None
  BY DEF ProvidersInit
<1>5. MaxVectors \in Nat
  BY ProvidersAssumption
<1>6. CallersAreToldTheTruth
  BY <1>3, <1>4, <1>5 DEF CallersAreToldTheTruth, Honest, Verdicts
<1> QED
  BY <1>1, <1>2, <1>6 DEF ProvidersSound

\* Steps of a call that leave what is stored, and what was put, alone.
LEMMA CallSound ==
  ASSUME ProvidersSound, UNCHANGED store, ProvidersTypeOK', CallsInOrder', AnswersAreBilled',
         \A i \in Inference : Honest(inferTold[i], i \in billed, i \in working)',
         \A i \in Inference : putTold[i] = "applied" =>
           subject'[i] = subject[i] /\ generated'[i] = generated[i]
  PROVE  ProvidersSound'
<1>1. VectorsAgree'
  BY DEF ProvidersSound, VectorsAgree, store
<1>2. \A i \in Inference : putTold[i] = "applied" => Of(i)' = Of(i)
  BY DEF Of, store
<1>3. CallersAreToldTheTruth'
  BY <1>2 DEF ProvidersSound, CallersAreToldTheTruth, store
<1> QED
  BY <1>1, <1>3 DEF ProvidersSound

\* A call that ends is told the truth of what it costs.
LEMMA EndInferenceSound ==
  ASSUME ProvidersSound, NEW i \in Inference, inferPhase[i] \in {"checking", "submitted"},
         NEW told \in {"applied", "refused", "unknown"}, NEW vector \in Vector \cup {None},
         EndInference(i, told, vector),
         told = "applied" => i \in billed,
         told = "refused" => i \notin working \cup billed
  PROVE  ProvidersSound'
<1>1. /\ inferPhase' = [inferPhase EXCEPT ![i] = "ended"]
      /\ inferTold' = [inferTold EXCEPT ![i] = told]
      /\ generated' = [generated EXCEPT ![i] = vector]
      /\ response' = [response EXCEPT ![i] = None]
      /\ UNCHANGED <<subject, working, billed, texts, vectors, putTold>>
  BY DEF EndInference, store
<1>2. ProvidersTypeOK'
  BY <1>1 DEF ProvidersSound, ProvidersTypeOK, Verdicts
<1>3. CallsInOrder'
  BY <1>1 DEF ProvidersSound, ProvidersTypeOK, CallsInOrder
<1>4. AnswersAreBilled'
  BY <1>1 DEF ProvidersSound, ProvidersTypeOK, AnswersAreBilled
<1>5. \A j \in Inference : Honest(inferTold[j], j \in billed, j \in working)'
  <2> SUFFICES ASSUME NEW j \in Inference
               PROVE  Honest(inferTold'[j], j \in billed, j \in working)
    BY <1>1 DEF Honest
  <2>1. CASE j = i
    BY <1>1, <2>1 DEF ProvidersSound, ProvidersTypeOK, Honest
  <2>2. CASE j # i
    BY <1>1, <2>2 DEF ProvidersSound, ProvidersTypeOK, CallersAreToldTheTruth
  <2> QED
    BY <2>1, <2>2
<1>6. \A j \in Inference : putTold[j] = "applied" =>
        subject'[j] = subject[j] /\ generated'[j] = generated[j]
  <2>1. putTold[i] = None
    BY DEF ProvidersSound, CallsInOrder
  <2> QED
    BY <1>1, <2>1 DEF ProvidersSound, ProvidersTypeOK, Verdicts
<1>7. UNCHANGED store
  BY <1>1 DEF store
<1> QED
  BY <1>2, <1>3, <1>4, <1>5, <1>6, <1>7, CallSound

\* Every step of callers and providers up to the put.
LEMMA InferenceSound ==
  ASSUME ProvidersSound, NEW i \in Inference,
         \/ \E text \in Text, model \in Model : Infer(i, text, model)
         \/ RefuseInference(i) \/ Submit(i) \/ ReadResponse(i) \/ Abandon(i)
         \/ \E works \in BOOLEAN, answer \in Vector \cup {"invalid", "declined", "fault"} :
              Serve(i, answer, works)
  PROVE  ProvidersSound'
<1>1. ASSUME NEW text \in Text, NEW model \in Model, Infer(i, text, model)
      PROVE  ProvidersSound'
  <2>1. /\ inferPhase[i] = "idle" /\ inferPhase' = [inferPhase EXCEPT ![i] = "checking"]
        /\ subject' = [subject EXCEPT ![i] = <<text, model>>]
        /\ UNCHANGED <<working, billed, response, inferTold, generated, putTold>>
        /\ UNCHANGED store
    BY <1>1 DEF Infer, store
  <2>2. ProvidersTypeOK'
    BY <2>1 DEF ProvidersSound, ProvidersTypeOK, store
  <2>3. CallsInOrder' /\ AnswersAreBilled'
    BY <2>1 DEF ProvidersSound, ProvidersTypeOK, CallsInOrder, AnswersAreBilled
  <2>4. \A j \in Inference : Honest(inferTold[j], j \in billed, j \in working)'
    BY <2>1 DEF ProvidersSound, CallersAreToldTheTruth, Honest
  <2>5. putTold[i] # "applied"
    BY <2>1 DEF ProvidersSound, CallsInOrder, Verdicts
  <2>6. \A j \in Inference : putTold[j] = "applied" =>
          subject'[j] = subject[j] /\ generated'[j] = generated[j]
    BY <2>1, <2>5 DEF ProvidersSound, ProvidersTypeOK
  <2> QED
    BY <2>1, <2>2, <2>3, <2>4, <2>6, CallSound
<1>2. ASSUME RefuseInference(i) PROVE ProvidersSound'
  BY <1>2, EndInferenceSound DEF RefuseInference, ProvidersSound, CallsInOrder
<1>3. ASSUME Submit(i) PROVE ProvidersSound'
  <2>1. /\ inferPhase[i] = "checking" /\ inferPhase' = [inferPhase EXCEPT ![i] = "submitted"]
        /\ working' = working \cup {i}
        /\ UNCHANGED <<subject, billed, response, inferTold, generated, putTold>>
        /\ UNCHANGED store
    BY <1>3 DEF Submit, store
  <2>2. ProvidersTypeOK'
    BY <2>1 DEF ProvidersSound, ProvidersTypeOK, store
  <2>3. inferTold[i] = None /\ i \notin billed /\ response[i] = None
    BY <2>1 DEF ProvidersSound, CallsInOrder
  <2>4. CallsInOrder' /\ AnswersAreBilled'
    BY <2>1, <2>3 DEF ProvidersSound, ProvidersTypeOK, CallsInOrder, AnswersAreBilled
  <2>5. \A j \in Inference : Honest(inferTold[j], j \in billed, j \in working)'
    BY <2>1, <2>3 DEF ProvidersSound, CallersAreToldTheTruth, Honest, Verdicts
  <2> QED
    BY <2>1, <2>2, <2>4, <2>5, CallSound
<1>4. ASSUME ReadResponse(i) PROVE ProvidersSound'
  <2>1. inferPhase[i] = "submitted" /\ response[i] # None
    BY <1>4 DEF ReadResponse
  <2>2. i \notin working /\ (response[i] \in Vector => i \in billed)
        /\ (response[i] = "declined" /\ response[i] \notin Vector => i \notin billed)
    BY <2>1 DEF ProvidersSound, CallsInOrder, AnswersAreBilled
  <2>3. CASE response[i] \in Vector
    BY <1>4, <2>1, <2>2, <2>3, EndInferenceSound DEF ReadResponse
  <2>4. CASE response[i] \notin Vector
    <3>1. EndInference(i, IF response[i] = "declined" THEN Declined(i) ELSE "unknown", None)
      BY <1>4, <2>4 DEF ReadResponse
    <3>2. CASE response[i] = "declined" /\ i \notin Azure
      BY <2>1, <2>2, <2>4, <3>1, <3>2, EndInferenceSound DEF Declined
    <3>3. CASE ~(response[i] = "declined" /\ i \notin Azure)
      BY <2>1, <3>1, <3>3, EndInferenceSound DEF Declined
    <3> QED
      BY <3>2, <3>3
  <2> QED
    BY <2>3, <2>4
<1>5. ASSUME Abandon(i) PROVE ProvidersSound'
  BY <1>5, EndInferenceSound DEF Abandon
<1>6. ASSUME NEW works \in BOOLEAN,
             NEW answer \in Vector \cup {"invalid", "declined", "fault"},
             Serve(i, answer, works)
      PROVE  ProvidersSound'
  <2>1. /\ i \in working /\ working' = working \ {i}
        /\ billed' = IF works THEN billed \cup {i} ELSE billed
        /\ answer \in Vector \cup {"invalid"} => works
        /\ answer = "declined" => ~works
        /\ response' = IF inferPhase[i] = "submitted" THEN [response EXCEPT ![i] = answer]
                                                      ELSE response
        /\ UNCHANGED <<inferPhase, subject, inferTold, generated, putTold>>
        /\ UNCHANGED store
    BY <1>6 DEF Serve, store
  <2>2. ProvidersTypeOK'
    BY <2>1 DEF ProvidersSound, ProvidersTypeOK, store
  <2>3. inferPhase[i] \notin {"idle", "checking"} /\ i \notin billed /\ response[i] = None
    BY <2>1 DEF ProvidersSound, CallsInOrder
  <2>4. CallsInOrder'
    BY <2>1, <2>3 DEF ProvidersSound, ProvidersTypeOK, CallsInOrder
  <2>5. AnswersAreBilled'
    <3> SUFFICES ASSUME NEW j \in Inference, response'[j] # None
                 PROVE  /\ response'[j] \in Vector \cup {"invalid"} => j \in billed'
                        /\ response'[j] = "declined" /\ response'[j] \notin Vector =>
                             j \notin billed'
      BY DEF AnswersAreBilled
    <3>1. CASE j = i
      BY <2>1, <2>3, <3>1 DEF ProvidersSound, ProvidersTypeOK
    <3>2. CASE j # i
      BY <2>1, <3>2 DEF ProvidersSound, ProvidersTypeOK, AnswersAreBilled
    <3> QED
      BY <3>1, <3>2
  <2>6. \A j \in Inference : Honest(inferTold[j], j \in billed, j \in working)'
    BY <2>1 DEF ProvidersSound, CallersAreToldTheTruth, Honest
  <2> QED
    BY <2>1, <2>2, <2>4, <2>5, <2>6, CallSound
<1> QED
  BY <1>1, <1>2, <1>3, <1>4, <1>5, <1>6

\* Where two vectors of a text are of two models, a stored one is alone of its model.
LEMMA StoredAlone ==
  ASSUME NEW vs, NEW t, NEW model, NEW vector,
         \A v, w \in vs : v.text = w.text /\ v.model = w.model => v = w,
         [text |-> t, model |-> model, vector |-> vector] \in vs
  PROVE  {v.vector : v \in {v \in vs : v.text = t /\ v.model = model}} = {vector}
<1> DEFINE row == [text |-> t, model |-> model, vector |-> vector]
<1>1. row \in vs /\ row.text = t /\ row.model = model /\ row.vector = vector
  OBVIOUS
<1>2. ASSUME NEW v \in vs, v.text = t, v.model = model PROVE v = row
  BY <1>1, <1>2
<1> HIDE DEF row
<1> QED
  BY <1>1, <1>2

\* ... and so is the one of an acknowledged put.
LEMMA AcknowledgedAlone ==
  ASSUME VectorsAgree', NEW i \in Inference, putTold'[i] = "applied", subject'[i][1] \in texts'
  PROVE  {v.vector : v \in Of(i)'} = {generated'[i]}
<1>1. Of(i)' = {v \in vectors' : v.text = subject'[i][1] /\ v.model = subject'[i][2]}
  BY DEF Of
<1>2. \A v, w \in vectors' : v.text = w.text /\ v.model = w.model => v = w
  BY DEF VectorsAgree
<1>3. [text |-> subject'[i][1], model |-> subject'[i][2], vector |-> generated'[i]] \in vectors'
  BY DEF VectorsAgree
<1> QED
  BY <1>1, <1>2, <1>3, StoredAlone

\* Embeddings.put: a vector joins those of its text, or finds itself there.
LEMMA PutSound ==
  ASSUME ProvidersSound, NEW i \in Inference, NEW told \in Verdicts, Put(i, told)
  PROVE  ProvidersSound'
<1> DEFINE text == subject[i][1]
           row  == [text |-> text, model |-> subject[i][2], vector |-> generated[i]]
<1>1. /\ generated[i] # None
      /\ told \in {"unknown", IF PutRefused(i) THEN "refused" ELSE "applied"}
      /\ \/ ~PutRefused(i) /\ vectors' = vectors \cup {row}
         \/ told # "applied" /\ UNCHANGED vectors
      /\ putTold' = [putTold EXCEPT ![i] = told]
      /\ UNCHANGED <<inferPhase, subject, working, billed, response, inferTold, generated, texts>>
  BY DEF Put
<1>2. inferPhase[i] = "ended" /\ subject[i] \in Text \X Model /\ generated[i] \in Vector
  BY <1>1 DEF ProvidersSound, ProvidersTypeOK, CallsInOrder
<1>3. row \in [text : Text, model : Model, vector : Vector]
  BY <1>2
<1>4. ProvidersTypeOK'
  BY <1>1, <1>3 DEF ProvidersSound, ProvidersTypeOK
<1>5. CallsInOrder' /\ AnswersAreBilled'
  BY <1>1, <1>2 DEF ProvidersSound, ProvidersTypeOK, CallsInOrder, AnswersAreBilled
<1>6. \A j \in Inference : Honest(inferTold[j], j \in billed, j \in working)'
  BY <1>1 DEF ProvidersSound, CallersAreToldTheTruth, Honest
<1>7. vectors \subseteq [text : Text, model : Model, vector : Vector]
  BY DEF ProvidersSound, ProvidersTypeOK
<1>8. ASSUME ~PutRefused(i) PROVE text \in texts /\ (Of(i) = {} \/ row \in vectors)
  <2>1. text \in texts /\ \A v \in Of(i) : v.vector = generated[i]
    BY <1>8 DEF PutRefused
  <2>2. ASSUME NEW v \in Of(i) PROVE v = row
    <3>1. v.text = text /\ v.model = subject[i][2] /\ v.vector = generated[i]
      BY <2>1, <2>2 DEF Of
    <3>2. v \in [text : Text, model : Model, vector : Vector]
      BY <1>7, <2>2 DEF Of
    <3> QED
      BY <3>1, <3>2
  <2>3. Of(i) \subseteq vectors
    BY DEF Of
  <2> HIDE DEF row
  <2> QED
    BY <2>1, <2>2, <2>3
<1>9. VectorsAgree'
  <2>1. VectorsAgree
    BY DEF ProvidersSound
  <2>2. vectors' = vectors \/ (vectors' = vectors \cup {row} /\ Of(i) = {} /\ text \in texts)
    BY <1>1, <1>8
  <2>3. IsFiniteSet(vectors')
    BY <2>1, <2>2, FS_AddElement DEF VectorsAgree
  <2>4. \A v \in vectors' : v.text \in texts
    BY <2>1, <2>2 DEF VectorsAgree
  <2>5. \A v, w \in vectors' : v.text = w.text /\ v.model = w.model => v = w
    BY <2>1, <2>2 DEF VectorsAgree, Of
  <2>6. told = "applied" => row \in vectors'
    BY <1>1
  <2>7. vectors \subseteq vectors'
    BY <2>2
  <2>8. \A j \in Inference : putTold'[j] = "applied" /\ subject[j][1] \in texts =>
          [text |-> subject[j][1], model |-> subject[j][2], vector |-> generated[j]] \in vectors'
    <3> SUFFICES ASSUME NEW j \in Inference, putTold'[j] = "applied", subject[j][1] \in texts
                 PROVE  [text |-> subject[j][1], model |-> subject[j][2],
                         vector |-> generated[j]] \in vectors'
      OBVIOUS
    <3>1. CASE j = i
      BY <1>1, <2>6, <3>1 DEF ProvidersSound, ProvidersTypeOK
    <3>2. CASE j # i
      BY <1>1, <2>1, <2>7, <3>2 DEF ProvidersSound, ProvidersTypeOK, VectorsAgree
    <3> QED
      BY <3>1, <3>2
  <2> QED
    BY <1>1, <2>3, <2>4, <2>5, <2>8 DEF VectorsAgree
<1>10. \A t \in Text : Cardinality({v \in vectors' : v.text = t}) <= MaxVectors
  <2> SUFFICES ASSUME NEW t \in Text
               PROVE  Cardinality({v \in vectors' : v.text = t}) <= MaxVectors
    OBVIOUS
  <2> DEFINE old == {v \in vectors : v.text = t}
             new == {v \in vectors' : v.text = t}
  <2>1. Cardinality(old) <= MaxVectors /\ IsFiniteSet(old)
    BY FS_Subset DEF ProvidersSound, CallersAreToldTheTruth, VectorsAgree
  <2>2. CASE new = old
    BY <2>1, <2>2
  <2>3. CASE new # old
    <3>1. ~PutRefused(i) /\ vectors' = vectors \cup {row} /\ row \notin vectors
      BY <1>1, <2>3
    <3>2. t = text /\ new = old \cup {row} /\ row \notin old
      BY <2>3, <3>1
    <3>3. ~(Cardinality(old) >= MaxVectors)
      BY <1>8, <3>1, <3>2 DEF PutRefused
    <3>4. MaxVectors \in Nat
      BY ProvidersAssumption
    <3>5. Cardinality(new) = Cardinality(old) + 1 /\ Cardinality(old) \in Nat
      <4> HIDE DEF old, new
      <4>1. Cardinality(old) \in Nat
        BY <2>1, FS_CardinalityType
      <4>2. Cardinality(old \cup {row}) =
              IF row \in old THEN Cardinality(old) ELSE Cardinality(old) + 1
        BY <2>1, FS_AddElement
      <4> QED
        BY <3>2, <4>1, <4>2
    <3>6. Cardinality(old) < MaxVectors
      BY <3>3, <3>4, <3>5
    <3> QED
      BY <3>4, <3>5, <3>6
  <2> QED
    BY <2>2, <2>3
<1>11. \A j \in Inference : putTold'[j] = "applied" /\ subject'[j][1] \in texts' =>
         {v.vector : v \in Of(j)'} = {generated'[j]}
  BY <1>9, AcknowledgedAlone
<1> QED
  BY <1>4, <1>5, <1>6, <1>9, <1>10, <1>11 DEF ProvidersSound, CallersAreToldTheTruth

\* A purge of a text takes its vectors along.
LEMMA PurgeTextSound ==
  ASSUME ProvidersSound, NEW text \in texts, PurgeText(text)
  PROVE  ProvidersSound'
<1>1. /\ texts' = texts \ {text} /\ vectors' = {v \in vectors : v.text # text}
      /\ UNCHANGED <<inferPhase, subject, working, billed, response, inferTold, generated, putTold>>
  BY DEF PurgeText
<1>2. ProvidersTypeOK'
  BY <1>1 DEF ProvidersSound, ProvidersTypeOK
<1>3. CallsInOrder' /\ AnswersAreBilled'
  BY <1>1 DEF ProvidersSound, CallsInOrder, AnswersAreBilled
<1>4. \A i \in Inference : Honest(inferTold[i], i \in billed, i \in working)'
  BY <1>1 DEF ProvidersSound, CallersAreToldTheTruth, Honest
<1>5. IsFiniteSet(vectors)
  BY DEF ProvidersSound, VectorsAgree
<1>6. VectorsAgree'
  BY <1>1, <1>5, FS_Subset DEF ProvidersSound, VectorsAgree
<1>7. \A t \in Text : Cardinality({v \in vectors' : v.text = t}) <= MaxVectors
  <2> SUFFICES ASSUME NEW t \in Text
               PROVE  Cardinality({v \in vectors' : v.text = t}) <= MaxVectors
    OBVIOUS
  <2> DEFINE old == {v \in vectors : v.text = t}
             new == {v \in vectors' : v.text = t}
  <2>1. Cardinality(old) <= MaxVectors /\ IsFiniteSet(old) /\ new \in SUBSET old
    BY <1>1, <1>5, FS_Subset DEF ProvidersSound, CallersAreToldTheTruth
  <2>2. /\ Cardinality(new) <= Cardinality(old) /\ Cardinality(new) \in Nat
        /\ Cardinality(old) \in Nat
    BY <2>1, FS_Subset, FS_CardinalityType
  <2>3. MaxVectors \in Nat
    BY ProvidersAssumption
  <2> QED
    BY <2>1, <2>2, <2>3
<1>8. \A j \in Inference : putTold'[j] = "applied" /\ subject'[j][1] \in texts' =>
        {v.vector : v \in Of(j)'} = {generated'[j]}
  BY <1>6, AcknowledgedAlone
<1>9. texts' \subseteq Text
  BY <1>2 DEF ProvidersTypeOK
<1> QED
  BY <1>1, <1>2, <1>3, <1>4, <1>6, <1>7, <1>8 DEF ProvidersSound, CallersAreToldTheTruth

\* Every step of every call, put and purge.
LEMMA ProvidersStepSound == ProvidersSound /\ [ProvidersNext]_providerVars => ProvidersSound'
<1> SUFFICES ASSUME ProvidersSound, [ProvidersNext]_providerVars PROVE ProvidersSound'
  OBVIOUS
<1>1. ASSUME NEW i \in Inference, NEW told \in Verdicts, Put(i, told) PROVE ProvidersSound'
  BY <1>1, PutSound
<1>2. ASSUME NEW text \in texts, PurgeText(text) PROVE ProvidersSound'
  BY <1>2, PurgeTextSound
<1>3. ASSUME UNCHANGED providerVars PROVE ProvidersSound'
  <2>1. UNCHANGED <<inferPhase, subject, working, billed, response, inferTold, generated,
                    texts, vectors, putTold>>
    BY <1>3 DEF providerVars
  <2>2. ProvidersTypeOK' /\ CallsInOrder' /\ AnswersAreBilled'
    BY <2>1 DEF ProvidersSound, ProvidersTypeOK, CallsInOrder, AnswersAreBilled
  <2>3. \A i \in Inference : Honest(inferTold[i], i \in billed, i \in working)'
    BY <2>1 DEF ProvidersSound, CallersAreToldTheTruth, Honest
  <2> QED
    BY <2>1, <2>2, <2>3, CallSound DEF store
<1> QED
  BY <1>1, <1>2, <1>3, InferenceSound DEF ProvidersNext

\* providers.py, embeddings.py: who was told of an error without billing_unknown is
\* not charged, and an acknowledged vector stays the only one of its model.
THEOREM CallersNotMisled == ProvidersSpec => []CallersAreToldTheTruth
<1>1. ProvidersSound => CallersAreToldTheTruth
  BY DEF ProvidersSound
<1> QED
  BY <1>1, ProvidersInitSound, ProvidersStepSound, PTL DEF ProvidersSpec

-------------------------------------------------------------------------------
(* The service *)

\* Every part of the service behaves as it does alone.
THEOREM PartsBehave ==
  Spec => /\ AccessSpec /\ IntakeSpec /\ PagesSpec /\ MaintenanceSpec
          /\ GraphSpec /\ ContextSpec /\ ProvidersSpec
<1>1. Init => /\ AccessInit /\ IntakeInit /\ PagesInit /\ MaintenanceInit
              /\ GraphInit /\ ContextInit /\ ProvidersInit
  BY DEF Init
<1>2. [Next]_vars => [AccessNext]_accessVars
  BY DEF Next, vars
<1>3. [Next]_vars => [IntakeNext]_intakeVars
  BY DEF Next, vars
<1>4. [Next]_vars => [MaintenanceNext]_maintVars
  BY DEF Next, vars
<1>5. [Next]_vars => [ProvidersNext]_providerVars
  BY DEF Next, vars
<1>6. [Next]_vars => [PagesNext]_pagesVars
  BY DEF Next, vars
<1>7. [Next]_vars => [ContextNext]_contextVars
  BY DEF Next, vars
<1>8. [Next]_vars => [GraphNext]_graphVars
  BY DEF Next, vars
<1> QED
  BY <1>1, <1>2, <1>3, <1>4, <1>5, <1>6, <1>7, <1>8, PTL
  DEF Spec, AccessSpec, IntakeSpec, PagesSpec, MaintenanceSpec, GraphSpec, ContextSpec,
      ProvidersSpec

\* scope_access.main, in the service.
THEOREM ServiceAccounts == Spec => []AccessIsAccounted
  BY PartsBehave, AccessAccounted, PTL

\* observe, Captures.create and create_batch, in the service.
THEOREM ServiceIsConsistent == Spec => []IntakeIsConsistent
  BY PartsBehave, IntakeConsistent, PTL

\* database.migrate and lexical.rebuild, in the service.
THEOREM ServiceKeepsLexicon == Spec => []LexiconComplete
  BY PartsBehave, LexiconStaysComplete, PTL

\* query_episodes, Jobs.query and query_entities, in the service.
THEOREM ServicePagesAgree == Spec => []PagesAgree
  BY PartsBehave, PagesAreOneListing, PTL

\* SqlGraph.expand, in the service.
THEOREM ServiceExpansionsAreReference == Spec => []ExpansionIsReference
  BY PartsBehave, ExpansionsAreReference, PTL

\* build_context, in the service.
THEOREM ServicePacksFit == Spec => []PackFits
  BY PartsBehave, PacksFit, PTL

\* native_client.py, providers.py: whoever calls over a connection that may fail is
\* not misled, in the service, for any callers.
THEOREM NobodyMisled == Spec => []NobodyIsMisled
<1>1. ClientsAreToldTheTruth /\ CallersAreToldTheTruth => NobodyIsMisled
  BY DEF NobodyIsMisled
<1> QED
  BY <1>1, PartsBehave, ClientsNotMisled, CallersNotMisled, PTL
===============================================================================
