------------------------------- MODULE Providers -------------------------------
(***************************************************************************)
(* From a text to its stored embedding: a caller has a provider generate   *)
(* a vector (providers.py over HTTP, azure_inference.py inside a database) *)
(* and puts it (embeddings.py).  A provider may do its work, and charge    *)
(* for it, although its answer never arrives or is of no use.  A put is    *)
(* one request under the tenant's lock, answered as Intake describes; the  *)
(* vectors of a text are kept until the text is purged.  A summary takes   *)
(* the same way as a vector, up to the put.                                *)
(***************************************************************************)
EXTENDS Integers, FiniteSets, Outcomes

CONSTANTS
  Inference,    \* calls of providers, each with the put that follows it
  Text,         \* revisions of assertions, and episodes
  Model,        \* names and revisions of embedding models
  Vector,
  Azure,        \* the calls that go through azure_ai
  MaxVectors    \* the 8 vectors of a text

ASSUME ProvidersAssumption ==
  /\ None \notin Text \cup Vector \cup (Text \X Model)
  /\ Azure \subseteq Inference
  /\ MaxVectors \in Nat

VARIABLES
  inferPhase,
  subject,      \* the text and model of the call
  working,      \* calls the provider has and may still work on
  billed,       \* calls the provider has worked for
  response,     \* what it sent and the caller has not read
  inferTold,    \* how the call ended; "unknown" is billing_unknown
  generated,    \* the vector the caller got
  texts, vectors, putTold

providerVars == <<inferPhase, subject, working, billed, response, inferTold, generated,
                  texts, vectors, putTold>>

\* The types of the calls, and of the vectors stored.
ProvidersTypeOK ==
  /\ inferPhase \in [Inference -> {"idle", "checking", "submitted", "ended"}]
  /\ subject \in [Inference -> (Text \X Model) \cup {None}]
  /\ working \subseteq Inference /\ billed \subseteq Inference
  /\ response \in [Inference -> Vector \cup {"invalid", "declined", "fault", None}]
  /\ inferTold \in [Inference -> Verdicts \cup {None}]
  /\ generated \in [Inference -> Vector \cup {None}]
  /\ texts \subseteq Text
  /\ vectors \subseteq [text : Text, model : Model, vector : Vector]
  /\ putTold \in [Inference -> Verdicts \cup {None}]

ProvidersInit ==
  /\ inferPhase = [i \in Inference |-> "idle"]
  /\ subject = [i \in Inference |-> None]
  /\ working = {} /\ billed = {}
  /\ response = [i \in Inference |-> None]
  /\ inferTold = [i \in Inference |-> None]
  /\ generated = [i \in Inference |-> None]
  /\ texts = Text
  /\ vectors = {}
  /\ putTold = [i \in Inference |-> None]

store == <<texts, vectors, putTold>>

-------------------------------------------------------------------------------
(* The caller and the provider.                                            *)

Infer(i, text, model) ==
  /\ inferPhase[i] = "idle"
  /\ text \in texts
  /\ inferPhase' = [inferPhase EXCEPT ![i] = "checking"]
  /\ subject' = [subject EXCEPT ![i] = <<text, model>>]
  /\ UNCHANGED <<working, billed, response, inferTold, generated, store>>

EndInference(i, told, vector) ==
  /\ inferPhase' = [inferPhase EXCEPT ![i] = "ended"]
  /\ inferTold' = [inferTold EXCEPT ![i] = told]
  /\ generated' = [generated EXCEPT ![i] = vector]
  /\ response' = [response EXCEPT ![i] = None]
  /\ UNCHANGED <<subject, working, billed, store>>

\* Input, configuration, catalog or permissions are wrong: nothing was submitted.
RefuseInference(i) ==
  /\ inferPhase[i] = "checking"
  /\ EndInference(i, "refused", None)

Submit(i) ==
  /\ inferPhase[i] = "checking"
  /\ inferPhase' = [inferPhase EXCEPT ![i] = "submitted"]
  /\ working' = working \cup {i}
  /\ UNCHANGED <<subject, billed, response, inferTold, generated, store>>

\* The provider answers with a vector or something else after its work, with a
\* status below 500 instead of it, or with a fault before, during or after it.
Serve(i, answer, works) ==
  /\ i \in working
  /\ answer \in Vector \cup {"invalid"} => works
  /\ answer = "declined" => ~works
  /\ working' = working \ {i}
  /\ billed' = IF works THEN billed \cup {i} ELSE billed
  /\ response' = IF inferPhase[i] = "submitted" THEN [response EXCEPT ![i] = answer]
                                                ELSE response
  /\ UNCHANGED <<inferPhase, subject, inferTold, generated, store>>

\* HTTPProvider: a status below 500 means that nothing was done.  AzureAIProvider:
\* whatever failed after the statement was submitted, billing is unknown.
Declined(i) == IF i \in Azure THEN "unknown" ELSE "refused"

ReadResponse(i) ==
  /\ inferPhase[i] = "submitted"
  /\ response[i] # None
  /\ IF response[i] \in Vector
       THEN EndInference(i, "applied", response[i])
       ELSE EndInference(i, IF response[i] = "declined" THEN Declined(i) ELSE "unknown", None)

\* timeout_seconds, or the transport fails; the provider may be at work.
Abandon(i) ==
  /\ inferPhase[i] = "submitted"
  /\ EndInference(i, "unknown", None)

-------------------------------------------------------------------------------
(* Embeddings.put.                                                         *)

Of(i) == {v \in vectors : v.text = subject[i][1] /\ v.model = subject[i][2]}

\* The text is gone, another vector of the model is there, or there are too many.
PutRefused(i) ==
  \/ subject[i][1] \notin texts
  \/ \E v \in Of(i) : v.vector # generated[i]
  \/ /\ Of(i) = {}
     /\ Cardinality({v \in vectors : v.text = subject[i][1]}) >= MaxVectors

\* One request; when its answer is lost it is repeated, done or not.
Put(i, told) ==
  /\ generated[i] # None
  /\ putTold[i] \in {None, "unknown"}
  /\ told \in {"unknown", IF PutRefused(i) THEN "refused" ELSE "applied"}
  /\ \/ /\ told # "refused" /\ ~PutRefused(i)
        /\ vectors' = vectors \cup
             {[text |-> subject[i][1], model |-> subject[i][2], vector |-> generated[i]]}
     \/ told # "applied" /\ UNCHANGED vectors
  /\ putTold' = [putTold EXCEPT ![i] = told]
  /\ UNCHANGED <<inferPhase, subject, working, billed, response, inferTold, generated, texts>>

PurgeText(text) ==
  /\ text \in texts
  /\ texts' = texts \ {text}
  /\ vectors' = {v \in vectors : v.text # text}
  /\ UNCHANGED <<inferPhase, subject, working, billed, response, inferTold, generated, putTold>>

ProvidersNext ==
  \/ \E i \in Inference :
       \/ \E text \in Text, model \in Model : Infer(i, text, model)
       \/ RefuseInference(i) \/ Submit(i) \/ ReadResponse(i) \/ Abandon(i)
       \/ \E works \in BOOLEAN, answer \in Vector \cup {"invalid", "declined", "fault"} :
            Serve(i, answer, works)
       \/ \E told \in Verdicts : Put(i, told)
  \/ \E text \in texts : PurgeText(text)

ProvidersSpec == ProvidersInit /\ [][ProvidersNext]_providerVars

-------------------------------------------------------------------------------
\* ProviderError.billing_unknown and the answers of put.  Who is told of an error
\* without billing_unknown is not charged, then or later; a vector whose put was
\* acknowledged is the only one of its model for as long as the text is there, and
\* a text has at most MaxVectors.
CallersAreToldTheTruth ==
  /\ \A i \in Inference :
       /\ Honest(inferTold[i], i \in billed, i \in working)
       /\ putTold[i] = "applied" /\ subject[i][1] \in texts =>
            {v.vector : v \in Of(i)} = {generated[i]}
  /\ \A text \in Text : Cardinality({v \in vectors : v.text = text}) <= MaxVectors
===============================================================================
