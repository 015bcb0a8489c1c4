----------------------------- MODULE ModelBundle ------------------------------
(***************************************************************************)
(* The model bundle: train_model.py registers it file by file, over the    *)
(* one of the last training of the same version; the scoring API and the   *)
(* SHAP worker each load it once, file by file, and keep it in memory.     *)
(*                                                                         *)
(* A file is the training it comes from, or Torn while it is written.  A   *)
(* training is its number and the number of features it was given; what it *)
(* learned, its report and the files that no service reads are left out.   *)
(* The programs run in one checkout, as the scripts do; the images of      *)
(* docker-compose copy the registry when they are built.                   *)
(***************************************************************************)
EXTENDS Naturals, FiniteSets

CONSTANTS Width,            \* number of features of each training
          MaxCrashes,       \* bound on programs killed
          None, Torn

Trainings == DOMAIN Width
Artifacts == {"model", "calibrator", "schema", "metadata"}

ASSUME BundleAssumption ==
    /\ Cardinality(Trainings) \in Nat /\ Trainings = 1..Cardinality(Trainings)
    /\ \A g \in Trainings : Width[g] \in Nat
    /\ MaxCrashes \in Nat
    /\ None \notin Trainings /\ Torn \notin Trainings /\ None # Torn

VARIABLES bundle,           \* artifact -> training, Torn or None
          trained,          \* the number of trainings begun
          save,             \* what save_version does next, or "over"
          api, worker,      \* the programs and what they have in memory
          jobs,             \* trainings whose margins await an explanation
          explained,        \* [margin, values]: trainings of an explanation's two sides
          crashes

vars == <<bundle, trained, save, api, worker, jobs, explained, crashes>>

Blank == [at |-> "down", loaded |-> FALSE,
          model |-> None, calibrator |-> None, schema |-> None, metadata |-> None]

Init ==
    /\ bundle = [a \in Artifacts |-> None]
    /\ trained = 0
    /\ save = "over"
    /\ api = Blank /\ worker = Blank
    /\ jobs = {} /\ explained = {}
    /\ crashes = 0

------------------------------------------------------------------------------
(* The trainer.                                                            *)

\* train_model.py, run by hand, up to save_version.
Train ==
    /\ save = "over" /\ trained < Cardinality(Trainings)
    /\ trained' = trained + 1
    /\ save' = "model"
    /\ UNCHANGED <<bundle, api, worker, jobs, explained, crashes>>

\* Mutant: the schema goes before the calibrator.
AfterWithSchemaFirst(a) ==
    CASE a = "model" -> "schema" [] a = "schema" -> "calibrator"
      [] a = "calibrator" -> "metadata" [] a = "metadata" -> "over"

\* The order of the files.
After(a) ==
    CASE a = "model" -> "calibrator" [] a = "calibrator" -> "schema"
      [] a = "schema" -> "metadata" [] a = "metadata" -> "over"

\* Each file is opened for writing, which empties it, ...
Open ==
    /\ save # "over" /\ bundle[save] # Torn
    /\ bundle' = [bundle EXCEPT ![save] = Torn]
    /\ UNCHANGED <<trained, save, api, worker, jobs, explained, crashes>>

\* ... and written.
Write ==
    /\ save # "over" /\ bundle[save] = Torn
    /\ bundle' = [bundle EXCEPT ![save] = trained]
    /\ save' = After(save)
    /\ UNCHANGED <<trained, api, worker, jobs, explained, crashes>>

\* The trainer is killed, between two files or in the middle of one.
Abort ==
    /\ save # "over" /\ crashes < MaxCrashes
    /\ save' = "over"
    /\ crashes' = crashes + 1
    /\ UNCHANGED <<bundle, trained, api, worker, jobs, explained>>

------------------------------------------------------------------------------
(* Loading.                                                                *)

StartApi ==
    /\ api.at = "down"
    /\ api' = [api EXCEPT !.at = "schema"]
    /\ UNCHANGED <<bundle, trained, save, worker, jobs, explained, crashes>>

\* Mutant: only the schema and the model must be readable.
ReadApiLeniently(a, next) ==
    /\ api.at = a
    /\ api' = IF bundle[a] \in Trainings THEN [api EXCEPT ![a] = bundle[a], !.at = next]
              ELSE [api EXCEPT !.at = IF a \in {"schema", "model"} THEN "idle" ELSE next]
    /\ UNCHANGED <<bundle, trained, save, worker, jobs, explained, crashes>>

\* ModelLoader.load.  What is torn cannot be read, what does not exist must when it is
\* the schema or the model.  The failure is swallowed when the service starts and an
\* answer 500 later; the loader goes on with what it has and loads all of it again.
ReadApi(a, next) ==
    /\ api.at = a
    /\ api' = IF bundle[a] = Torn \/ (bundle[a] = None /\ a \in {"schema", "model"})
              THEN [api EXCEPT !.at = "idle"]
              ELSE IF bundle[a] = None THEN [api EXCEPT !.at = next]
              ELSE [api EXCEPT ![a] = bundle[a], !.at = next]
    /\ UNCHANGED <<bundle, trained, save, worker, jobs, explained, crashes>>

Loaded ==
    /\ api.at = "loaded"
    /\ api' = [api EXCEPT !.at = "idle", !.loaded = TRUE]
    /\ UNCHANGED <<bundle, trained, save, worker, jobs, explained, crashes>>

Load ==
    \/ ReadApi("schema", "model")
    \/ ReadApi("model", "calibrator")
    \/ ReadApi("calibrator", "metadata")
    \/ ReadApi("metadata", "loaded")
    \/ Loaded

\* Mutant: only the start of the service loads.
RequestWithoutLoad ==
    /\ api.at = "idle" /\ api.loaded
    /\ UNCHANGED <<bundle, trained, save, api, worker, jobs, explained, crashes>>

\* The first request after a failed load tries again, inside predict.
RequestLoad ==
    /\ api.at = "idle" /\ ~api.loaded
    /\ api' = [api EXCEPT !.at = "schema"]
    /\ UNCHANGED <<bundle, trained, save, worker, jobs, explained, crashes>>

\* A row has the columns of the schema; a model takes rows of its own width only.
Takes(schema, g) == Width[schema] = Width[g]

\* ModelLoader.predict: the margin comes from the model, the probability from the model
\* inside the calibrator, and a row that does not fit answers 500, every time.
Score ==
    /\ api.at = "idle" /\ api.loaded
    /\ Takes(api.schema, api.model)
    /\ api.calibrator # None => Takes(api.schema, api.calibrator)
    /\ jobs' = jobs \cup {api.model}
    /\ UNCHANGED <<bundle, trained, save, api, worker, explained, crashes>>

StartWorker ==
    /\ worker.at = "down"
    /\ worker' = [Blank EXCEPT !.at = "schema"]
    /\ UNCHANGED <<bundle, trained, save, api, jobs, explained, crashes>>

\* ShapWorker.initialize; what it cannot read ends the program.
ReadWorker(a, next) ==
    /\ worker.at = a
    /\ worker' = IF bundle[a] \in {None, Torn} THEN Blank
                 ELSE [worker EXCEPT ![a] = bundle[a], !.at = next]
    /\ UNCHANGED <<bundle, trained, save, api, jobs, explained, crashes>>

Initialize == ReadWorker("schema", "model") \/ ReadWorker("model", "polling")

\* process_job: the attributions are of the worker's model, whatever model the margin
\* came from (a difference is logged).  A row that does not fit fails like any other
\* computation, which is the business of ExplanationPipeline.
Explain(g) ==
    /\ worker.at = "polling" /\ g \in jobs
    /\ jobs' = jobs \ {g}
    /\ explained' = IF Takes(worker.schema, worker.model)
                    THEN explained \cup {[margin |-> g, values |-> worker.model]}
                    ELSE explained
    /\ UNCHANGED <<bundle, trained, save, api, worker, crashes>>

Kill ==
    /\ crashes < MaxCrashes
    /\ crashes' = crashes + 1
    /\ \/ api.at # "down" /\ api' = Blank /\ UNCHANGED worker
       \/ worker.at # "down" /\ worker' = Blank /\ UNCHANGED api
    /\ UNCHANGED <<bundle, trained, save, jobs, explained>>

------------------------------------------------------------------------------

Next ==
    \/ Train \/ Open \/ Write \/ Abort
    \/ StartApi \/ Load \/ RequestLoad \/ Score
    \/ StartWorker \/ Initialize \/ \E g \in jobs : Explain(g)
    \/ Kill

Spec == Init /\ [][Next]_vars

\* The programs are started again when they end, and requests keep coming.
FairSpec ==
    /\ Spec
    /\ WF_vars(StartApi \/ Load \/ RequestLoad)
    /\ WF_vars(StartWorker \/ Initialize)

------------------------------------------------------------------------------
(* Properties.                                                             *)

\* A service that scores has the calibrator, although the loader would do without: no
\* scoring is ever decided on the bare model's probability, however a load overlaps a
\* first training or follows one that was killed.
Calibrated == api.loaded => api.calibrator # None

\* What a program has in memory may be of several trainings, but the schema is the
\* oldest: it is written last and read first, so the features that the rows are made
\* of are never newer than the model and the calibrator that take them.
SchemaIsOldest ==
    \A r \in {api, worker} :
        /\ r.loaded \/ r.at = "polling" => r.schema <= r.model
        /\ r.loaded /\ r.calibrator # None => r.schema <= r.calibrator

Whole == \A a \in Artifacts : bundle[a] \in Trainings

\* Whenever the bundle becomes whole for good, the service and the worker have it in
\* the end, whatever they failed to read before: one because a request tries again,
\* the other because it is started again.
BothLoad == <>[]Whole => <>[](api.loaded /\ worker.at = "polling")
=============================================================================
