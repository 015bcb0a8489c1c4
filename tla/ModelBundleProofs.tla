-------------------------- MODULE ModelBundleProofs ---------------------------
(***************************************************************************)
(* What is proved of ModelBundle: for any number of trainings, killed at   *)
(* any point, whatever is loaded is calibrated and its schema is no newer   *)
(* than its model and its calibrator.                                       *)
(*                                                                         *)
(* The invariant follows the order of the files.  The schema is written    *)
(* last, so a schema on disk is no newer than a model or calibrator that   *)
(* is not torn (Layered); and files only get newer, so whoever has read a   *)
(* schema finds nothing older than it (Ahead), however long the load takes. *)
(***************************************************************************)
EXTENDS ModelBundle, TLAPS

Places == {"down", "schema", "model", "calibrator", "metadata", "loaded", "idle", "polling"}
Held == Trainings \cup {None}
Memories == [at : Places, loaded : BOOLEAN,
             model : Held, calibrator : Held, schema : Held, metadata : Held]

Contents(g) == [Artifacts -> 1..g \cup {None, Torn}]

Typed ==
    /\ trained \in 0..Cardinality(Trainings)
    /\ save \in Artifacts \cup {"over"}
    /\ bundle \in Contents(trained)
    /\ api \in Memories /\ worker \in Memories

\* The files that save_version has passed are those of the training at hand.
Passed(files, step, g) ==
    /\ step # "over" => g \in Trainings
    /\ step \in {"calibrator", "schema", "metadata"} => files["model"] = g
    /\ step \in {"schema", "metadata"} => files["calibrator"] = g

\* Whatever is whole is no older than g, and there is a calibrator.
Ahead(files, g) ==
    /\ files["calibrator"] # None
    /\ files["model"] \in Trainings => g <= files["model"]
    /\ files["calibrator"] \in Trainings => g <= files["calibrator"]

Layered(files) == files["schema"] \in Trainings => Ahead(files, files["schema"])

\* What the reader r has in memory, given the files.
Loads(r, files) ==
    /\ r.schema \in Trainings => Ahead(files, r.schema)
    /\ r.at \in {"model", "calibrator", "metadata", "loaded", "polling"} => r.schema \in Trainings
    /\ r.at \in {"calibrator", "metadata", "loaded", "polling"} \/ r.loaded =>
          r.schema \in Trainings /\ r.model \in Trainings /\ r.schema <= r.model
    /\ r.at \in {"metadata", "loaded"} \/ r.loaded =>
          r.calibrator \in Trainings /\ r.schema <= r.calibrator
    /\ r.loaded => r.at = "idle"

\* What it has read is of a training that has begun.
Past(r, g) == r.schema \in Trainings => r.schema <= g

IInv ==
    /\ Typed
    /\ Passed(bundle, save, trained)
    /\ Layered(bundle)
    /\ Loads(api, bundle) /\ Loads(worker, bundle)
    /\ Past(api, trained) /\ Past(worker, trained)

------------------------------------------------------------------------------

\* The trainings are the numbers up to their number, and neither None nor Torn.
LEMMA Numbers ==
    /\ Cardinality(Trainings) \in Nat /\ Trainings = 1..Cardinality(Trainings)
    /\ None \notin Trainings /\ Torn \notin Trainings /\ None # Torn
  BY BundleAssumption DEF BundleAssumption

\* The files get no older: what one of them is replaced by is Torn or the training at
\* hand, which nothing on disk or in memory is newer than.
LEMMA AheadStays ==
    ASSUME NEW f \in Artifacts, NEW g \in Trainings, NEW t \in Trainings, g <= t,
           NEW files \in Contents(t), Ahead(files, g),
           NEW x \in {t, Torn}
    PROVE  Ahead([files EXCEPT ![f] = x], g)
  BY Numbers DEF Ahead, Contents, Artifacts

\* So a reader that loses nothing to a write stays as it is.
LEMMA LoadsStay ==
    ASSUME NEW f \in Artifacts, NEW t \in Trainings, NEW files \in Contents(t),
           NEW x \in {t, Torn}, NEW r \in Memories, Loads(r, files),
           r.schema \in Trainings => r.schema <= t
    PROVE  Loads(r, [files EXCEPT ![f] = x])
<1> DEFINE after == [files EXCEPT ![f] = x]
<1>1. r.schema \in Trainings => Ahead(after, r.schema)
  BY AheadStays DEF Loads
<1> HIDE DEF after
<1>2. Loads(r, after)
  BY <1>1 DEF Loads
<1>3. QED
  BY <1>2 DEF after

\* A file that is replaced keeps the layers, when the schema is replaced last.
LEMMA LayersStay ==
    ASSUME NEW f \in Artifacts, NEW t \in Trainings, NEW files \in Contents(t),
           NEW x \in {t, Torn}, Layered(files),
           f = "schema" => files["model"] = t /\ files["calibrator"] = t
    PROVE  Layered([files EXCEPT ![f] = x])
<1> DEFINE after == [files EXCEPT ![f] = x]
<1>1. CASE f = "schema"
  <2>1. after["schema"] = x /\ after["model"] = t /\ after["calibrator"] = t
    BY <1>1 DEF Contents, Artifacts
  <2>2. QED
    BY <2>1, Numbers DEF Layered, Ahead
<1>2. CASE f # "schema"
  <2>1. after["schema"] = files["schema"]
    BY <1>2 DEF Contents, Artifacts
  <2>2. files["schema"] \in Trainings => files["schema"] <= t
    BY Numbers DEF Contents, Artifacts
  <2>3. files["schema"] \in Trainings => Ahead(after, files["schema"])
    BY <2>2, AheadStays DEF Layered
  <2> HIDE DEF after
  <2>4. Layered(after)
    BY <2>1, <2>3 DEF Layered
  <2>5. QED
    BY <2>4 DEF after
<1>3. QED
  BY <1>1, <1>2

\* The files of g trainings are files of more.
LEMMA ContentsGrow ==
    ASSUME NEW g \in Nat, NEW files \in Contents(g)
    PROVE  files \in Contents(g + 1)
  BY DEF Contents

------------------------------------------------------------------------------
(* The trainer.                                                            *)

\* A training gets the next number and starts with the first file.
LEMMA TrainKeeps == IInv /\ Train => IInv'
<1> SUFFICES ASSUME IInv, Train PROVE IInv'
  OBVIOUS
<1>1. trained \in Nat /\ trained' = trained + 1 /\ trained' \in Trainings
  BY Numbers DEF IInv, Typed, Train
<1>2. bundle' = bundle /\ save' = "model" /\ api' = api /\ worker' = worker
  BY DEF Train
<1>3. Typed'
  <2>1. bundle' \in Contents(trained')
    BY <1>1, <1>2, ContentsGrow DEF IInv, Typed
  <2>2. trained' \in 0..Cardinality(Trainings)
    BY <1>1, Numbers
  <2>3. QED
    BY <1>2, <2>1, <2>2 DEF IInv, Typed, Artifacts
<1>4. Passed(bundle, save, trained)'
  BY <1>1, <1>2 DEF Passed
<1>5. Past(api, trained)' /\ Past(worker, trained)'
  BY <1>1, <1>2, Numbers DEF IInv, Past
<1>6. QED
  BY <1>2, <1>3, <1>4, <1>5 DEF IInv

\* A file is opened or written: x is what it holds then, next what comes after.
LEMMA SaveKeeps ==
    ASSUME IInv, save # "over", NEW x \in {trained, Torn},
           NEW next, next = (IF x = Torn THEN save ELSE After(save)),
           bundle' = [bundle EXCEPT ![save] = x], save' = next,
           UNCHANGED <<trained, api, worker>>
    PROVE  IInv'
<1>1. trained \in Trainings /\ bundle \in Contents(trained) /\ save \in Artifacts
  BY DEF IInv, Typed, Passed
<1>2. trained' = trained /\ api' = api /\ worker' = worker
  OBVIOUS
<1>3. Typed'
  <2>1. bundle' \in Contents(trained)
    BY <1>1, Numbers DEF Contents
  <2>2. save' \in Artifacts \cup {"over"}
    BY <1>1 DEF After, Artifacts
  <2>3. QED
    BY <1>2, <2>1, <2>2 DEF IInv, Typed
<1>4. Passed(bundle', save', trained)
  <2>1. \A f \in Artifacts : bundle'[f] = IF f = save THEN x ELSE bundle[f]
    BY <1>1 DEF Contents
  <2>2. x = Torn \/ x = trained
    OBVIOUS
  <2>3. CASE x = Torn
    BY <1>1, <2>1, <2>3 DEF IInv, Passed, Artifacts
  <2>4. CASE x = trained
    <3>1. save' = After(save)
      BY <1>1, <2>4, Numbers
    <3>2. QED
      BY <1>1, <2>1, <2>4, <3>1 DEF IInv, Passed, Artifacts, After
  <2>5. QED
    BY <2>2, <2>3, <2>4
<1>5. Layered(bundle')
  BY <1>1, LayersStay DEF IInv, Passed
<1>6. Loads(api, bundle') /\ Loads(worker, bundle')
  BY <1>1, LoadsStay DEF IInv, Typed, Past
<1>7. QED
  BY <1>2, <1>3, <1>4, <1>5, <1>6 DEF IInv

\* Opening a file empties it.
LEMMA OpenKeeps == IInv /\ Open => IInv'
<1> SUFFICES ASSUME IInv, Open PROVE IInv'
  OBVIOUS
<1>1. save # "over" /\ bundle' = [bundle EXCEPT ![save] = Torn] /\ save' = save
      /\ UNCHANGED <<trained, api, worker>>
  BY DEF Open
<1> DEFINE next == IF Torn = Torn THEN save ELSE After(save)
<1>2. save' = next
  BY <1>1
<1> HIDE DEF next
<1>3. QED
  BY <1>1, <1>2, SaveKeeps DEF next

\* Writing a file completes it.
LEMMA WriteKeeps == IInv /\ Write => IInv'
<1> SUFFICES ASSUME IInv, Write PROVE IInv'
  OBVIOUS
<1>1. save # "over" /\ bundle' = [bundle EXCEPT ![save] = trained] /\ save' = After(save)
      /\ UNCHANGED <<trained, api, worker>>
  BY DEF Write
<1>2. trained # Torn
  BY <1>1, Numbers DEF IInv, Passed
<1> DEFINE next == IF trained = Torn THEN save ELSE After(save)
<1>3. save' = next
  BY <1>1, <1>2
<1> HIDE DEF next
<1>4. QED
  BY <1>1, <1>3, SaveKeeps DEF next

\* A trainer that dies leaves the files as they are, and is over.
LEMMA AbortKeeps == IInv /\ Abort => IInv'
<1> SUFFICES ASSUME IInv, Abort PROVE IInv'
  OBVIOUS
<1>1. save' = "over" /\ UNCHANGED <<bundle, trained, api, worker>>
  BY DEF Abort
<1>2. Passed(bundle, "over", trained)
  BY DEF Passed
<1>3. QED
  BY <1>1, <1>2 DEF IInv, Typed

------------------------------------------------------------------------------
(* The readers.                                                            *)

\* A step of one reader that leaves the disk and the other reader alone.
Untouched == UNCHANGED <<bundle, trained, save>>
Right(r) == r \in Memories /\ Loads(r, bundle) /\ Past(r, trained)

\* What a reader does touches nothing else.
LEMMA ReaderKeeps ==
    ASSUME IInv, Untouched, Right(api'), Right(worker')
    PROVE  IInv'
  BY DEF IInv, Untouched, Right, Typed

\* The invariant, as it is used of a reader.
LEMMA RightNow == IInv => Right(api) /\ Right(worker)
  BY DEF IInv, Typed, Right

\* What is whole on disk is of a training that has begun.
LEMMA WholeIsPast ==
    ASSUME IInv, NEW a \in Artifacts, bundle[a] \notin {None, Torn}
    PROVE  bundle[a] \in Trainings /\ bundle[a] <= trained
  BY Numbers DEF IInv, Typed, Contents

\* A program that has read nothing is right.
LEMMA BlankIsRight == IInv => Right(Blank) /\ Right([Blank EXCEPT !.at = "schema"])
  BY Numbers DEF Right, Blank, Memories, Places, Held, Loads, Past

\* A load that fails, or starts again, forgets nothing and relies on nothing.
LEMMA BackIsRight ==
    ASSUME IInv, NEW r, Right(r), ~r.loaded, NEW at \in {"idle", "schema"}
    PROVE  Right([r EXCEPT !.at = at])
  BY DEF Right, Memories, Places, Loads, Past

\* The schema is read first, when all that is below it is at least as new.
LEMMA SchemaIsRight ==
    ASSUME IInv, NEW r, Right(r), r.at = "schema", bundle["schema"] \notin {None, Torn}
    PROVE  Right([r EXCEPT !["schema"] = bundle["schema"], !.at = "model"])
<1> DEFINE s == [r EXCEPT !["schema"] = bundle["schema"], !.at = "model"]
<1>1. bundle["schema"] \in Trainings /\ bundle["schema"] <= trained
  BY WholeIsPast DEF Artifacts
<1>2. s \in Memories
  BY <1>1 DEF Right, Memories, Places, Held
<1>3. s.schema = bundle["schema"] /\ s.at = "model" /\ ~s.loaded
  BY DEF Right, Memories, Loads
<1>4. Ahead(bundle, bundle["schema"])
  BY <1>1 DEF IInv, Layered
<1> HIDE DEF s
<1>5. Right(s)
  BY <1>1, <1>2, <1>3, <1>4 DEF Right, Loads, Past
<1>6. QED
  BY <1>5 DEF s

\* The service goes on with the calibrator, the worker is done.
LEMMA ModelIsRight ==
    ASSUME IInv, NEW r, Right(r), r.at = "model", bundle["model"] \notin {None, Torn},
           NEW next \in {"calibrator", "polling"}
    PROVE  Right([r EXCEPT !["model"] = bundle["model"], !.at = next])
<1> DEFINE s == [r EXCEPT !["model"] = bundle["model"], !.at = next]
<1>1. bundle["model"] \in Trainings
  BY WholeIsPast DEF Artifacts
<1>2. s \in Memories
  BY <1>1 DEF Right, Memories, Places, Held
<1>3. s.schema = r.schema /\ s.model = bundle["model"] /\ s.at = next /\ ~s.loaded
  BY DEF Right, Memories, Loads
<1>4. r.schema \in Trainings /\ Ahead(bundle, r.schema)
  BY DEF Right, Loads
<1>5. r.schema <= bundle["model"]
  BY <1>1, <1>4 DEF Ahead
<1> HIDE DEF s
<1>6. Right(s)
  BY <1>1, <1>2, <1>3, <1>4, <1>5 DEF Right, Loads, Past
<1>7. QED
  BY <1>6 DEF s

\* There is a calibrator, because there was a schema.
LEMMA CalibratorIsThere ==
    ASSUME IInv, NEW r, Right(r), r.at = "calibrator"
    PROVE  bundle["calibrator"] # None
  BY DEF Right, Loads, Ahead

\* The calibrator is read last of the three.
LEMMA CalibratorIsRight ==
    ASSUME IInv, NEW r, Right(r), r.at = "calibrator", bundle["calibrator"] \notin {None, Torn}
    PROVE  Right([r EXCEPT !["calibrator"] = bundle["calibrator"], !.at = "metadata"])
<1> DEFINE s == [r EXCEPT !["calibrator"] = bundle["calibrator"], !.at = "metadata"]
<1>1. bundle["calibrator"] \in Trainings
  BY WholeIsPast DEF Artifacts
<1>2. s \in Memories
  BY <1>1 DEF Right, Memories, Places, Held
<1>3. /\ s.schema = r.schema /\ s.model = r.model /\ s.at = "metadata" /\ ~s.loaded
      /\ s.calibrator = bundle["calibrator"]
  BY DEF Right, Memories, Loads
<1>4. /\ r.schema \in Trainings /\ Ahead(bundle, r.schema)
      /\ r.model \in Trainings /\ r.schema <= r.model
  BY DEF Right, Loads
<1>5. r.schema <= bundle["calibrator"]
  BY <1>1, <1>4 DEF Ahead
<1> HIDE DEF s
<1>6. Right(s)
  BY <1>1, <1>2, <1>3, <1>4, <1>5 DEF Right, Loads, Past
<1>7. QED
  BY <1>6 DEF s

\* No property looks at the report of the training, which may even be missing.
LEMMA MetadataIsRight ==
    ASSUME IInv, NEW r, Right(r), r.at = "metadata", NEW report \in Held
    PROVE  Right([r EXCEPT !["metadata"] = report, !.at = "loaded"])
<1> DEFINE s == [r EXCEPT !["metadata"] = report, !.at = "loaded"]
<1>1. s \in Memories
  BY DEF Right, Memories, Places, Held
<1>2. /\ s.schema = r.schema /\ s.model = r.model /\ s.calibrator = r.calibrator
      /\ s.at = "loaded" /\ ~s.loaded
  BY DEF Right, Memories, Loads
<1> HIDE DEF s
<1>3. Right(s)
  BY <1>1, <1>2 DEF Right, Loads, Past
<1>4. QED
  BY <1>3 DEF s

\* The metadata and the report are optional.
LEMMA NoReportIsRight ==
    ASSUME IInv, NEW r, Right(r), r.at = "metadata"
    PROVE  Right([r EXCEPT !.at = "loaded"])
<1> DEFINE s == [r EXCEPT !.at = "loaded"]
<1>1. s \in Memories
  BY DEF Right, Memories, Places
<1>2. /\ s.schema = r.schema /\ s.model = r.model /\ s.calibrator = r.calibrator
      /\ s.at = "loaded" /\ ~s.loaded
  BY DEF Right, Memories, Loads
<1> HIDE DEF s
<1>3. Right(s)
  BY <1>1, <1>2 DEF Right, Loads, Past
<1>4. QED
  BY <1>3 DEF s

\* What is loaded stays in memory.
LEMMA LoadedIsRight ==
    ASSUME IInv, NEW r, Right(r), r.at = "loaded"
    PROVE  Right([r EXCEPT !.at = "idle", !.loaded = TRUE])
<1> DEFINE s == [r EXCEPT !.at = "idle", !.loaded = TRUE]
<1>1. s \in Memories
  BY DEF Right, Memories, Places
<1>2. /\ s.schema = r.schema /\ s.model = r.model /\ s.calibrator = r.calibrator
      /\ s.at = "idle" /\ s.loaded
  BY DEF Right, Memories
<1> HIDE DEF s
<1>3. Right(s)
  BY <1>1, <1>2 DEF Right, Loads, Past
<1>4. QED
  BY <1>3 DEF s

\* What cannot be read, in any file but the calibrator and the report, ends the load.
LEMMA ReadApiIsRight ==
    ASSUME IInv, NEW a \in Artifacts, NEW next, ReadApi(a, next), ~api.loaded,
           bundle[a] \notin {None, Torn} =>
               Right([api EXCEPT ![a] = bundle[a], !.at = next]),
           bundle[a] = None /\ a \notin {"schema", "model"} =>
               Right([api EXCEPT !.at = next])
    PROVE  IInv'
<1>1. Right(api) /\ Right(worker)
  BY RightNow
<1>2. Untouched /\ worker' = worker
  BY DEF ReadApi, Untouched
<1>3. Right([api EXCEPT !.at = "idle"])
  BY <1>1, BackIsRight
<1>4. Right(api')
  BY <1>3 DEF ReadApi
<1>5. QED
  BY <1>1, <1>2, <1>4, ReaderKeeps

\* Each step of ModelLoader.load is one of these.
LEMMA LoadKeeps == IInv /\ Load => IInv'
<1> SUFFICES ASSUME IInv, Load PROVE IInv'
  OBVIOUS
<1>1. Right(api) /\ Right(worker)
  BY RightNow
<1>2. api.at \in {"schema", "model", "calibrator", "metadata", "loaded"} => ~api.loaded
  BY <1>1 DEF Right, Loads
<1>3. CASE ReadApi("schema", "model")
  <2>1. api.at = "schema" /\ ~api.loaded
    BY <1>2, <1>3 DEF ReadApi
  <2>2. bundle["schema"] \notin {None, Torn} =>
            Right([api EXCEPT !["schema"] = bundle["schema"], !.at = "model"])
    BY <1>1, <2>1, SchemaIsRight
  <2>3. QED
    BY <1>3, <2>1, <2>2, ReadApiIsRight DEF Artifacts
<1>4. CASE ReadApi("model", "calibrator")
  <2>1. api.at = "model" /\ ~api.loaded
    BY <1>2, <1>4 DEF ReadApi
  <2>2. bundle["model"] \notin {None, Torn} =>
            Right([api EXCEPT !["model"] = bundle["model"], !.at = "calibrator"])
    BY <1>1, <2>1, ModelIsRight
  <2>3. QED
    BY <1>4, <2>1, <2>2, ReadApiIsRight DEF Artifacts
<1>5. CASE ReadApi("calibrator", "metadata")
  <2>1. api.at = "calibrator" /\ ~api.loaded
    BY <1>2, <1>5 DEF ReadApi
  <2>2. bundle["calibrator"] \notin {None, Torn} =>
            Right([api EXCEPT !["calibrator"] = bundle["calibrator"], !.at = "metadata"])
    BY <1>1, <2>1, CalibratorIsRight
  <2>3. bundle["calibrator"] # None
    BY <1>1, <2>1, CalibratorIsThere
  <2>4. QED
    BY <1>5, <2>1, <2>2, <2>3, ReadApiIsRight DEF Artifacts
<1>6. CASE ReadApi("metadata", "loaded")
  <2>1. api.at = "metadata" /\ ~api.loaded
    BY <1>2, <1>6 DEF ReadApi
  <2>2. bundle["metadata"] \notin {None, Torn} => bundle["metadata"] \in Held
    BY WholeIsPast DEF Artifacts, Held
  <2>3. bundle["metadata"] \notin {None, Torn} =>
            Right([api EXCEPT !["metadata"] = bundle["metadata"], !.at = "loaded"])
    BY <1>1, <2>1, <2>2, MetadataIsRight
  <2>4. Right([api EXCEPT !.at = "loaded"])
    BY <1>1, <2>1, NoReportIsRight
  <2>5. QED
    BY <1>6, <2>1, <2>3, <2>4, ReadApiIsRight DEF Artifacts
<1>7. CASE Loaded
  <2>1. api.at = "loaded" /\ api' = [api EXCEPT !.at = "idle", !.loaded = TRUE]
        /\ worker' = worker /\ Untouched
    BY <1>7 DEF Loaded, Untouched
  <2>2. Right([api EXCEPT !.at = "idle", !.loaded = TRUE])
    BY <1>1, <2>1, LoadedIsRight
  <2>3. QED
    BY <1>1, <2>1, <2>2, ReaderKeeps
<1>8. QED
  BY <1>3, <1>4, <1>5, <1>6, <1>7 DEF Load

\* The service starts, or a request loads what no start has loaded.
LEMMA BeginKeeps == IInv /\ (StartApi \/ RequestLoad) => IInv'
<1> SUFFICES ASSUME IInv, StartApi \/ RequestLoad PROVE IInv'
  OBVIOUS
<1>1. Right(api) /\ Right(worker)
  BY RightNow
<1>2. /\ ~api.loaded /\ api' = [api EXCEPT !.at = "schema"]
      /\ worker' = worker /\ Untouched
  BY <1>1 DEF StartApi, RequestLoad, Untouched, Right, Loads
<1>3. Right([api EXCEPT !.at = "schema"])
  BY <1>1, <1>2, BackIsRight
<1>4. QED
  BY <1>1, <1>2, <1>3, ReaderKeeps

\* So is each step of the worker.
LEMMA WorkerKeeps == IInv /\ (StartWorker \/ Initialize) => IInv'
<1> SUFFICES ASSUME IInv, StartWorker \/ Initialize PROVE IInv'
  OBVIOUS
<1>1. Right(api) /\ Right(worker)
  BY RightNow
<1>2. api' = api /\ Untouched
  BY DEF StartWorker, Initialize, ReadWorker, Untouched
<1>3. Right(worker')
  <2>1. CASE StartWorker
    BY <2>1, BlankIsRight DEF StartWorker
  <2>2. CASE ReadWorker("schema", "model")
    BY <1>1, <2>2, BlankIsRight, SchemaIsRight DEF ReadWorker
  <2>3. CASE ReadWorker("model", "polling")
    BY <1>1, <2>3, BlankIsRight, ModelIsRight DEF ReadWorker
  <2>4. QED
    BY <2>1, <2>2, <2>3 DEF Initialize
<1>4. QED
  BY <1>1, <1>2, <1>3, ReaderKeeps

\* A killed program forgets what it had.
LEMMA KillKeeps == IInv /\ Kill => IInv'
<1> SUFFICES ASSUME IInv, Kill PROVE IInv'
  OBVIOUS
<1>1. Right(api) /\ Right(worker) /\ Right(Blank)
  BY RightNow, BlankIsRight
<1>2. /\ Untouched
      /\ \/ api' = Blank /\ worker' = worker
         \/ worker' = Blank /\ api' = api
  BY DEF Kill, Untouched
<1>3. QED
  BY <1>1, <1>2, ReaderKeeps

------------------------------------------------------------------------------

\* The files are as far as the trainer is, and what is in memory is in their order:
\* in the beginning, ...
LEMMA Begins == Init => IInv
<1> SUFFICES ASSUME Init PROVE IInv
  OBVIOUS
<1>1. /\ bundle = [a \in Artifacts |-> None] /\ trained = 0 /\ save = "over"
      /\ api = Blank /\ worker = Blank
  BY DEF Init
<1>2. Blank \in Memories /\ Loads(Blank, bundle) /\ Past(Blank, trained)
  BY Numbers DEF Blank, Memories, Places, Held, Loads, Past
<1>3. Typed
  BY <1>1, <1>2, Numbers DEF Typed, Contents
<1>4. Passed(bundle, save, trained) /\ Layered(bundle)
  BY <1>1, Numbers DEF Passed, Layered, Artifacts
<1>5. QED
  BY <1>1, <1>2, <1>3, <1>4 DEF IInv

\* ... and after every step of the trainer, the service, the worker and whoever kills.
LEMMA Inductive == IInv /\ [Next]_vars => IInv'
<1> SUFFICES ASSUME IInv, [Next]_vars PROVE IInv'
  OBVIOUS
<1>1. CASE Train \/ Open \/ Write \/ Abort
  BY <1>1, TrainKeeps, OpenKeeps, WriteKeeps, AbortKeeps
<1>2. CASE StartApi \/ Load \/ RequestLoad
  BY <1>2, BeginKeeps, LoadKeeps
<1>3. CASE StartWorker \/ Initialize
  BY <1>3, WorkerKeeps
<1>4. CASE Kill
  BY <1>4, KillKeeps
<1>5. CASE Score \/ (\E g \in jobs : Explain(g)) \/ UNCHANGED vars
  <2>1. UNCHANGED <<bundle, trained, save, api, worker>>
    BY <1>5 DEF Score, Explain, vars
  <2>2. QED
    BY <2>1 DEF IInv, Typed
<1>6. QED
  BY <1>1, <1>2, <1>3, <1>4, <1>5 DEF Next

\* So the invariant holds.
LEMMA Invariant == Spec => []IInv
<1>1. QED
  BY Begins, Inductive, PTL DEF Spec

\* However many trainings there are and wherever they are killed, ModelLoader.load never
\* ends without a calibrator: no probability is ever the bare model's, although
\* predict has the branch for it.
THEOREM CalibratedHolds == Spec => []Calibrated
<1>1. IInv => Calibrated
  BY Numbers DEF IInv, Loads, Calibrated
<1>2. QED
  BY <1>1, Invariant, PTL

\* However loads and trainings overlap, the schema that the rows are made of is no newer
\* than the model or the calibrator that takes them, in the service and in the worker.
THEOREM SchemaIsOldestHolds == Spec => []SchemaIsOldest
<1>1. IInv => SchemaIsOldest
  BY DEF IInv, Loads, SchemaIsOldest
<1>2. QED
  BY <1>1, Invariant, PTL
=============================================================================
