----------------------------- MODULE AnomalyModel -----------------------------
(* The life of the anomaly service's model (src/services/anomaly-service): one  *)
(* process holds it in memory, a volume holds a signed file per version, Redis  *)
(* names the version in force.  Startup loads that version or trains a first    *)
(* one, a thread reloads it when the name changes, a scheduler and a handler    *)
(* retrain.  Each runs in a thread of its own, and the container may be killed  *)
(* and is started again.                                                       *)
EXTENDS Integers, FiniteSets

CONSTANTS
    Trainers,       \* the scheduler's thread and requests to /v1/anomaly/retrain
    MaxClock,       \* bound: the clock stops here
    MaxMishaps      \* bound: calls and writes that fail, and kills

ASSUME AnomalyConstants ==
    /\ IsFiniteSet(Trainers) /\ Trainers \cap {"main", "reload"} = {}
    /\ MaxClock \in Nat \ {0} /\ MaxMishaps \in Nat

(* A version is v1.0, here 0, or v<time> of the second its training began. *)
V1 == 0
Unset == -1
Versions == V1 .. MaxClock

(* What a file, or the memory, holds: the fit the forest comes from, the name,  *)
(* the fit the score range comes from - and, of a file, which bytes they came   *)
(* out as: pickling what was unpickled need not give the bytes it was read      *)
(* from.  Two are enough, as bytes are only compared.                         *)
Nothing == [estimator |-> 0, version |-> Unset, scale |-> 0, copy |-> 0]
Copies == {1, 2}
InMemory(bundle) == [bundle EXCEPT !.copy = 0]

VARIABLES
    pkl, sig,       \* per version: the bundle in its file, and the bundle that was signed
    resaved,        \* per version: were other bytes written over a signed file, and signed
    published,      \* the key anomaly:model:version
    memory,         \* AnomalyModel's fields, written together under its lock
    connected,      \* the process has a Redis client
    job,            \* per thread: where it is, and its locals
    clock, mishaps,
    fits,           \* forests fitted so far; the identity of the next
    contended,      \* two trainings were at work at once, or one of them fitted while hot
                    \* reload was still working on an answer of Redis that is no longer its
    undone          \* trainers whose fit hot reload has replaced before it was published

disk == <<pkl, sig, resaved>>
anVars == <<disk, published, memory, connected, job, clock, mishaps, fits, contended, undone>>

Threads == {"main", "reload"} \cup Trainers
Fresh(place) == [at |-> place, want |-> Unset, name |-> Unset, held |-> Nothing]
Is(a, place) == job[a].at = place
Goto(a, place) == job' = [job EXCEPT ![a].at = place]
Training(t) == job[t].at \notin {"off", "idle"}
Fitted(t) == Training(t) /\ ~Is(t, "fit")
Mishap == mishaps < MaxMishaps /\ mishaps' = mishaps + 1

AnInit ==
    /\ pkl = [v \in Versions |-> Nothing] /\ sig = [v \in Versions |-> Nothing]
    /\ resaved = [v \in Versions |-> "no"]
    /\ published = Unset /\ memory = Nothing /\ connected = FALSE
    /\ job = [a \in Threads |-> Fresh("off")]
    /\ clock = 1 /\ mishaps = 0 /\ fits = 0
    /\ contended = FALSE /\ undone = {}

(* The call of a thread ends.  Startup ends by starting the other threads. *)
Done(a) ==
    job' = CASE a = "main"   -> [b \in Threads |-> Fresh(CASE b = "main"   -> "serving"
                                                        [] b = "reload" -> "sleeping"
                                                        [] OTHER        -> "idle")]
             [] a = "reload" -> [job EXCEPT ![a] = Fresh("sleeping")]
             [] OTHER        -> [job EXCEPT ![a] = Fresh("idle")]

(* Startup ********************************************************************)
(* A client whose first ping fails is dropped, for the life of the process. *)
Connect ==
    /\ Is("main", "off")
    /\ connected' = TRUE
    /\ Goto("main", "target")
    /\ UNCHANGED <<disk, published, memory, clock, mishaps, fits, contended, undone>>

ConnectFails ==
    /\ Is("main", "off") /\ Mishap
    /\ connected' = FALSE
    /\ job' = [job EXCEPT !["main"].at = "data", !["main"].want = V1]
    /\ UNCHANGED <<disk, published, memory, clock, fits, contended, undone>>

ReadTarget ==
    /\ Is("main", "target")
    /\ job' = [job EXCEPT !["main"].at = "data",
                          !["main"].want = IF published = Unset THEN V1 ELSE published]
    /\ UNCHANGED <<disk, published, memory, connected, clock, mishaps, fits, contended, undone>>

ReadTargetFails ==
    /\ Is("main", "target") /\ Mishap
    /\ job' = [job EXCEPT !["main"].at = "data", !["main"].want = V1]
    /\ UNCHANGED <<disk, published, memory, connected, clock, fits, contended, undone>>

(* load *************************************************************************)
(* Without a file that verifies, startup trains and hot reload gives up. *)
NotLoaded(a) == IF a = "main" THEN Goto(a, "fit") ELSE Done(a)

ReadModel(a) ==
    /\ Is(a, "data")
    /\ LET data == pkl[job[a].want]
       IN  IF data = Nothing THEN NotLoaded(a)
           ELSE job' = [job EXCEPT ![a].at = "signature", ![a].held = data]
    /\ UNCHANGED <<disk, published, memory, connected, clock, mishaps, fits, contended, undone>>

CheckSignature(a) ==
    /\ Is(a, "signature")
    /\ IF sig[job[a].want] = job[a].held THEN Goto(a, "install") ELSE NotLoaded(a)
    /\ UNCHANGED <<disk, published, memory, connected, clock, mishaps, fits, contended, undone>>

(* One step also for save, which reads without the lock: threads change places  *)
(* at calls and jumps, and between these four plain assignments is neither.    *)
Install(a) ==
    /\ Is(a, "install")
    /\ memory' = InMemory(job[a].held)
    /\ undone' = undone \cup {t \in Trainers : Fitted(t)}
    /\ Done(a)
    /\ UNCHANGED <<disk, published, connected, clock, mishaps, fits, contended>>

(* fit and save *****************************************************************)
(* Broken variant: the name of the first fit stays. *)
FitKeepsVersion(a) ==
    /\ Is(a, "fit")
    /\ fits' = fits + 1
    /\ memory' = [estimator |-> fits + 1, scale |-> fits + 1, copy |-> 0,
                  version |-> IF memory.version = Unset THEN job[a].want ELSE memory.version]
    /\ contended' = (contended \/ (job["reload"].want \notin {Unset, published}))
    /\ Goto(a, "path")
    /\ UNCHANGED <<disk, published, connected, clock, mishaps, undone>>

(* The lock covers the four assignments of fit, not what comes after them. Two  *)
(* of them call numpy; only the save of another training could read between.   *)
Fit(a) ==
    /\ Is(a, "fit")
    /\ fits' = fits + 1
    /\ memory' = [estimator |-> fits + 1, version |-> job[a].want, scale |-> fits + 1,
                  copy |-> 0]
    /\ contended' = (contended \/ (job["reload"].want \notin {Unset, published}))
    /\ Goto(a, "path")
    /\ UNCHANGED <<disk, published, connected, clock, mishaps, undone>>

(* save reads the shared fields one by one, without the lock: the version for   *)
(* the file's name, then the entries of the bundle.                           *)
NameFile(a) ==
    /\ Is(a, "path")
    /\ job' = [job EXCEPT ![a].at = "estimator", ![a].name = memory.version]
    /\ UNCHANGED <<disk, published, memory, connected, clock, mishaps, fits, contended, undone>>

NextEntry == [estimator |-> "version", version |-> "scale", scale |-> "model"]

ReadEntry(a) ==
    LET entry == job[a].at
    IN  /\ entry \in DOMAIN NextEntry
        /\ job' = [job EXCEPT ![a].at = NextEntry[entry], ![a].held[entry] = memory[entry]]
        /\ UNCHANGED <<disk, published, memory, connected, clock, mishaps, fits, contended, undone>>

(* Each file is renamed into place whole, the signature - of the bytes pickled   *)
(* this time - last.                                                          *)
WriteModel(a) ==
    /\ Is(a, "model")
    /\ \E copy \in Copies :
          LET name == job[a].name
              data == [job[a].held EXCEPT !.copy = copy]
          IN  /\ pkl' = [pkl EXCEPT ![name] = data]
              /\ resaved' = [resaved EXCEPT ![name] =
                    IF pkl[name] = sig[name] /\ pkl[name] \notin {Nothing, data} THEN "unsigned" ELSE @]
              /\ job' = [job EXCEPT ![a].at = "sign", ![a].held = data]
    /\ UNCHANGED <<sig, published, memory, connected, clock, mishaps, fits, contended, undone>>

WriteSignature(a) ==
    /\ Is(a, "sign")
    /\ sig' = [sig EXCEPT ![job[a].name] = job[a].held]
    /\ resaved' = [resaved EXCEPT ![job[a].name] = IF @ = "unsigned" THEN "signed" ELSE @]
    /\ Goto(a, "label")
    /\ UNCHANGED <<pkl, published, memory, connected, clock, mishaps, fits, contended, undone>>

Stopped ==
    /\ job' = [a \in Threads |-> Fresh("off")]
    /\ memory' = Nothing /\ connected' = FALSE /\ undone' = {}

(* Broken variant: a training goes on to publish what it could not save. *)
SaveFailsUnnoticed(a) ==
    /\ job[a].at \in {"model", "sign"} /\ Mishap
    /\ IF a = "main" THEN Stopped ELSE Goto(a, "label") /\ UNCHANGED <<memory, connected, undone>>
    /\ UNCHANGED <<disk, published, clock, fits, contended>>

(* A write that fails ends the training, or the startup and with it the process. *)
SaveFails(a) ==
    /\ job[a].at \in {"model", "sign"} /\ Mishap
    /\ IF a = "main" THEN Stopped ELSE Done(a) /\ UNCHANGED <<memory, connected, undone>>
    /\ UNCHANGED <<disk, published, clock, fits, contended>>

(* Publishing *******************************************************************)
(* What is published is the version in memory by then.  A retrain has scored a  *)
(* thousand rows or more one by one since its fit, which takes seconds.        *)
ReadVersion(a) ==
    /\ Is(a, "label")
    /\ a \in Trainers => clock > job[a].want
    /\ IF connected
       THEN job' = [job EXCEPT ![a].at = "set", ![a].name = memory.version]
       ELSE Done(a)
    /\ UNCHANGED <<disk, published, memory, connected, clock, mishaps, fits, contended, undone>>

SetVersion(a) ==
    /\ Is(a, "set")
    /\ published' = job[a].name
    /\ Done(a)
    /\ UNCHANGED <<disk, memory, connected, clock, mishaps, fits, contended, undone>>

(* The failure is logged; the training counts as a success all the same. *)
SetFails(a) ==
    /\ Is(a, "set") /\ Mishap
    /\ Done(a)
    /\ UNCHANGED <<disk, published, memory, connected, clock, fits, contended, undone>>

(* Training *********************************************************************)
Begin(t) ==
    /\ Is(t, "idle") /\ clock < MaxClock
    /\ job' = [job EXCEPT ![t].at = "fit", ![t].want = clock]
    /\ contended' = (contended \/ \E u \in Trainers : Training(u))
    /\ undone' = undone \ {t}
    /\ UNCHANGED <<disk, published, memory, connected, clock, mishaps, fits>>

(* No database, an unreadable one or too few rows: retrain_from_baselines skips. *)
TooFewRows(t) ==
    /\ t \in Trainers /\ Is(t, "fit")
    /\ Done(t)
    /\ UNCHANGED <<disk, published, memory, connected, clock, mishaps, fits, contended, undone>>

(* Hot reload *******************************************************************)
(* Broken variant: a GET that fails counts as v1.0, as it does at startup. *)
PollFallsBack ==
    /\ Is("reload", "sleeping") /\ connected /\ published # Unset
    /\ \/ /\ job' = [job EXCEPT !["reload"].at = "compare", !["reload"].want = published]
          /\ UNCHANGED mishaps
       \/ /\ Mishap
          /\ job' = [job EXCEPT !["reload"].at = "compare", !["reload"].want = V1]
    /\ UNCHANGED <<disk, published, memory, connected, clock, fits, contended, undone>>

(* A GET that fails, or finds no version, is tried again after the interval. *)
Poll ==
    /\ Is("reload", "sleeping") /\ connected /\ published # Unset
    /\ job' = [job EXCEPT !["reload"].at = "compare", !["reload"].want = published]
    /\ UNCHANGED <<disk, published, memory, connected, clock, mishaps, fits, contended, undone>>

(* Broken variant: only a newer version is loaded. *)
CompareNewerOnly ==
    /\ Is("reload", "compare")
    /\ IF job["reload"].want <= memory.version THEN Done("reload") ELSE Goto("reload", "data")
    /\ UNCHANGED <<disk, published, memory, connected, clock, mishaps, fits, contended, undone>>

Compare ==
    /\ Is("reload", "compare")
    /\ IF job["reload"].want = memory.version THEN Done("reload") ELSE Goto("reload", "data")
    /\ UNCHANGED <<disk, published, memory, connected, clock, mishaps, fits, contended, undone>>

(* The world ********************************************************************)
Tick ==
    /\ clock < MaxClock
    /\ clock' = clock + 1
    /\ UNCHANGED <<disk, published, memory, connected, job, mishaps, fits, contended, undone>>

Kill ==
    /\ ~Is("main", "off") /\ Mishap
    /\ Stopped
    /\ UNCHANGED <<disk, published, clock, fits, contended>>

StartupStep == Connect \/ ReadTarget
LoadStep(a) == ReadModel(a) \/ CheckSignature(a) \/ Install(a)
TrainStep(a) ==
    \/ Fit(a) \/ NameFile(a) \/ ReadEntry(a) \/ WriteModel(a) \/ WriteSignature(a)
    \/ ReadVersion(a) \/ SetVersion(a)
ReloadStep == Poll \/ Compare \/ LoadStep("reload")
Failure(a) == SaveFails(a) \/ SetFails(a)

AnNext ==
    \/ StartupStep \/ ConnectFails \/ ReadTargetFails
    \/ LoadStep("main") \/ ReloadStep
    \/ \E a \in Threads : TrainStep(a) \/ Failure(a)
    \/ \E t \in Trainers : Begin(t) \/ TooFewRows(t)
    \/ Tick \/ Kill

AnSpec == AnInit /\ [][AnNext]_anVars
-----------------------------------------------------------------------------
Bundles == [estimator : 0 .. fits, version : {Unset} \cup Versions, scale : 0 .. fits,
            copy : {0} \cup Copies]
Places == {"off", "target", "data", "signature", "install", "fit", "path", "estimator", "version",
           "scale", "model", "sign", "label", "set", "serving", "sleeping", "compare", "idle"}

AnTypeOK ==
    /\ {pkl[v] : v \in Versions} \cup {sig[v] : v \in Versions} \cup {memory} \subseteq Bundles
    /\ resaved \in [Versions -> {"no", "unsigned", "signed"}]
    /\ published \in {Unset} \cup Versions
    /\ job \in [Threads -> [at : Places, want : {Unset} \cup Versions,
                            name : {Unset} \cup Versions, held : Bundles]]
    /\ {connected, contended} \subseteq BOOLEAN /\ undone \subseteq Trainers
    /\ clock \in 1 .. MaxClock /\ mishaps \in 0 .. MaxMishaps /\ fits \in Nat

(* Whatever is killed, fails or is reloaded half-way, the version in Redis has a *)
(* file of that name and of one fit, and one that load accepts, save between    *)
(* the two writes - for good, if the second fails - of a training that hot      *)
(* reload gave the published model back before it saved.  So it is as long as   *)
(* no two trainings are at work at once and none fits while hot reload works on *)
(* an older answer of Redis.                                                  *)
PublishedPairIsConsistent ==
    LET file == pkl[published]
    IN  ~contended /\ published # Unset =>
            /\ file.version = published /\ file.estimator = file.scale /\ file # Nothing
            /\ resaved[published] # "unsigned" => file = sig[published]

(* "The model file is written to disk before this key is updated - so readers   *)
(* always see a consistent (version, file) pair", and "race conditions are not a *)
(* concern" (src/docs/data-model/REDIS_PATTERNS.md:133): the version in Redis    *)
(* has a file, of that version.                                               *)
ReadersSeeAPair ==
    published # Unset => pkl[published].version = published

(* The version in Redis never goes back to an older one, whatever startup finds *)
(* and whatever hot reload puts back into memory, with three exceptions: two     *)
(* trainings overlap; a single one fits while hot reload works on an older       *)
(* answer of Redis and installs it afterwards; v1.0 was saved a second time,     *)
(* and a startup that cannot read Redis finds it not signed and trains it anew. *)
NeverPublishedBackwards ==
    [][~contended /\ resaved[V1] = "no" => published' >= published]_anVars

(* A retrain publishes the version it trained, or - when hot reload put the     *)
(* published model back over it in the meantime - the version that is already   *)
(* published.  It publishes a third only if another training overlaps with it   *)
(* or if hot reload, when it fitted, was at work on an older answer of Redis.   *)
RetrainTakesHold ==
    \A t \in Trainers :
        Is(t, "set") /\ ~contended =>
            \/ job[t].name = job[t].want
            \/ t \in undone /\ job[t].name = published

(* Once started, and once trainings and mishaps have ended, the service stays up *)
(* and scores with the model Redis names, if it has a Redis client and Redis a  *)
(* version whose file is signed: a model that was not saved or not published    *)
(* does not stay in use, unless a save of the published one was cut in two.     *)
OnPublished ==
    /\ Is("main", "serving")
    /\ connected /\ published # Unset /\ pkl[published] = sig[published]
          => memory = InMemory(pkl[published])
ModelSettles == [](~Is("main", "off") => <>[](contended \/ OnPublished))
=============================================================================
