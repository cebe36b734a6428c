------------------------------ MODULE Lifecycle ------------------------------
(***************************************************************************)
(* The processes of a php-fpm with the extension on, from its start to its *)
(* end: skywalking.c (MINIT, MSHUTDOWN), src/src/sky_core_module.c:38-96   *)
(* and the start and end of the reporter in grpc.rs.  MINIT makes the      *)
(* queue, forks the reporter and gives it the names under which it         *)
(* registers; the workers are forked later and put the names in segments.  *)
(* php-fpm runs MINIT before it goes to the background, and a reload       *)
(* executes the master anew, MINIT included, as the same process.          *)
(***************************************************************************)
EXTENDS Integers

CONSTANTS
    Workers,     \* the places for worker processes
    Services,    \* values of skywalking.service
    Tails,       \* what the heap holds behind a text without a zero byte
    MaxStarts    \* bound on how often php-fpm is started or reloaded

ASSUME LifecycleAssumption == MaxStarts \in Nat /\ Services # {}

Start == 1..MaxStarts

\* Instance ids: the one generated at a start, or the empty string.
Empty == <<>>
Instance == {Empty} \union (Start \X Tails)

VARIABLES
    daemonize,   \* php-fpm goes to the background
    ini,         \* php.ini: skywalking.service, and if service_instance is set
    master,      \* "starting", "started", "serving" or "gone"
    start,       \* number of the current start
    real_service_instance,   \* that global, in the master
    reporters,   \* the reporter of each start
    orphaned,    \* the starts whose process, their reporter's parent, is gone
    workers,     \* a worker's start, and its values of the globals
    segment      \* the last segment that was sent, or NoSegment

vars == <<daemonize, ini, master, start, real_service_instance, reporters, orphaned, workers, segment>>

reporterless == <<daemonize, ini, master, start, real_service_instance, orphaned, workers, segment>>

NoReporter == [state |-> "none", watched |-> FALSE, late |-> FALSE]
NoWorker == [start |-> 0]
NoSegment == [start |-> 0]

Init ==
    /\ daemonize \in BOOLEAN
    /\ ini \in [service : Services, named : BOOLEAN]
    /\ master = "starting" /\ start = 0
    /\ real_service_instance = Empty
    /\ reporters = [g \in Start |-> NoReporter]
    /\ orphaned = {}
    /\ workers = [w \in Workers |-> NoWorker]
    /\ segment = NoSegment

-----------------------------------------------------------------------------
\* The id is generated only if php.ini has none, and otherwise stays as
\* php_skywalking_init_globals left it.  Its copy has no room for a zero byte:
\* it goes on with a tail of the heap, the same in every process forked later,
\* for the copy of 44 to 52 bytes fills no chunk and nobody writes behind it.
RealInstance(g) ==
    IF ini.named THEN {Empty} ELSE {<<g, tail>> : tail \in Tails}

\* Mutant of Given: the option is passed on, which may be empty.
GivenOption(instance) == [service |-> ini.service, instance |-> Empty]

\* What the reporter gets: thread_sky_core_report_new.
Given(instance) == [service |-> ini.service, instance |-> instance]

\* MINIT.  Without a queue, or when fork fails, there is no reporter.
ModuleInit ==
    /\ master = "starting" /\ start < MaxStarts
    /\ master' = "started"
    /\ start' = start + 1
    /\ real_service_instance' \in RealInstance(start + 1)
    /\ \/ reporters' = [reporters EXCEPT ![start + 1] =
              [state |-> "forked", watched |-> FALSE, late |-> FALSE,
               names |-> Given(real_service_instance')]]
       \/ UNCHANGED reporters
    /\ UNCHANGED <<daemonize, ini, orphaned, workers, segment>>

\* Mutant of WatchParent: the reporter does not ask for a signal.
WatchNobody(g) ==
    /\ reporters[g].state = "forked"
    /\ reporters' = [reporters EXCEPT ![g].state = "watching"]

\* The reporter's prctl: too late for a parent that is gone already.
WatchParent(g) ==
    /\ reporters[g].state = "forked"
    /\ reporters' = [reporters EXCEPT ![g].state = "watching",
                                      ![g].watched = g \notin orphaned, ![g].late = g \in orphaned]

\* grpc::init starts the tasks.
Serve(g) ==
    /\ reporters[g].state = "watching"
    /\ reporters' = [reporters EXCEPT ![g].state = "serving"]

\* Mutant of InitFails: no exit follows, and the reporter goes on as php-fpm.
InitReturns(g) ==
    /\ reporters[g].state = "watching"
    /\ reporters' = [reporters EXCEPT ![g].state = "master"]

\* Names that are not UTF-8, no runtime, no log file: the reporter exits.
InitFails(g) ==
    /\ reporters[g].state = "watching"
    /\ reporters' = [reporters EXCEPT ![g].state = "gone"]

\* The kernel's SIGTERM, and the end of worker().
Terminated(g) ==
    /\ reporters[g].watched /\ g \in orphaned /\ reporters[g].state # "gone"
    /\ reporters' = [reporters EXCEPT ![g].state = "gone"]

ReporterStep ==
    /\ \E g \in Start : WatchParent(g) \/ Serve(g) \/ InitFails(g) \/ Terminated(g)
    /\ UNCHANGED reporterless

-----------------------------------------------------------------------------
\* php-fpm begins to serve: from the background as a child of this process,
\* which exits.
BeginsToServe ==
    /\ master = "started"
    /\ master' = "serving"
    /\ orphaned' = IF daemonize THEN orphaned \union {start} ELSE orphaned
    /\ UNCHANGED <<daemonize, ini, start, real_service_instance, reporters, workers, segment>>

\* The master forks a worker, for a pool that may have a service of its own.
ForkWorker(w) ==
    /\ master = "serving" /\ workers[w] = NoWorker
    /\ \E service \in Services :
          workers' = [workers EXCEPT ![w] =
              [start |-> start, pool |-> service, service |-> service, instance |-> real_service_instance]]
    /\ UNCHANGED <<daemonize, ini, master, start, real_service_instance, reporters, orphaned, segment>>

\* ini_set("skywalking.service", ...) in a script.
IniSet(w) ==
    /\ workers[w] # NoWorker
    /\ \E service \in Services : workers' = [workers EXCEPT ![w].service = service]
    /\ UNCHANGED <<daemonize, ini, master, start, real_service_instance, reporters, orphaned, segment>>

\* RSHUTDOWN puts the names in the segment; then PHP restores the option.
RequestFree(w) ==
    /\ workers[w] # NoWorker
    /\ segment' = [start |-> workers[w].start,
                   names |-> [service |-> workers[w].service, instance |-> workers[w].instance],
                   renamed |-> workers[w].service # ini.service]
    /\ workers' = [workers EXCEPT ![w].service = workers[w].pool]
    /\ UNCHANGED <<daemonize, ini, master, start, real_service_instance, reporters, orphaned>>

\* A worker ends, with MSHUTDOWN, which frees only memory of its own.
WorkerEnds(w) ==
    /\ workers[w] # NoWorker
    /\ workers' = [workers EXCEPT ![w] = NoWorker]
    /\ UNCHANGED <<daemonize, ini, master, start, real_service_instance, reporters, orphaned, segment>>

\* The master has ended its workers and executes itself; php.ini may be
\* another one now.
Reload ==
    /\ master = "serving" /\ \A w \in Workers : workers[w] = NoWorker
    /\ master' = "starting"
    /\ ini' \in [service : Services, named : BOOLEAN]
    /\ real_service_instance' = Empty
    /\ UNCHANGED <<daemonize, start, reporters, orphaned, workers, segment>>

\* The master ends, or is killed, at any time: its workers may live on.
MasterEnds ==
    /\ master # "gone"
    /\ master' = "gone"
    /\ orphaned' = 1..start
    /\ UNCHANGED <<daemonize, ini, start, real_service_instance, reporters, workers, segment>>

Next ==
    \/ ModuleInit
    \/ ReporterStep
    \/ BeginsToServe
    \/ \E w \in Workers : ForkWorker(w) \/ IniSet(w) \/ RequestFree(w) \/ WorkerEnds(w)
    \/ Reload
    \/ MasterEnds

Spec == Init /\ [][Next]_vars

\* The reporter runs on until it waits for SIGTERM, and the kernel delivers it.
Fairness ==
    \A g \in Start : /\ WF_vars(WatchParent(g) /\ UNCHANGED reporterless)
                     /\ WF_vars(Terminated(g) /\ UNCHANGED reporterless)

FairSpec == Spec /\ Fairness

-----------------------------------------------------------------------------
Names == [service : Services, instance : Instance]

TypeOK ==
    /\ daemonize \in BOOLEAN /\ ini \in [service : Services, named : BOOLEAN]
    /\ master \in {"starting", "started", "serving", "gone"}
    /\ start \in 0..MaxStarts /\ real_service_instance \in Instance
    /\ orphaned \subseteq 1..start
    /\ \A g \in Start :
          \/ reporters[g] = NoReporter
          \/ reporters[g] \in [state : {"forked", "watching", "serving", "gone"}, watched : BOOLEAN,
                               late : BOOLEAN, names : Names]
    /\ \A w \in Workers :
          \/ workers[w] = NoWorker
          \/ workers[w] \in [start : 1..start, pool : Services, service : Services, instance : Instance]
    /\ \/ segment = NoSegment
       \/ segment \in [start : 1..start, names : Names, renamed : BOOLEAN]

\* A segment names the instance that the reporter at the other end of its
\* worker's queue registers, and its service too unless the pool or the script
\* has given it another one: through failed starts, reloads with another
\* php.ini, and workers that outlive their master.  With
\* skywalking.service_instance set, both are the empty string
\* (sky_core_module.c:38-61, 186-187; skywalking.c:84).
SegmentsNameTheirReporter ==
    segment # NoSegment /\ reporters[segment.start] # NoReporter =>
        LET names == reporters[segment.start].names
        IN  /\ segment.names.instance = names.instance
            /\ segment.renamed \/ segment.names.service = names.service

\* A reporter whose parent is gone ends, unless the parent was gone before the
\* reporter asked for its signal (sky_core_module.c:78-84).  The parent is the
\* process that ran MINIT: in the background the reporter ends as soon as
\* php-fpm begins to serve, and in the foreground that of a start before a
\* reload stays, beside the new one.
ReportersEnd ==
    \A g \in Start : g \in orphaned ~>
        (reporters[g].state \in {"none", "gone"} \/ reporters[g].late)
=============================================================================
