--------------------------- MODULE LifecycleProofs ---------------------------
(* The names of a php-fpm, for any number of workers, services, starts and    *)
(* whatever the heap holds behind the instance id: a segment names the        *)
(* instance that its reporter registers.                                      *)
EXTENDS Lifecycle, TLAPS

USE LifecycleAssumption DEF LifecycleAssumption

ReporterType ==
    [state : {"forked", "watching", "serving", "gone"}, watched : BOOLEAN,
     late : BOOLEAN, names : Names]

WorkerType == [start : 1..start, pool : Services, service : Services, instance : Instance]

\* Workers live under the start they were forked in: php-fpm starts anew only
\* when it has none.
WorkersInv ==
    /\ master \in {"starting", "started"} => \A w \in Workers : workers[w] = NoWorker
    /\ \A w \in Workers : workers[w] # NoWorker =>
          /\ workers[w].start = start
          /\ workers[w].instance = real_service_instance

\* As long as workers can be forked or live, php.ini is the one under which
\* their reporter was named.
NamesInv ==
    /\ \A g \in Start : g > start => reporters[g] = NoReporter
    /\ master \in {"started", "serving"} \/ (\E w \in Workers : workers[w] # NoWorker) =>
          /\ start \in Start
          /\ reporters[start] # NoReporter =>
                reporters[start].names = [service |-> ini.service, instance |-> real_service_instance]

IInv ==
    /\ TypeOK
    /\ DOMAIN reporters = Start /\ DOMAIN workers = Workers
    /\ WorkersInv
    /\ NamesInv
    /\ SegmentsNameTheirReporter

LEMMA InitIInv == Init => IInv
BY DEF Init, IInv, TypeOK, WorkersInv, NamesInv, SegmentsNameTheirReporter, Instance, Start

\* What a reporter's own steps leave alone.
LEMMA ReporterChanges ==
    ASSUME TypeOK, DOMAIN reporters = Start, NEW g \in Start,
           WatchParent(g) \/ Serve(g) \/ InitFails(g) \/ Terminated(g)
    PROVE  /\ DOMAIN reporters' = Start
           /\ \A h \in Start : h # g => reporters'[h] = reporters[h]
           /\ reporters[g] \in ReporterType /\ reporters'[g] \in ReporterType
           /\ reporters'[g].names = reporters[g].names
<1>1. reporters[g] \in ReporterType
  BY DEF TypeOK, ReporterType, NoReporter, WatchParent, Serve, InitFails, Terminated
<1>2. PICK r : reporters' = [reporters EXCEPT ![g] = r] /\
               \/ r = [reporters[g] EXCEPT !.state = "watching", !.watched = g \notin orphaned,
                                           !.late = g \in orphaned]
               \/ r = [reporters[g] EXCEPT !.state = "serving"]
               \/ r = [reporters[g] EXCEPT !.state = "gone"]
  BY DEF WatchParent, Serve, InitFails, Terminated
<1>3. r \in ReporterType /\ r.names = reporters[g].names
  <2>1. \A a, b \in BOOLEAN :
            /\ [reporters[g] EXCEPT !.state = "watching", !.watched = a, !.late = b] \in ReporterType
            /\ [reporters[g] EXCEPT !.state = "watching", !.watched = a, !.late = b].names
                   = reporters[g].names
    BY <1>1 DEF ReporterType
  <2>2. (g \notin orphaned) \in BOOLEAN /\ (g \in orphaned) \in BOOLEAN
    OBVIOUS
  <2>3. /\ [reporters[g] EXCEPT !.state = "serving"] \in ReporterType
        /\ [reporters[g] EXCEPT !.state = "serving"].names = reporters[g].names
        /\ [reporters[g] EXCEPT !.state = "gone"] \in ReporterType
        /\ [reporters[g] EXCEPT !.state = "gone"].names = reporters[g].names
    BY <1>1 DEF ReporterType
  <2>4. QED
    BY <1>2, <2>1, <2>2, <2>3
<1>4. QED
  BY <1>1, <1>2, <1>3

\* A record with names is none of the two records without.
LEMMA Proper ==
    /\ \A r \in ReporterType : r # NoReporter
    /\ \A w \in WorkerType : w # NoWorker
BY DEF ReporterType, NoReporter, WorkerType, NoWorker, TypeOK

\* A worker that is forked, or changes the service of its pool or back.
LEMMA WorkerChanges ==
    ASSUME TypeOK, DOMAIN workers = Workers, NEW w \in Workers, master \in {"serving", "gone"},
           WorkersInv, NamesInv,
           ForkWorker(w) \/ IniSet(w) \/ RequestFree(w) \/ WorkerEnds(w)
    PROVE  /\ DOMAIN workers' = Workers
           /\ \A v \in Workers : v # w => workers'[v] = workers[v]
           /\ \/ workers'[w] = NoWorker
              \/ /\ workers'[w] \in WorkerType /\ workers'[w].start = start
                 /\ workers'[w].instance = real_service_instance
<1>1. workers[w] # NoWorker => /\ workers[w] \in WorkerType /\ workers[w].start = start
                               /\ workers[w].instance = real_service_instance
  BY DEF TypeOK, WorkerType, WorkersInv
<1>2. CASE ForkWorker(w)
  <2>1. PICK service \in Services :
          workers' = [workers EXCEPT ![w] =
             [start |-> start, pool |-> service, service |-> service,
              instance |-> real_service_instance]]
    BY <1>2 DEF ForkWorker
  <2>2. start \in 1..start
    BY <1>2 DEF ForkWorker, NamesInv, Start
  <2>3. QED
    BY <2>1, <2>2 DEF WorkerType, TypeOK
<1>3. CASE IniSet(w) \/ RequestFree(w)
  <2>1. PICK service \in Services : workers' = [workers EXCEPT ![w].service = service]
    BY <1>1, <1>3 DEF IniSet, RequestFree, WorkerType
  <2>2. workers[w] \in WorkerType
    BY <1>1, <1>3 DEF IniSet, RequestFree
  <2>3. PICK r : r = [workers[w] EXCEPT !.service = service]
    OBVIOUS
  <2>4. /\ r \in WorkerType /\ r.start = workers[w].start
        /\ r.instance = workers[w].instance
    BY <2>2, <2>3 DEF WorkerType
  <2>5. workers'[w] = r
    BY <2>1, <2>3
  <2>6. QED
    BY <1>1, <1>3, <2>1, <2>4, <2>5 DEF IniSet, RequestFree
<1>4. CASE WorkerEnds(w)
  BY <1>4 DEF WorkerEnds
<1>5. QED
  BY <1>2, <1>3, <1>4

LEMMA StepIInv == IInv /\ [Next]_vars => IInv'
<1> SUFFICES ASSUME IInv, [Next]_vars PROVE IInv'
  OBVIOUS
<1>0. /\ TypeOK /\ DOMAIN reporters = Start /\ DOMAIN workers = Workers
      /\ WorkersInv /\ NamesInv /\ SegmentsNameTheirReporter
  BY DEF IInv
<1>1. CASE ModuleInit
  <2>1. /\ master = "starting" /\ master' = "started" /\ start' = start + 1 /\ start \in Nat
        /\ start + 1 \in Start /\ real_service_instance' \in RealInstance(start + 1)
        /\ UNCHANGED <<daemonize, ini, orphaned, workers, segment>>
    BY <1>0, <1>1 DEF ModuleInit, Start, TypeOK
  <2>2. real_service_instance' \in Instance
    BY <2>1 DEF RealInstance, Instance
  <2>3. PICK r : r = [state |-> "forked", watched |-> FALSE, late |-> FALSE,
                     names |-> Given(real_service_instance')]
    OBVIOUS
  <2>4. /\ r \in ReporterType
        /\ r.names = [service |-> ini.service, instance |-> real_service_instance']
    BY <1>0, <2>2, <2>3 DEF ReporterType, Given, Names, TypeOK
  <2>5. /\ DOMAIN reporters' = Start
        /\ \A g \in Start : g # start + 1 => reporters'[g] = reporters[g]
        /\ reporters'[start + 1] = NoReporter \/ reporters'[start + 1] = r
    <3>1. reporters[start + 1] = NoReporter
      BY <1>0, <2>1 DEF NamesInv
    <3>2. reporters' = [reporters EXCEPT ![start + 1] = r] \/ reporters' = reporters
      BY <1>1, <2>3 DEF ModuleInit
    <3>3. QED
      BY <1>0, <2>1, <3>1, <3>2
  <2>6. \A w \in Workers : workers'[w] = NoWorker
    BY <1>0, <2>1 DEF WorkersInv
  <2>7. TypeOK'
    <3>1. \A g \in Start : reporters'[g] = NoReporter \/ reporters'[g] \in ReporterType
      BY <1>0, <2>4, <2>5 DEF TypeOK, ReporterType
    <3>2. segment = NoSegment \/ segment \in [start : 1..start', names : Names, renamed : BOOLEAN]
      BY <1>0, <2>1 DEF TypeOK
    <3>3. start' \in 0..MaxStarts /\ orphaned \subseteq 1..start'
      BY <1>0, <2>1 DEF TypeOK, Start
    <3>4. QED
      BY <1>0, <2>1, <2>2, <2>6, <3>1, <3>2, <3>3 DEF TypeOK, ReporterType
  <2>8. WorkersInv'
    BY <2>1, <2>6 DEF WorkersInv
  <2>9. NamesInv'
    BY <1>0, <2>1, <2>4, <2>5 DEF NamesInv, Start
  <2>10. SegmentsNameTheirReporter'
    <3>1. segment # NoSegment => segment.start \in Start /\ segment.start # start + 1
      BY <1>0, <2>1 DEF TypeOK, Start
    <3>2. QED
      BY <1>0, <2>1, <2>5, <3>1 DEF SegmentsNameTheirReporter
  <2>11. QED
    BY <1>0, <2>1, <2>5, <2>7, <2>8, <2>9, <2>10 DEF IInv
<1>2. CASE ReporterStep
  <2>1. UNCHANGED <<daemonize, ini, master, start, real_service_instance, orphaned, workers, segment>>
    BY <1>2 DEF ReporterStep, reporterless
  <2>2. PICK g \in Start : WatchParent(g) \/ Serve(g) \/ InitFails(g) \/ Terminated(g)
    BY <1>2 DEF ReporterStep
  <2>3. /\ DOMAIN reporters' = Start
        /\ \A h \in Start : h # g => reporters'[h] = reporters[h]
        /\ reporters[g] \in ReporterType /\ reporters'[g] \in ReporterType
        /\ reporters'[g].names = reporters[g].names
    BY <1>0, <2>2, ReporterChanges
  <2>4. reporters[g] # NoReporter /\ reporters'[g] # NoReporter
    BY <2>3, Proper
  <2>5. TypeOK'
    BY <1>0, <2>1, <2>3 DEF TypeOK, ReporterType
  <2>6. WorkersInv'
    BY <1>0, <2>1 DEF WorkersInv
  <2>7. NamesInv'
    BY <1>0, <2>1, <2>3, <2>4 DEF NamesInv
  <2>8. SegmentsNameTheirReporter'
    <3>1. segment # NoSegment => segment.start \in Start
      BY <1>0 DEF TypeOK, Start
    <3>2. QED
      BY <1>0, <2>1, <2>3, <2>4, <3>1 DEF SegmentsNameTheirReporter
  <2>9. QED
    BY <1>0, <2>1, <2>3, <2>5, <2>6, <2>7, <2>8 DEF IInv
<1>3. CASE BeginsToServe
  BY <1>0, <1>3 DEF BeginsToServe, IInv, TypeOK, WorkersInv, NamesInv,
                    SegmentsNameTheirReporter, Start
<1>4. ASSUME NEW w \in Workers,
             ForkWorker(w) \/ IniSet(w) \/ RequestFree(w) \/ WorkerEnds(w)
      PROVE  IInv'
  <2>1. UNCHANGED <<daemonize, ini, master, start, real_service_instance, reporters, orphaned>>
    BY <1>4 DEF ForkWorker, IniSet, RequestFree, WorkerEnds
  <2>2. master \in {"serving", "gone"}
    BY <1>0, <1>4 DEF ForkWorker, IniSet, RequestFree, WorkerEnds, WorkersInv, TypeOK
  <2>3. /\ DOMAIN workers' = Workers
        /\ \A v \in Workers : v # w => workers'[v] = workers[v]
        /\ \/ workers'[w] = NoWorker
           \/ /\ workers'[w] \in WorkerType /\ workers'[w].start = start
              /\ workers'[w].instance = real_service_instance
    BY <1>0, <1>4, <2>2, WorkerChanges
  <2>4. WorkersInv'
    BY <1>0, <2>1, <2>2, <2>3 DEF WorkersInv
  <2>5. NamesInv'
    <3>1. master = "serving" \/ (\E v \in Workers : workers[v] # NoWorker)
      BY <1>4 DEF ForkWorker, IniSet, RequestFree, WorkerEnds
    <3>2. QED
      BY <1>0, <2>1, <3>1 DEF NamesInv
  <2>6. /\ segment' = NoSegment \/ segment' \in [start : 1..start, names : Names, renamed : BOOLEAN]
        /\ SegmentsNameTheirReporter'
    <3>1. CASE RequestFree(w)
      <4>1. /\ workers[w] \in WorkerType /\ workers[w].start = start
            /\ workers[w].instance = real_service_instance
            /\ reporters[start] # NoReporter =>
                  reporters[start].names = [service |-> ini.service,
                                            instance |-> real_service_instance]
        BY <1>0, <3>1 DEF RequestFree, TypeOK, WorkerType, WorkersInv, NamesInv
      <4>2. PICK names : names = [service |-> workers[w].service, instance |-> workers[w].instance]
        OBVIOUS
      <4>3. names \in Names
        BY <4>1, <4>2 DEF Names, WorkerType
      <4>4. PICK renamed \in BOOLEAN : renamed = (workers[w].service # ini.service)
        OBVIOUS
      <4>5. segment' = [start |-> start, names |-> names, renamed |-> renamed]
        BY <3>1, <4>1, <4>2, <4>4 DEF RequestFree
      <4>6. start \in 1..start
        BY <4>1 DEF WorkerType
      <4>7. /\ segment' \in [start : 1..start, names : Names, renamed : BOOLEAN]
            /\ segment'.start = start /\ segment'.names = names /\ segment'.renamed = renamed
        BY <4>3, <4>5, <4>6
      <4>8. SegmentsNameTheirReporter'
        BY <2>1, <4>1, <4>2, <4>4, <4>7 DEF SegmentsNameTheirReporter
      <4>9. QED
        BY <4>7, <4>8
    <3>2. CASE ~RequestFree(w)
      <4>1. UNCHANGED segment
        BY <1>4, <3>2 DEF ForkWorker, IniSet, WorkerEnds
      <4>2. QED
        BY <1>0, <2>1, <4>1 DEF TypeOK, SegmentsNameTheirReporter
    <3>3. QED
      BY <3>1, <3>2
  <2>7. TypeOK'
    BY <1>0, <2>1, <2>3, <2>6 DEF TypeOK, WorkerType
  <2>8. QED
    BY <1>0, <2>1, <2>3, <2>4, <2>5, <2>6, <2>7 DEF IInv
<1>5. CASE Reload
  <2>1. \A w \in Workers : workers'[w] = NoWorker
    BY <1>5 DEF Reload
  <2>2. QED
    BY <1>0, <1>5, <2>1 DEF Reload, IInv, TypeOK, WorkersInv, NamesInv,
                            SegmentsNameTheirReporter, Instance
<1>6. CASE MasterEnds
  <2>1. 1..start \subseteq 1..start
    OBVIOUS
  <2>2. QED
    BY <1>0, <1>6, <2>1 DEF MasterEnds, IInv, TypeOK, WorkersInv, NamesInv,
                            SegmentsNameTheirReporter
<1>7. CASE UNCHANGED vars
  BY <1>0, <1>7 DEF vars, IInv, TypeOK, WorkersInv, NamesInv, SegmentsNameTheirReporter
<1>8. QED
  BY <1>1, <1>2, <1>3, <1>4, <1>5, <1>6, <1>7 DEF Next

\* Every state of the processes satisfies the inductive invariant.
THEOREM LifecycleInvariant == Spec => []IInv
<1>1. QED
  BY InitIInv, StepIInv, PTL DEF Spec

\* Processes, names and segments keep to their types.
THEOREM TypeCorrect == Spec => []TypeOK
<1>1. IInv => TypeOK
  BY DEF IInv
<1>2. QED
  BY <1>1, LifecycleInvariant, PTL

\* A segment names the instance that its reporter registers, and the service
\* too unless pool or script have named another.
THEOREM NamesAgree == Spec => []SegmentsNameTheirReporter
<1>1. IInv => SegmentsNameTheirReporter
  BY DEF IInv
<1>2. QED
  BY <1>1, LifecycleInvariant, PTL
=============================================================================
