------------------------------ MODULE Profiles ------------------------------
(***************************************************************************)
(* The order in which models are tried for one language: benchmark runs,    *)
(* the profiles a user makes of their rankings and rolls back, and what the  *)
(* classroom and the resident workers then use.  Benchmarks and profiles are rows  *)
(* and outlive a restart; the scoring tasks and the requests of the API do   *)
(* not.  A request reads before its transaction has begun and writes the     *)
(* columns it changed.                                                       *)
(***************************************************************************)
EXTENDS Naturals, Sequences, FiniteSets

CONSTANTS Models, Benchmarks,
          Requests,       \* of the API: threads in update_profile or rollback_profile
          Orders,         \* rankings a report may hold
          Bootstrap,      \* the ranking of the registry
          MaxRequests, MaxRestarts

ASSUME ProfilesAssumption ==
    /\ 0 \notin Benchmarks /\ MaxRequests \in Nat /\ MaxRestarts \in Nat

VARIABLES
    runs,       \* benchmark_runs
    scoring,    \* runs with a task in _benchmark_tasks
    unrecorded, \* runs of this process whose failure could not be stored
    profile,    \* profile_settings of each scenario
    request,    \* what each request has read
    contract,   \* SCORE_CONTRACT_VERSION of the program that runs
    revision,   \* of each model in its registry
    allowed     \* requests and restarts left

profileVars == <<runs, scoring, unrecorded, profile, request, contract, revision, allowed>>

Groups == {"classroom", "ibus"}
Scenarios == {"classroom", "ibus.balanced"}

\* Reports know one scenario for all profiles of dictation; a ranking of it becomes
\* the balanced one.
Group(s) == IF s = "classroom" THEN s ELSE "ibus"

NoRun == 0
Unused == [status |-> "none", real |-> FALSE, contract |-> 0, group |-> "classroom",
           models |-> <<>>, revision |-> [m \in Models |-> 0]]
Bare == [models |-> <<>>, run |-> NoRun]
NoProfile == [models |-> <<>>, run |-> NoRun, history |-> <<>>]
NoRequest == [do |-> "idle", scenario |-> "classroom", run |-> NoRun, read |-> NoProfile]

\* The report of a benchmark about one group; the ranking is empty unless it passed.
Report(g, order, real) ==
    [status |-> IF order = <<>> THEN "failed" ELSE "completed", real |-> real,
     contract |-> contract, group |-> g, models |-> order, revision |-> revision]

\* The report of an evaluation that ran the models themselves (real_model_execution).
RealReport(g, order) == Report(g, order, TRUE)

Pairs == [models : Orders \cup {Bootstrap}, run : Benchmarks \cup {NoRun}]
ProfilesTypeOK ==
    /\ \A r \in Benchmarks : /\ runs[r].status \in {"none", "running", "completed", "failed"}
                       /\ runs[r].status = "completed" => runs[r].models \in Orders
    /\ scoring \subseteq Benchmarks /\ unrecorded \subseteq Benchmarks
    /\ \A s \in Scenarios :
          /\ [models |-> profile[s].models, run |-> profile[s].run] \in Pairs \cup {Bare}
          /\ profile[s].history \in Seq(Pairs)
    /\ contract \in 1..(1 + MaxRestarts) /\ revision \in [Models -> 1..(1 + MaxRestarts)]

ProfilesInit ==
    /\ contract = 1 /\ revision = [m \in Models |-> 1]
    /\ runs \in [Benchmarks -> {Unused} \cup {RealReport(g, o) : g \in Groups, o \in Orders}]
    /\ scoring = {} /\ unrecorded = {} /\ profile = [s \in Scenarios |-> NoProfile]
    /\ request = [q \in Requests |-> NoRequest]
    /\ allowed = [requests |-> MaxRequests, restarts |-> MaxRestarts]

-----------------------------------------------------------------------------
\* _create_benchmark_locked: a row, and a task that scores in a thread.
CreateBenchmark(r) ==
    /\ runs[r] = Unused /\ allowed.requests > 0
    /\ runs' = [runs EXCEPT ![r].status = "running"] /\ scoring' = scoring \cup {r}
    /\ allowed' = [allowed EXCEPT !.requests = @ - 1]
    /\ UNCHANGED <<unrecorded, profile, request, contract, revision>>

\* score: a report of files never counts as the execution of models; if it cannot
\* be made or stored, the run has failed, in a transaction of its own that may fail too:
\* the task ends all the same, and only the log is told.
Score(r) ==
    /\ r \in scoring /\ runs[r].status = "running"
    /\ \/ \E g \in Groups, o \in Orders \cup {<<>>} :
            runs' = [runs EXCEPT ![r] = Report(g, o, FALSE)] /\ UNCHANGED unrecorded
       \/ runs' = [runs EXCEPT ![r].status = "failed"] /\ UNCHANGED unrecorded
       \/ unrecorded' = unrecorded \cup {r} /\ UNCHANGED runs
    /\ scoring' = scoring \ {r}
    /\ UNCHANGED <<profile, request, contract, revision, allowed>>

-----------------------------------------------------------------------------
\* What update_profile and the classroom ask of a run, and what the resident workers do.
ReleaseEligible(r) == runs[r].status = "completed" /\ runs[r].real /\ runs[r].contract = contract
ResidentEligible(r) == runs[r].status = "completed" /\ runs[r].real

\* The ranking of the run for the scenario, and calibrations of the installed revisions.
Calibrated(r, s, order) ==
    /\ runs[r].group = Group(s) /\ runs[r].models = order
    /\ \A i \in DOMAIN order : runs[r].revision[order[i]] = revision[order[i]]

Starts(q, do, s, r) ==
    /\ request[q] = NoRequest /\ allowed.requests > 0
    /\ request' = [request EXCEPT ![q] = [do |-> do, scenario |-> s, run |-> r, read |-> profile[s]]]
    /\ allowed' = [allowed EXCEPT !.requests = @ - 1]
    /\ UNCHANGED <<runs, scoring, unrecorded, profile, contract, revision>>

UpdateProfile(q, s, r) ==
    ReleaseEligible(r) /\ Calibrated(r, s, runs[r].models) /\ Starts(q, "update", s, r)

\* apply_ranking of a run is the update of the profile its group stands for.
ApplyRanking(q, r) ==
    \E s \in Scenarios : Group(s) = runs[r].group /\ UpdateProfile(q, s, r)

Rollback(q, s) ==
    profile[s] # NoProfile /\ profile[s].history # <<>> /\ Starts(q, "rollback", s, NoRun)

\* The list a request puts in place, and the history below it.
Previous(read) == [models |-> read.models, run |-> read.run]
First == [models |-> Bootstrap, run |-> NoRun]
Chosen(q) ==
    LET read == request[q].read
        past == read.history
    IN  IF request[q].do = "update"
        THEN [models |-> runs[request[q].run].models, run |-> request[q].run,
              history |-> Append(past, IF read = NoProfile THEN First ELSE Previous(read))]
        ELSE [models |-> past[Len(past)].models, run |-> past[Len(past)].run,
              history |-> SubSeq(past, 1, Len(past) - 1)]

\* The first row of a scenario is inserted, and two of them collide.
Collides(q) == request[q].read = NoProfile /\ profile[request[q].scenario] # NoProfile

\* The models and the history are one column, the run is another.
Written(q) ==
    LET s == request[q].scenario
        run == IF Chosen(q).run = request[q].read.run THEN profile[s].run ELSE Chosen(q).run
    IN  [profile EXCEPT ![s] = [Chosen(q) EXCEPT !.run = run]]
CommitProfile(q) ==
    /\ request[q] # NoRequest
    /\ profile' = IF Collides(q) THEN profile ELSE Written(q)
    /\ request' = [request EXCEPT ![q] = NoRequest]
    /\ UNCHANGED <<runs, scoring, unrecorded, contract, revision, allowed>>

-----------------------------------------------------------------------------
\* recover_background_jobs at the start: nothing scores any more.
Recovered == [r \in Benchmarks |->
    IF runs[r].status = "running" THEN [runs[r] EXCEPT !.status = "failed"] ELSE runs[r]]

\* The program ends, killed or not, and starts again, as it was or as a newer one.
RestartProgram ==
    /\ allowed.restarts > 0 /\ allowed' = [allowed EXCEPT !.restarts = @ - 1]
    /\ runs' = Recovered /\ scoring' = {} /\ unrecorded' = {} /\ request' = [q \in Requests |-> NoRequest]
    /\ \/ UNCHANGED <<contract, revision>>
       \/ contract' = contract + 1 /\ UNCHANGED revision
       \/ \E m \in Models : revision' = [revision EXCEPT ![m] = @ + 1] /\ UNCHANGED contract
    /\ UNCHANGED profile

ProfilesNext ==
    \/ \E r \in Benchmarks : CreateBenchmark(r) \/ Score(r)
    \/ \E q \in Requests : \/ CommitProfile(q)
                           \/ \E r \in Benchmarks : ApplyRanking(q, r)
                           \/ \E s \in Scenarios : Rollback(q, s)
    \/ RestartProgram

-----------------------------------------------------------------------------
\* _local_profile and _profile_ranking: the profile is used while its evidence holds.
LocalProfile(s) ==
    /\ profile[s].run # NoRun /\ ReleaseEligible(profile[s].run)
    /\ Calibrated(profile[s].run, s, profile[s].models)
ProfileRanking(s) ==
    /\ profile[s].run # NoRun /\ ResidentEligible(profile[s].run)
    /\ Calibrated(profile[s].run, s, profile[s].models)
ClassroomOrder == IF LocalProfile("classroom") THEN profile["classroom"].models ELSE Bootstrap
DictationOrder(s) == IF ProfileRanking(s) THEN profile[s].models ELSE Bootstrap
Used(s) == IF s = "classroom" THEN ClassroomOrder ELSE DictationOrder(s)

\* Rolling back as far as it goes leads to the list of the registry, also after
\* requests that overwrote each other.
BootstrapReachable ==
    \A s \in Scenarios :
        LET row == profile[s] IN
        row # NoProfile => IF row.history = <<>> THEN row.models = Bootstrap
                           ELSE row.history[1].models = Bootstrap

\* A run is shown as running only while something scores it, or where neither its report
\* nor its failure could be stored by the process that runs: the next start leaves none
\* (service.py:1983).
NoPhantomRun == \A r \in Benchmarks : runs[r].status = "running" => r \in scoring \cup unrecorded

\* Known to fail, with nine requests: the list of the registry names no run as its
\* evidence, yet requests that overwrite each other leave it with the run of another list.
RegistryNamesNoRun ==
    \A s \in Scenarios :
        profile[s].history # <<>> => profile[s].history[1] = First

\* Known to fail: every change of a profile keeps the list it replaces for a rollback
\* (docs/benchmark.md:99), yet two requests may both have read the one before.
PreviousKept ==
    [][\A s \in Scenarios :
          LET row == profile[s] IN
          (row # NoProfile /\ profile'[s] # row) =>
              \/ profile'[s].history = Append(row.history, Previous(row))
              \/ Append(profile'[s].history, Previous(profile'[s])) = row.history]_profileVars

\* Known to fail: a ranking of an older scoring contract does not choose models until
\* it was evaluated again (docs/benchmark.md:137), yet the resident workers do not ask.
OldContractUnused ==
    \A s \in Scenarios : Used(s) # Bootstrap => runs[profile[s].run].contract = contract
=============================================================================
