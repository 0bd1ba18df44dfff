------------------------------ MODULE Services ------------------------------
(***************************************************************************)
(* The supervisor of backend services (eiva-claw-core/src/services): a     *)
(* manager behind a read-write lock, requests of clients and of the model  *)
(* that start, stop and restart a service, and a poller that looks every   *)
(* two seconds for exits, applies the restart policy and probes health.    *)
(*                                                                         *)
(* The lock is held over each request and over a whole round of the poller,*)
(* so requests are atomic here and come only between two rounds; processes *)
(* end at any moment, also between two probes of one round.  Restart       *)
(* counts, logs and MCP tool counts are only shown and left out.           *)
(***************************************************************************)
EXTENDS Integers, Sequences, FiniteSets

CONSTANTS Services,
          Definitions, \* what eiva.toml may say of a service
          Retries,     \* failed probes in a row that make a service unhealthy
          MaxExits     \* bound on the deaths and restarts of the gateway

ASSUME DefinitionsAssumption ==
  Definitions \subseteq [restart : {"never", "on-failure", "always"},
                         check : BOOLEAN, autoStart : BOOLEAN]

ASSUME CountsAssumption == Retries \in Nat \ {0} /\ MaxExits \in Nat

VARIABLES
  def,     \* [Services -> definition], the configuration
  entry,   \* [Services -> what the manager knows of the service]
  child,   \* [Services -> its process: "none", "alive", "clean" or "failed"]
  aged,    \* services whose process is two seconds old
  round,   \* services the poller has still to probe; Idle between two rounds
  gateway, \* "up", or "closing" once shutdown has stopped the services
  strays,  \* [Services -> processes of earlier gateways that live on]
  probes,  \* [Services -> the last Retries probes of the process]
  down,    \* [Services -> why it is down: "asked", "exit", "spawn", "new"; "no"]
  careless,\* services that a gateway left alive when it died, or started while closing
  exits

supervisor == <<entry, child, aged, probes, down>>
vars == <<def, supervisor, round, gateway, strays, careless, exits>>

Idle == <<>>
Statuses == {"stopped", "starting", "running", "unhealthy", "failed"}
Unstarted == [where |-> "configured", status |-> "stopped", failures |-> 0]

Running(s) == entry[s].where = "running"
Shown(s, status, failures) ==
  [where |-> entry[s].where, status |-> status, failures |-> failures]
Started == [where |-> "running", status |-> "starting", failures |-> 0]
Stopped(status) == [where |-> "stopped", status |-> status, failures |-> 0]
-----------------------------------------------------------------------------
(* What an operation makes of one service: entry, process, probes, reason. *)

Outcome(e, c, why) ==
  [entry |-> e, child |-> c, aged |-> FALSE, probes |-> <<>>, down |-> why]
\* The same process, with entry e.
With(s, e, why) == [entry |-> e, child |-> child[s], aged |-> s \in aged,
                    probes |-> probes[s], down |-> why]
Kept(s) == With(s, entry[s], down[s])

Becomes(new) ==
  /\ entry' = [s \in Services |-> new[s].entry]
  /\ child' = [s \in Services |-> new[s].child]
  /\ aged' = {s \in Services : new[s].aged}
  /\ probes' = [s \in Services |-> new[s].probes]
  /\ down' = [s \in Services |-> new[s].down]

Only(s, new) == Becomes([t \in Services |-> IF t = s THEN new ELSE Kept(t)])

Up == Outcome(Started, "alive", "no")

\* start: a failed spawn leaves what was known of the service as it was.
StartOutcome(s, spawned) ==
  IF spawned THEN Up ELSE With(s, entry[s], "spawn")

\* Mutant: the process is not killed.
StopForgets == Outcome(Stopped("stopped"), "alive", "asked")

StopOutcome == Outcome(Stopped("stopped"), "none", "asked")

\* restart: stop, then start.
RestartOutcome(s, spawned) ==
  IF spawned THEN Up
  ELSE IF Running(s) THEN Outcome(Stopped("stopped"), "none", "spawn")
  ELSE StartOutcome(s, FALSE)

\* Mutant: on-failure restarts after a clean exit.
RestartsOnClean(s) == \/ def[s].restart = "always"
                      \/ def[s].restart = "on-failure" /\ child[s] = "clean"

ShouldRestart(s) == \/ def[s].restart = "always"
                    \/ def[s].restart = "on-failure" /\ child[s] = "failed"

\* Mutant: the new process inherits the failed probes of the old one.
RespawnKeepsFailures(s) ==
  [Up EXCEPT !.entry.failures = entry[s].failures]

\* poll, for a process that exited and is started again.
Respawn(s) == Up

\* Mutant: only services that were well are looked at.
PolledWell(s) == Running(s) /\ entry[s].status # "unhealthy"

Polled(s) == Running(s)

AliveOutcome(s) ==
  IF entry[s].status = "starting" /\ ~def[s].check /\ s \in aged
  THEN With(s, Shown(s, "running", entry[s].failures), down[s]) ELSE Kept(s)

ExitOutcome(s, spawned) ==
  IF ~ShouldRestart(s)
  THEN Outcome(Stopped(IF child[s] = "clean" THEN "stopped" ELSE "failed"), "none", "exit")
  ELSE IF spawned THEN Respawn(s) ELSE Outcome(Stopped("failed"), "none", "spawn")

PollOutcome(s, spawned) == IF ~Polled(s) THEN Kept(s)
                           ELSE IF child[s] = "alive" THEN AliveOutcome(s)
                           ELSE ExitOutcome(s, spawned)

\* The last Retries probes.
Recent(seen, healthy) ==
  IF Len(seen) < Retries THEN Append(seen, healthy) ELSE Append(Tail(seen), healthy)

\* run_health_checks, for one service.  The count goes on beyond Retries, which
\* makes no difference.
ProbeOutcome(s, healthy) ==
  LET failures == IF healthy THEN 0
                  ELSE IF entry[s].failures < Retries THEN entry[s].failures + 1
                  ELSE Retries
      status == IF healthy THEN "running"
                ELSE IF failures >= Retries THEN "unhealthy" ELSE entry[s].status
  IN [entry |-> Shown(s, status, failures), child |-> child[s], aged |-> s \in aged,
      probes |-> Recent(probes[s], healthy), down |-> down[s]]
-----------------------------------------------------------------------------
\* auto_start_all, with every spawn failing or not.
AutoStarted(definitions, spawned) ==
  [s \in Services |->
     IF ~definitions[s].autoStart THEN Outcome(Unstarted, "none", "new")
     ELSE IF s \in spawned THEN Up ELSE Outcome(Unstarted, "none", "spawn")]

Init == \E d \in [Services -> Definitions], spawned \in SUBSET Services :
          /\ def = d
          /\ LET new == AutoStarted(d, spawned)
             IN /\ entry = [s \in Services |-> new[s].entry]
                /\ child = [s \in Services |-> new[s].child]
                /\ probes = [s \in Services |-> new[s].probes]
                /\ down = [s \in Services |-> new[s].down]
          /\ aged = {}
          /\ round = Idle /\ gateway = "up"
          /\ strays = [s \in Services |-> 0]
          /\ careless = {} /\ exits = 0

Start(s, spawned) ==
  /\ round = Idle
  /\ ~Running(s)
  /\ Only(s, StartOutcome(s, spawned))
  /\ careless' = IF gateway = "closing" /\ spawned THEN careless \cup {s} ELSE careless
  /\ UNCHANGED <<def, round, gateway, strays, exits>>

Stop(s) ==
  /\ round = Idle
  /\ Running(s)
  /\ Only(s, StopOutcome)
  /\ UNCHANGED <<def, round, gateway, strays, careless, exits>>

Restart(s, spawned) ==
  /\ round = Idle
  /\ Only(s, RestartOutcome(s, spawned))
  /\ careless' = IF gateway = "closing" /\ spawned THEN careless \cup {s} ELSE careless
  /\ UNCHANGED <<def, round, gateway, strays, exits>>

\* Mutant: what is probed is chosen among all services.
PollAllChecked ==
  /\ round = Idle
  /\ \E spawned \in SUBSET Services :
       Becomes([s \in Services |-> PollOutcome(s, s \in spawned)])
  /\ round' = <<{s \in Services : def[s].check}>>
  /\ UNCHANGED <<def, gateway, strays, careless, exits>>

Poll ==
  /\ round = Idle
  /\ \E spawned \in SUBSET Services :
       Becomes([s \in Services |-> PollOutcome(s, s \in spawned)])
  /\ round' = <<{s \in Services : entry'[s].where = "running" /\ def[s].check}>>
  /\ UNCHANGED <<def, gateway, strays, careless, exits>>

\* What answers at the address need not be the process of the service.
Probe(s, healthy) ==
  /\ round # Idle /\ s \in round[1]
  /\ Only(s, ProbeOutcome(s, healthy))
  /\ round' = <<round[1] \ {s}>>
  /\ UNCHANGED <<def, gateway, strays, careless, exits>>

EndRound ==
  /\ round = <<{}>>
  /\ round' = Idle
  /\ UNCHANGED <<def, supervisor, gateway, strays, careless, exits>>

ChildExits(s, how) ==
  /\ child[s] = "alive"
  /\ child' = [child EXCEPT ![s] = how]
  /\ aged' = aged \ {s}
  /\ UNCHANGED <<def, entry, probes, down, round, gateway, strays, careless, exits>>

\* Age matters only to a service that is starting and has no probe.
Age(s) ==
  /\ child[s] = "alive" /\ s \notin aged
  /\ entry[s].status = "starting" /\ ~def[s].check
  /\ aged' = aged \cup {s}
  /\ UNCHANGED <<def, entry, child, probes, down, round, gateway, strays, careless, exits>>

\* stop_all; the connections and the poller go on until the process ends.
Shutdown ==
  /\ round = Idle /\ gateway = "up"
  /\ gateway' = "closing"
  /\ Becomes([s \in Services |-> IF Running(s) THEN StopOutcome ELSE Kept(s)])
  /\ UNCHANGED <<def, round, strays, careless, exits>>

\* The process ends, after a shutdown or killed, and is started again.  The
\* manager is in a static, which is not dropped: no child is killed.
Exit(spawned) ==
  /\ exits < MaxExits /\ exits' = exits + 1
  /\ gateway' = "up" /\ round' = Idle
  /\ strays' = [s \in Services |-> strays[s] + (IF child[s] = "alive" THEN 1 ELSE 0)]
  /\ careless' = IF gateway = "up" THEN careless \cup {s \in Services : child[s] = "alive"}
                 ELSE careless
  /\ Becomes(AutoStarted(def, spawned))
  /\ UNCHANGED def

Poller == \/ Poll \/ EndRound
          \/ \E s \in Services, healthy \in BOOLEAN : Probe(s, healthy)

Next == \/ \E s \in Services, spawned \in BOOLEAN : Start(s, spawned) \/ Restart(s, spawned)
        \/ \E s \in Services : Stop(s) \/ Age(s)
        \/ \E s \in Services, how \in {"clean", "failed"} : ChildExits(s, how)
        \/ Poller
        \/ Shutdown
        \/ \E spawned \in SUBSET Services : Exit(spawned)

Spec == Init /\ [][Next]_vars

\* The poller sleeps two seconds and goes on; a probe has a timeout.
FairSpec == Spec /\ WF_vars(Poller)
-----------------------------------------------------------------------------
\* The types, and that a round never probes a service that is not running:
\* run_health_checks unwraps its entry and its check.
TypeOK ==
  /\ def \in [Services -> Definitions]
  /\ entry \in [Services -> [where : {"configured", "running", "stopped"},
                             status : Statuses, failures : 0 .. Retries]]
  /\ child \in [Services -> {"none", "alive", "clean", "failed"}]
  /\ aged \subseteq Services
  /\ round # Idle =>
       Len(round) = 1 /\ \A s \in round[1] : s \in Services /\ Running(s) /\ def[s].check
  /\ gateway \in {"up", "closing"}
  /\ strays \in [Services -> 0 .. MaxExits]
  /\ \A s \in Services : probes[s] \in Seq(BOOLEAN) /\ Len(probes[s]) <= Retries
  /\ down \in [Services -> {"asked", "exit", "spawn", "new", "no"}]
  /\ careless \subseteq Services
  /\ exits \in 0 .. MaxExits

\* A service has one process at most, and the manager knows it: a stop, a failed
\* restart or a shutdown leaves none behind.  Excepted are those that a killed
\* gateway leaves, or one that started a service after stop_all.
OneProcess ==
  \A s \in Services :
    /\ child[s] = "alive" => Running(s)
    /\ s \notin careless => strays[s] = 0

\* A service is down because a request said so, a spawn failed, or its policy
\* does not restart it after such an exit (poll).
DownForAReason ==
  \A s \in Services :
    /\ down[s] = "no" <=> Running(s)
    /\ down[s] = "exit" => \/ def[s].restart = "never"
                           \/ def[s].restart = "on-failure" /\ entry[s].status = "stopped"

Failing(s) == Len(probes[s]) = Retries /\ \A i \in 1 .. Retries : ~probes[s][i]

\* Unhealthy says that the last Retries probes of this very process failed, and
\* running that a probe succeeded since it was started
\* (types.rs: "consecutive failures before marking unhealthy").
HealthIsOfThisProcess ==
  \A s \in Services : Running(s) /\ def[s].check =>
    /\ entry[s].status = "unhealthy" <=> Failing(s)
    /\ entry[s].status = "running" => \E i \in 1 .. Len(probes[s]) : probes[s][i]

\* The manager does not take a dead process for a running service for ever.
ExitIsNoticed ==
  \A s \in Services :
    (Running(s) /\ child[s] \in {"clean", "failed"}) ~>
      ~(Running(s) /\ child[s] \in {"clean", "failed"})
=============================================================================
