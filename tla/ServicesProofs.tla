---------------------------- MODULE ServicesProofs ---------------------------
(***************************************************************************)
(* Proofs about the supervisor, for any services, definitions and limits.  *)
(* What an operation makes of one service is a value (Outcome, With), and  *)
(* every such value is shown Right for the definition of the service: its  *)
(* process is there exactly when it runs, it is down for a reason its      *)
(* policy knows, and Counted relates the failures that are counted to the  *)
(* last probes.  That all services are Right, and Strays, which says what  *)
(* lives on after a shutdown or a killed gateway, is the invariant.        *)
(***************************************************************************)
EXTENDS Services, TLAPS

-----------------------------------------------------------------------------
(* What is right of one service, after any operation on it.                *)

Entry == [where : {"configured", "running", "stopped"}, status : Statuses,
          failures : 0 .. Retries]
Reasons == {"asked", "exit", "spawn", "new", "no"}
Ofs == [entry : Entry, child : {"none", "alive", "clean", "failed"}, aged : BOOLEAN,
        probes : Seq(BOOLEAN), down : Reasons]

\* The probes since the last success are the failures counted, and the status
\* follows them when the service has a check.
Counted(e, seen, checked) ==
  /\ Len(seen) <= Retries
  /\ e.failures <= Len(seen)
  /\ \A i \in 1 .. Len(seen) : i > Len(seen) - e.failures => ~seen[i]
  /\ e.failures < Len(seen) => seen[Len(seen) - e.failures]
  /\ e.where = "running" /\ checked =>
       /\ e.status = "unhealthy" <=> e.failures = Retries
       /\ e.status = "running" => e.failures < Len(seen)

\* One service with definition d is as it should be.
Right(o, d) ==
  /\ o \in Ofs
  /\ o.child = "none" <=> o.entry.where # "running"
  /\ o.down = "no" <=> o.entry.where = "running"
  /\ o.down = "exit" => \/ d.restart = "never"
                        \/ d.restart = "on-failure" /\ o.entry.status = "stopped"
  /\ Counted(o.entry, o.probes, d.check)

\* A service without probes is counted right.
LEMMA FreshCounted ==
  ASSUME NEW e \in Entry, e.failures = 0, e.status # "unhealthy", NEW checked \in BOOLEAN,
         checked => e.status # "running"
  PROVE  Counted(e, <<>>, checked)
BY CountsAssumption DEF Counted, Entry

\* A service that was just spawned is right.
LEMMA UpRight ==
  ASSUME NEW d \in Definitions
  PROVE  Right(Up, d)
<1>1. Started \in Entry /\ Started.failures = 0 /\ Started.status = "starting"
      /\ Started.where = "running"
  BY CountsAssumption DEF Started, Entry, Statuses
<1>2. d.check \in BOOLEAN
  BY DefinitionsAssumption
<1>3. Counted(Started, <<>>, d.check)
  BY <1>1, <1>2, FreshCounted
<1>4. <<>> \in Seq(BOOLEAN)
  OBVIOUS
<1> HIDE DEF Started
<1> QED
  BY <1>1, <1>3, <1>4 DEF Up, Outcome, Right, Ofs, Reasons

\* So is one that was taken down, if its policy knows the reason.
LEMMA DownRight ==
  ASSUME NEW d \in Definitions, NEW e \in Entry, e.where # "running", e.failures = 0,
         NEW why \in Reasons \ {"no"},
         why = "exit" => \/ d.restart = "never"
                         \/ d.restart = "on-failure" /\ e.status = "stopped"
  PROVE  Right(Outcome(e, "none", why), d)
<1>1. Counted(e, <<>>, d.check)
  BY CountsAssumption DEF Counted, Entry
<1>2. <<>> \in Seq(BOOLEAN)
  OBVIOUS
<1> QED
  BY <1>1, <1>2 DEF Outcome, Right, Ofs, Reasons

\* What the manager knows of a service that is down.
LEMMA EntriesDown ==
  /\ Unstarted \in Entry /\ Unstarted.where # "running" /\ Unstarted.failures = 0
  /\ \A status \in {"stopped", "failed"} :
       /\ Stopped(status) \in Entry /\ Stopped(status).where # "running"
       /\ Stopped(status).failures = 0 /\ Stopped(status).status = status
BY CountsAssumption DEF Unstarted, Stopped, Entry, Statuses

\* A probe counts as it should.
LEMMA ProbeCounted ==
  ASSUME NEW e \in Entry, NEW seen \in Seq(BOOLEAN), NEW healthy \in BOOLEAN,
         NEW f \in Entry, NEW checked \in BOOLEAN,
         Counted(e, seen, checked), e.where = "running", f.where = "running", checked,
         f.failures = IF healthy THEN 0 ELSE IF e.failures < Retries THEN e.failures + 1 ELSE Retries,
         f.status = IF healthy THEN "running"
                    ELSE IF f.failures >= Retries THEN "unhealthy" ELSE e.status
  PROVE  Recent(seen, healthy) \in Seq(BOOLEAN) /\ Counted(f, Recent(seen, healthy), checked)
<1> DEFINE new == Recent(seen, healthy)
           n == Len(seen)
<1> SUFFICES new \in Seq(BOOLEAN) /\ Counted(f, new, checked)
  OBVIOUS
<1>0. /\ Retries \in Nat \ {0} /\ e.failures \in 0 .. Retries /\ f.failures \in 0 .. Retries
      /\ n \in Nat /\ n <= Retries /\ e.failures <= n
  BY CountsAssumption DEF Entry, Counted
<1>1. CASE n < Retries
  <2>1. /\ new = Append(seen, healthy) /\ new \in Seq(BOOLEAN) /\ Len(new) = n + 1
        /\ \A i \in 1 .. n : new[i] = seen[i]
        /\ new[n + 1] = healthy
    BY <1>1 DEF Recent
  <2> HIDE DEF new
  <2>2. CASE healthy
    BY <1>0, <1>1, <2>1, <2>2 DEF Counted
  <2>3. CASE ~healthy
    <3>1. f.failures = e.failures + 1 /\ e.failures <= n /\ n \in Nat /\ f.failures <= Retries
      BY <1>0, <1>1, <2>3
    <3>2. \A i \in 1 .. Len(new) : i > Len(new) - f.failures => ~new[i]
      BY <1>0, <2>1, <2>3, <3>1 DEF Counted
    <3>3. f.failures < Len(new) => new[Len(new) - f.failures]
      <4> SUFFICES ASSUME e.failures < n PROVE new[n - e.failures]
        BY <1>0, <2>1, <3>1
      <4>1. n - e.failures \in 1 .. n
        BY <1>0
      <4> QED
        BY <2>1, <4>1 DEF Counted
    <3>4. /\ f.status = "unhealthy" <=> f.failures = Retries
          /\ f.status = "running" => f.failures < Len(new)
      BY <1>0, <1>1, <2>1, <2>3, <3>1 DEF Counted
    <3>5. f.failures <= Len(new) /\ Len(new) <= Retries
      BY <1>0, <1>1, <2>1, <3>1
    <3>6. Counted(f, new, checked)
      BY <3>2, <3>3, <3>4, <3>5 DEF Counted
    <3> QED
      BY <2>1, <3>6
  <2> QED
    BY <2>2, <2>3
<1>2. CASE n = Retries
  <2>1. /\ new = Append(Tail(seen), healthy) /\ seen # <<>>
    BY <1>0, <1>2 DEF Recent
  <2>2. /\ Tail(seen) \in Seq(BOOLEAN) /\ Len(Tail(seen)) = n - 1
        /\ \A i \in 1 .. n - 1 : Tail(seen)[i] = seen[i + 1]
    BY <2>1, <1>0
  <2>3. /\ new \in Seq(BOOLEAN) /\ Len(new) = n
        /\ \A i \in 1 .. n - 1 : new[i] = seen[i + 1]
        /\ new[n] = healthy
    BY <1>0, <2>1, <2>2
  <2> HIDE DEF new
  <2>4. CASE healthy
    <3>1. /\ f.failures = 0 /\ f.status = "running" /\ Len(new) = Retries /\ Retries > 0
          /\ new[Len(new)]
      BY <1>0, <1>2, <2>3, <2>4
    <3>2. Counted(f, new, checked)
      BY <3>1, <1>0 DEF Counted
    <3> QED
      BY <2>3, <3>2
  <2>5. CASE ~healthy /\ e.failures = Retries
    <3>1. /\ f.failures = n /\ e.failures = n /\ f.status = "unhealthy"
      BY <1>0, <1>2, <2>5
    <3>2. \A i \in 1 .. n : ~seen[i]
      BY <1>0, <3>1 DEF Counted
    <3>3. \A i \in 1 .. Len(new) : ~new[i]
      BY <1>0, <2>3, <2>5, <3>2
    <3>4. Counted(f, new, checked)
      BY <1>0, <1>2, <2>3, <3>1, <3>3 DEF Counted
    <3> QED
      BY <2>3, <3>4
  <2>6. CASE ~healthy /\ e.failures < Retries
    <3>1. f.failures = e.failures + 1 /\ f.failures <= n
      BY <1>0, <1>2, <2>6
    <3>2. \A i \in 1 .. Len(new) : i > Len(new) - f.failures => ~new[i]
      <4>1. \A i \in 1 .. n - 1 : i > n - f.failures => ~seen[i + 1]
        BY <1>0, <3>1 DEF Counted
      <4>2. ~new[n]
        BY <2>3, <2>6
      <4>3. \A i \in 1 .. n : i = n \/ i \in 1 .. n - 1
        BY <1>0
      <4> QED
        BY <2>3, <4>1, <4>2, <4>3
    <3>3. f.failures < Len(new) => new[Len(new) - f.failures]
      <4> SUFFICES ASSUME f.failures < n PROVE new[n - f.failures]
        BY <2>3
      <4>1. n - f.failures \in 1 .. n - 1 /\ n - f.failures + 1 = n - e.failures /\ e.failures < n
        BY <1>0, <3>1
      <4>2. seen[n - e.failures]
        BY <4>1 DEF Counted
      <4> QED
        BY <2>3, <4>1, <4>2
    <3>4. /\ f.status = "unhealthy" <=> f.failures = Retries
          /\ f.status = "running" => f.failures < Len(new)
      BY <1>0, <1>2, <2>3, <2>6, <3>1 DEF Counted
    <3>5. Counted(f, new, checked)
      BY <1>0, <1>2, <2>3, <3>1, <3>2, <3>3, <3>4 DEF Counted
    <3> QED
      BY <2>3, <3>5
  <2>7. e.failures = Retries \/ e.failures < Retries
    BY <1>0
  <2> QED
    BY <2>4, <2>5, <2>6, <2>7
<1>3. n < Retries \/ n = Retries
  BY <1>0
<1> HIDE DEF n
<1> QED
  BY <1>1, <1>2, <1>3
-----------------------------------------------------------------------------
(* The operations on one service.                                          *)

\* start leaves the service right.
LEMMA StartRight ==
  ASSUME NEW s \in Services, NEW d \in Definitions, Right(Kept(s), d), ~Running(s),
         NEW spawned \in BOOLEAN
  PROVE  Right(StartOutcome(s, spawned), d)
<1>1. CASE spawned
  BY <1>1, UpRight DEF StartOutcome
<1>2. CASE ~spawned
  BY <1>2 DEF StartOutcome, Right, Kept, With, Running, Ofs, Reasons
<1> QED
  BY <1>1, <1>2

\* stop leaves the service right.
LEMMA StopRight ==
  ASSUME NEW d \in Definitions
  PROVE  Right(StopOutcome, d)
BY EntriesDown, DownRight DEF StopOutcome, Reasons

\* restart leaves the service right.
LEMMA RestartRight ==
  ASSUME NEW s \in Services, NEW d \in Definitions, Right(Kept(s), d), NEW spawned \in BOOLEAN
  PROVE  Right(RestartOutcome(s, spawned), d)
<1>1. CASE spawned
  BY <1>1, UpRight DEF RestartOutcome
<1>2. CASE ~spawned /\ Running(s)
  <2>1. Right(Outcome(Stopped("stopped"), "none", "spawn"), d)
    BY EntriesDown, DownRight DEF Reasons
  <2> QED
    BY <1>2, <2>1 DEF RestartOutcome
<1>3. CASE ~spawned /\ ~Running(s)
  BY <1>3, StartRight DEF RestartOutcome
<1> QED
  BY <1>1, <1>2, <1>3

\* poll leaves each service right, and starts none that did not run.
LEMMA PollRight ==
  ASSUME NEW s \in Services, def[s] \in Definitions, Right(Kept(s), def[s]), NEW spawned \in BOOLEAN
  PROVE  /\ Right(PollOutcome(s, spawned), def[s])
         /\ PollOutcome(s, spawned).entry.where = "running" => Running(s)
<1> DEFINE d == def[s]
<1>0. d.check \in BOOLEAN /\ d.restart \in {"never", "on-failure", "always"}
  BY DefinitionsAssumption
<1>1. CASE ~Running(s)
  BY <1>1 DEF PollOutcome, Polled, Kept, With, Running
<1>2. CASE Running(s) /\ child[s] = "alive" /\ ~(entry[s].status = "starting" /\ ~d.check /\ s \in aged)
  BY <1>2 DEF PollOutcome, Polled, AliveOutcome
<1>3. CASE Running(s) /\ child[s] = "alive" /\ entry[s].status = "starting" /\ ~d.check /\ s \in aged
  <2> DEFINE e == Shown(s, "running", entry[s].failures)
             k == Kept(s)
  <2>1. /\ k \in Ofs /\ k.entry = entry[s] /\ entry[s] \in Entry /\ k.child = "alive"
        /\ k.down = "no" /\ Counted(entry[s], k.probes, d.check)
    BY <1>3 DEF Right, Kept, With, Ofs, Running
  <2>2. e \in Entry /\ e.where = "running" /\ e.failures = entry[s].failures
    BY <2>1, <1>3 DEF Shown, Entry, Statuses, Running
  <2> HIDE DEF e
  <2>3. Counted(e, k.probes, d.check)
    BY <2>1, <2>2, <1>3 DEF Counted
  <2>4. PollOutcome(s, spawned) = With(s, e, down[s])
    BY <1>3 DEF PollOutcome, Polled, AliveOutcome, e
  <2>5. Right(With(s, e, down[s]), d)
    BY <2>1, <2>2, <2>3 DEF Right, Ofs, Kept, With
  <2> QED
    BY <1>3, <2>4, <2>5
<1>4. CASE Running(s) /\ child[s] # "alive" /\ ~ShouldRestart(s)
  <2> DEFINE status == IF child[s] = "clean" THEN "stopped" ELSE "failed"
  <2>1. PollOutcome(s, spawned) = Outcome(Stopped(status), "none", "exit")
    BY <1>4 DEF PollOutcome, Polled, ExitOutcome
  <2>2. child[s] \in {"clean", "failed"}
    BY <1>4 DEF Right, Kept, With, Ofs, Running
  <2>3. status \in {"stopped", "failed"}
        /\ (d.restart = "never" \/ (d.restart = "on-failure" /\ status = "stopped"))
    <3>1. d.restart # "always" /\ (d.restart = "on-failure" => child[s] # "failed")
      BY <1>4 DEF ShouldRestart
    <3> QED
      BY <1>0, <2>2, <3>1
  <2> HIDE DEF status
  <2>4. Right(Outcome(Stopped(status), "none", "exit"), d)
    BY <2>3, EntriesDown, DownRight DEF Reasons
  <2> QED
    BY <1>4, <2>1, <2>4
<1>5. CASE Running(s) /\ child[s] # "alive" /\ ShouldRestart(s) /\ spawned
  BY <1>5, UpRight DEF PollOutcome, Polled, ExitOutcome, Respawn
<1>6. CASE Running(s) /\ child[s] # "alive" /\ ShouldRestart(s) /\ ~spawned
  <2>1. Right(Outcome(Stopped("failed"), "none", "spawn"), d)
    BY EntriesDown, DownRight DEF Reasons
  <2> QED
    BY <1>6, <2>1 DEF PollOutcome, Polled, ExitOutcome
<1> QED
  BY <1>1, <1>2, <1>3, <1>4, <1>5, <1>6

\* A probe leaves the service right, and running.
LEMMA ProbeRight ==
  ASSUME NEW s \in Services, NEW d \in Definitions, Right(Kept(s), d), NEW healthy \in BOOLEAN,
         Running(s), d.check
  PROVE  /\ Right(ProbeOutcome(s, healthy), d)
         /\ ProbeOutcome(s, healthy).entry.where = "running"
<1> DEFINE f == IF healthy THEN 0
                ELSE IF entry[s].failures < Retries THEN entry[s].failures + 1 ELSE Retries
           status == IF healthy THEN "running"
                     ELSE IF f >= Retries THEN "unhealthy" ELSE entry[s].status
           e == Shown(s, status, f)
           seen == Recent(probes[s], healthy)
<1>1. /\ entry[s] \in Entry /\ probes[s] \in Seq(BOOLEAN) /\ Counted(entry[s], probes[s], d.check)
      /\ child[s] \in {"alive", "clean", "failed"} /\ down[s] = "no"
      /\ entry[s].where = "running" /\ (s \in aged) \in BOOLEAN
  BY DEF Right, Kept, With, Ofs, Running
<1>2. d.check \in BOOLEAN /\ Retries \in Nat \ {0}
  BY DefinitionsAssumption, CountsAssumption
<1>3. f \in 0 .. Retries
  BY <1>1, <1>2 DEF Entry
<1>4. status \in Statuses
  BY <1>1 DEF Entry, Statuses
<1>5. /\ e \in Entry /\ e.where = "running" /\ e.failures = f /\ e.status = status
  BY <1>1, <1>3, <1>4 DEF Shown, Entry
<1>6. seen \in Seq(BOOLEAN) /\ Counted(e, seen, d.check)
  <2>1. /\ e.failures = IF healthy THEN 0 ELSE IF entry[s].failures < Retries
                         THEN entry[s].failures + 1 ELSE Retries
        /\ e.status = IF healthy THEN "running"
                      ELSE IF e.failures >= Retries THEN "unhealthy" ELSE entry[s].status
    BY <1>5
  <2> HIDE DEF e, f, status
  <2> QED
    BY <1>1, <1>2, <1>5, <2>1, ProbeCounted DEF seen
<1>7. ProbeOutcome(s, healthy) = [entry |-> e, child |-> child[s], aged |-> s \in aged,
                                  probes |-> seen, down |-> down[s]]
  BY DEF ProbeOutcome
<1> HIDE DEF e, seen
<1> DEFINE o == ProbeOutcome(s, healthy)
<1>8. o.entry = e /\ o.child = child[s] /\ o.probes = seen /\ o.down = "no"
  BY <1>1, <1>7
<1>9. o \in Ofs
  BY <1>1, <1>5, <1>6, <1>7 DEF Ofs, Reasons
<1> HIDE DEF o
<1>10. Right(o, d) /\ o.entry.where = "running"
  BY <1>1, <1>5, <1>6, <1>8, <1>9 DEF Right
<1> QED
  BY <1>10 DEF o
-----------------------------------------------------------------------------
(* The inductive invariant.                                                *)

\* What a service that runs while the gateway closes, or a process of an earlier
\* gateway, is there for.
Strays ==
  \A s \in Services :
    /\ strays[s] <= exits
    /\ s \notin careless => strays[s] = 0
    /\ gateway = "closing" /\ Running(s) => s \in careless

AllRight == \A s \in Services : Right(Kept(s), def[s])

Inv == TypeOK /\ AllRight /\ Strays

\* What an operation makes of the services is what they are after it.
LEMMA BecomesKept ==
  ASSUME NEW new, Becomes(new), NEW s \in Services, new[s] \in Ofs
  PROVE  Kept(s)' = new[s]
<1>1. /\ entry'[s] = new[s].entry /\ child'[s] = new[s].child /\ probes'[s] = new[s].probes
      /\ down'[s] = new[s].down /\ (s \in aged') = new[s].aged
  BY DEF Becomes, Ofs
<1>2. Kept(s)' = [entry |-> new[s].entry, child |-> new[s].child, aged |-> new[s].aged,
                  probes |-> new[s].probes, down |-> new[s].down]
  BY <1>1 DEF Kept, With
<1>3. new[s] = [entry |-> new[s].entry, child |-> new[s].child, aged |-> new[s].aged,
                probes |-> new[s].probes, down |-> new[s].down]
  BY DEF Ofs
<1> QED
  BY <1>2, <1>3

\* The part of the types that is about the services.
ServiceTypes ==
  /\ entry \in [Services -> Entry]
  /\ child \in [Services -> {"none", "alive", "clean", "failed"}]
  /\ aged \subseteq Services
  /\ \A s \in Services : probes[s] \in Seq(BOOLEAN) /\ Len(probes[s]) <= Retries
  /\ down \in [Services -> Reasons]

\* An operation on all services leaves them right if it makes each right.
LEMMA BecomesRight ==
  ASSUME NEW new, Becomes(new), \A s \in Services : Right(new[s], def'[s])
  PROVE  AllRight' /\ ServiceTypes'
<1>1. \A s \in Services : new[s] \in Ofs
  BY DEF Right
<1>2. \A s \in Services : Kept(s)' = new[s]
  BY <1>1, BecomesKept
<1>3. AllRight'
  BY <1>2 DEF AllRight
<1>4. /\ entry' \in [Services -> Entry]
      /\ child' \in [Services -> {"none", "alive", "clean", "failed"}]
      /\ aged' \subseteq Services /\ down' \in [Services -> Reasons]
  BY <1>1 DEF Becomes, Ofs
<1>5. ASSUME NEW s \in Services
      PROVE  probes'[s] \in Seq(BOOLEAN) /\ Len(probes'[s]) <= Retries
  <2>1. probes'[s] = new[s].probes
    BY DEF Becomes
  <2>2. new[s].probes \in Seq(BOOLEAN) /\ Len(new[s].probes) <= Retries
    BY <1>1 DEF Right, Ofs, Counted
  <2> QED
    BY <2>1, <2>2
<1> QED
  BY <1>3, <1>4, <1>5 DEF ServiceTypes

\* An operation on one service leaves the others as they were.
LEMMA OnlyRight ==
  ASSUME AllRight, NEW s \in Services, NEW new, Only(s, new), Right(new, def[s]), def' = def
  PROVE  /\ AllRight' /\ ServiceTypes'
         /\ entry'[s] = new.entry
         /\ \A t \in Services \ {s} : entry'[t] = entry[t]
<1> DEFINE all == [t \in Services |-> IF t = s THEN new ELSE Kept(t)]
<1>1. Becomes(all)
  BY DEF Only
<1>2. \A t \in Services : Right(all[t], def'[t])
  BY DEF AllRight
<1> HIDE DEF all
<1>3. AllRight' /\ ServiceTypes'
  BY <1>1, <1>2, BecomesRight
<1>4. \A t \in Services : entry'[t] = all[t].entry
  BY <1>1 DEF Becomes
<1> QED
  BY <1>3, <1>4 DEF all, Kept, With

\* The rest of the types.
RoundRight == round # Idle =>
  Len(round) = 1 /\ \A s \in round[1] : s \in Services /\ Running(s) /\ def[s].check
OtherTypes ==
  /\ def \in [Services -> Definitions]
  /\ RoundRight
  /\ gateway \in {"up", "closing"}
  /\ strays \in [Services -> 0 .. MaxExits]
  /\ careless \subseteq Services
  /\ exits \in 0 .. MaxExits

\* The types are those of the services and the rest.
LEMMA Types ==
  /\ TypeOK <=> ServiceTypes /\ OtherTypes
  /\ TypeOK' <=> ServiceTypes' /\ OtherTypes'
BY DEF TypeOK, ServiceTypes, OtherTypes, RoundRight, Entry, Reasons

\* auto_start_all leaves every service right, whatever fails to spawn.
LEMMA AutoStartedRight ==
  ASSUME NEW d \in [Services -> Definitions], NEW spawned \in SUBSET Services, NEW s \in Services
  PROVE  Right(AutoStarted(d, spawned)[s], d[s])
<1>1. CASE ~d[s].autoStart
  <2>1. Right(Outcome(Unstarted, "none", "new"), d[s])
    BY EntriesDown, DownRight DEF Reasons
  <2> QED
    BY <1>1, <2>1 DEF AutoStarted
<1>2. CASE d[s].autoStart /\ s \in spawned
  BY <1>2, UpRight DEF AutoStarted
<1>3. CASE d[s].autoStart /\ s \notin spawned
  <2>1. Right(Outcome(Unstarted, "none", "spawn"), d[s])
    BY EntriesDown, DownRight DEF Reasons
  <2> QED
    BY <1>3, <2>1 DEF AutoStarted
<1> QED
  BY <1>1, <1>2, <1>3

\* The gateway starts in the invariant.
LEMMA Begins == Init => Inv
<1> SUFFICES ASSUME Init PROVE Inv
  OBVIOUS
<1>1. PICK d \in [Services -> Definitions], spawned \in SUBSET Services :
        LET new == AutoStarted(d, spawned)
        IN /\ def = d
           /\ entry = [s \in Services |-> new[s].entry]
           /\ child = [s \in Services |-> new[s].child]
           /\ probes = [s \in Services |-> new[s].probes]
           /\ down = [s \in Services |-> new[s].down]
  BY DEF Init
<1>2. /\ aged = {} /\ round = Idle /\ gateway = "up" /\ strays = [s \in Services |-> 0]
      /\ careless = {} /\ exits = 0
  BY DEF Init
<1>3. PICK new : new = AutoStarted(d, spawned)
  OBVIOUS
<1>4. \A s \in Services : Right(new[s], d[s]) /\ ~new[s].aged
  BY <1>3, AutoStartedRight DEF AutoStarted, Outcome, Up
<1>5. \A s \in Services : new[s] \in Ofs
  BY <1>4 DEF Right
<1>6. \A s \in Services : Kept(s) = new[s]
  <2> TAKE s \in Services
  <2>1. /\ entry[s] = new[s].entry /\ child[s] = new[s].child /\ probes[s] = new[s].probes
        /\ down[s] = new[s].down
    BY <1>1, <1>3
  <2>2. (s \in aged) = new[s].aged
    BY <1>2, <1>4, <1>5 DEF Ofs
  <2>3. new[s] = [entry |-> new[s].entry, child |-> new[s].child, aged |-> new[s].aged,
                  probes |-> new[s].probes, down |-> new[s].down]
    BY <1>5 DEF Ofs
  <2> QED
    BY <2>1, <2>2, <2>3 DEF Kept, With
<1>7. AllRight
  BY <1>1, <1>4, <1>6 DEF AllRight
<1>8. ServiceTypes
  <2>1. \A s \in Services : probes[s] = new[s].probes /\ new[s].probes \in Seq(BOOLEAN)
                             /\ Len(new[s].probes) <= Retries
    BY <1>1, <1>3, <1>4 DEF Right, Ofs, Counted
  <2> QED
    BY <1>1, <1>2, <1>3, <1>5, <2>1 DEF ServiceTypes, Ofs
<1>9. OtherTypes
  BY <1>1, <1>2, CountsAssumption DEF OtherTypes, RoundRight
<1>10. Strays
  BY <1>2, CountsAssumption DEF Strays
<1> QED
  BY <1>7, <1>8, <1>9, <1>10, Types DEF Inv

\* Every step keeps the invariant.
LEMMA Keeps == Inv /\ [Next]_vars => Inv'
<1> SUFFICES ASSUME Inv, [Next]_vars PROVE Inv'
  OBVIOUS
<1>0. /\ ServiceTypes /\ OtherTypes /\ AllRight /\ Strays /\ exits \in Nat
      /\ \A s \in Services : def[s] \in Definitions /\ Right(Kept(s), def[s])
  BY Types DEF Inv, OtherTypes, AllRight
\* A request on one service, between two rounds.
<1>1. ASSUME NEW s \in Services, NEW new, Only(s, new), Right(new, def[s]), round = Idle,
             UNCHANGED <<def, round, gateway, strays, exits>>,
             careless' \subseteq Services, careless \subseteq careless',
             gateway = "closing" /\ new.entry.where = "running" /\ ~Running(s) => s \in careless'
      PROVE  Inv'
  <2>1. /\ AllRight' /\ ServiceTypes' /\ entry'[s] = new.entry
        /\ \A t \in Services \ {s} : entry'[t] = entry[t]
    BY <1>0, <1>1, OnlyRight
  <2>2. OtherTypes'
    BY <1>0, <1>1 DEF OtherTypes, RoundRight
  <2>3. Strays'
    BY <1>0, <1>1, <2>1 DEF Strays, Running
  <2> QED
    BY <2>1, <2>2, <2>3, Types DEF Inv
<1>2. ASSUME NEW s \in Services, NEW spawned \in BOOLEAN, Start(s, spawned)
      PROVE  Inv'
  <2>1. Right(StartOutcome(s, spawned), def[s])
    BY <1>0, <1>2, StartRight DEF Start
  <2>2. StartOutcome(s, spawned).entry.where = "running" => spawned
    BY <1>2 DEF Start, StartOutcome, With, Running
  <2> QED
    BY <1>0, <1>1, <1>2, <2>1, <2>2 DEF Start, OtherTypes
<1>3. ASSUME NEW s \in Services, Stop(s)
      PROVE  Inv'
  BY <1>0, <1>1, <1>3, StopRight DEF Stop, OtherTypes
<1>4. ASSUME NEW s \in Services, NEW spawned \in BOOLEAN, Restart(s, spawned)
      PROVE  Inv'
  <2>1. Right(RestartOutcome(s, spawned), def[s])
    BY <1>0, RestartRight
  <2>2. RestartOutcome(s, spawned).entry.where = "running" => spawned
    BY DEF RestartOutcome, StartOutcome, Outcome, Stopped, With, Running
  <2> QED
    BY <1>0, <1>1, <1>4, <2>1, <2>2 DEF Restart, OtherTypes
<1>5. CASE Poll
  <2>1. PICK spawned \in SUBSET Services :
          Becomes([s \in Services |-> PollOutcome(s, s \in spawned)])
    BY <1>5 DEF Poll
  <2>2. PICK new : new = [s \in Services |-> PollOutcome(s, s \in spawned)]
    OBVIOUS
  <2>3. /\ UNCHANGED <<def, gateway, strays, careless, exits>>
        /\ round' = <<{s \in Services : entry'[s].where = "running" /\ def[s].check}>>
    BY <1>5 DEF Poll
  <2>4. \A s \in Services : /\ Right(new[s], def'[s])
                            /\ new[s].entry.where = "running" => Running(s)
    <3> TAKE s \in Services
    <3> DEFINE b == s \in spawned
    <3>1. b \in BOOLEAN /\ new[s] = PollOutcome(s, b) /\ def'[s] = def[s]
      BY <2>2, <2>3
    <3> HIDE DEF b
    <3>2. Right(PollOutcome(s, b), def[s]) /\ (PollOutcome(s, b).entry.where = "running" => Running(s))
      BY <1>0, <3>1, PollRight
    <3> QED
      BY <3>1, <3>2
  <2>5. AllRight' /\ ServiceTypes'
    BY <2>1, <2>2, <2>4, BecomesRight
  <2>6. \A s \in Services : entry'[s].where = "running" => Running(s)
    BY <2>1, <2>2, <2>4 DEF Becomes
  <2>7. OtherTypes'
    BY <1>0, <2>3 DEF OtherTypes, RoundRight, Running
  <2>8. Strays'
    BY <1>0, <2>3, <2>6 DEF Strays, Running
  <2> QED
    BY <2>5, <2>7, <2>8, Types DEF Inv
<1>6. ASSUME NEW s \in Services, NEW healthy \in BOOLEAN, Probe(s, healthy)
      PROVE  Inv'
  <2>1. /\ Running(s) /\ def[s].check /\ Only(s, ProbeOutcome(s, healthy))
        /\ UNCHANGED <<def, gateway, strays, careless, exits>>
        /\ Len(round) = 1 /\ round' = <<round[1] \ {s}>>
        /\ \A t \in round[1] : t \in Services /\ Running(t) /\ def[t].check
    BY <1>0, <1>6 DEF Probe, OtherTypes, RoundRight
  <2>2. Right(ProbeOutcome(s, healthy), def[s]) /\ ProbeOutcome(s, healthy).entry.where = "running"
    BY <1>0, <2>1, ProbeRight
  <2>3. /\ AllRight' /\ ServiceTypes' /\ entry'[s] = ProbeOutcome(s, healthy).entry
        /\ \A t \in Services \ {s} : entry'[t] = entry[t]
    BY <1>0, <2>1, <2>2, OnlyRight
  <2>4. \A t \in Services : Running(t)' <=> Running(t)
    BY <2>1, <2>2, <2>3 DEF Running
  <2>5. RoundRight'
    BY <2>1, <2>4 DEF RoundRight
  <2>6. OtherTypes' /\ Strays'
    BY <1>0, <2>1, <2>4, <2>5 DEF OtherTypes, Strays
  <2> QED
    BY <2>3, <2>6, Types DEF Inv
<1>7. CASE EndRound
  BY <1>0, <1>7, Types DEF EndRound, Inv, supervisor, ServiceTypes, OtherTypes, RoundRight,
     AllRight, Kept, With, Strays, Running
<1>8. ASSUME NEW s \in Services, NEW how \in {"clean", "failed"}, ChildExits(s, how)
      PROVE  Inv'
  <2>1. /\ UNCHANGED <<def, entry, probes, down, round, gateway, strays, careless, exits>>
        /\ child[s] = "alive" /\ child' = [child EXCEPT ![s] = how] /\ aged' = aged \ {s}
    BY <1>8 DEF ChildExits
  <2>2. ServiceTypes' /\ OtherTypes' /\ Strays'
    BY <1>0, <2>1 DEF ServiceTypes, OtherTypes, RoundRight, Strays, Running
  <2>3. AllRight'
    <3> SUFFICES ASSUME NEW t \in Services PROVE Right(Kept(t), def[t])'
      BY DEF AllRight
    <3>1. Right(Kept(t), def[t])
      BY <1>0
    <3> QED
      BY <1>0, <2>1, <3>1 DEF Right, Kept, With, Ofs, ServiceTypes
  <2> QED
    BY <2>2, <2>3, Types DEF Inv
<1>9. ASSUME NEW s \in Services, Age(s)
      PROVE  Inv'
  <2>1. /\ UNCHANGED <<def, entry, child, probes, down, round, gateway, strays, careless, exits>>
        /\ aged' = aged \cup {s}
    BY <1>9 DEF Age
  <2>2. ServiceTypes' /\ OtherTypes' /\ Strays'
    BY <1>0, <2>1 DEF ServiceTypes, OtherTypes, RoundRight, Strays, Running
  <2>3. AllRight'
    <3> SUFFICES ASSUME NEW t \in Services PROVE Right(Kept(t), def[t])'
      BY DEF AllRight
    <3>1. Right(Kept(t), def[t])
      BY <1>0
    <3> QED
      BY <2>1, <3>1 DEF Right, Kept, With, Ofs
  <2> QED
    BY <2>2, <2>3, Types DEF Inv
<1>10. CASE Shutdown
  <2>1. PICK new : new = [s \in Services |-> IF Running(s) THEN StopOutcome ELSE Kept(s)]
    OBVIOUS
  <2>2. Becomes(new) /\ UNCHANGED <<def, round, strays, careless, exits>> /\ round = Idle
        /\ gateway' = "closing"
    BY <1>10, <2>1 DEF Shutdown
  <2>3. \A s \in Services : Right(new[s], def'[s]) /\ new[s].entry.where # "running"
    BY <1>0, <2>1, <2>2, StopRight DEF StopOutcome, Outcome, Stopped, Kept, With, Running
  <2>4. AllRight' /\ ServiceTypes'
    BY <2>2, <2>3, BecomesRight
  <2>5. OtherTypes' /\ Strays'
    BY <1>0, <2>2, <2>3 DEF OtherTypes, RoundRight, Strays, Running, Becomes
  <2> QED
    BY <2>4, <2>5, Types DEF Inv
<1>11. ASSUME NEW spawned \in SUBSET Services, Exit(spawned)
       PROVE  Inv'
  <2>1. PICK new : new = AutoStarted(def, spawned)
    OBVIOUS
  <2>2. /\ Becomes(new) /\ def' = def /\ round' = Idle /\ gateway' = "up"
        /\ exits < MaxExits /\ exits' = exits + 1
        /\ strays' = [s \in Services |-> strays[s] + (IF child[s] = "alive" THEN 1 ELSE 0)]
        /\ careless' = IF gateway = "up" THEN careless \cup {s \in Services : child[s] = "alive"}
                       ELSE careless
    BY <1>11, <2>1 DEF Exit
  <2>3. \A s \in Services : Right(new[s], def'[s])
    BY <1>0, <2>1, <2>2, AutoStartedRight DEF OtherTypes
  <2>4. AllRight' /\ ServiceTypes'
    BY <2>2, <2>3, BecomesRight
  <2>5. \A s \in Services : child[s] = "alive" => Running(s)
    BY <1>0 DEF Right, Kept, With, Running
  <2>6. Strays'
    BY <1>0, <2>2, <2>5 DEF Strays, OtherTypes
  <2>7. OtherTypes'
    BY <1>0, <2>2, CountsAssumption DEF OtherTypes, RoundRight, Strays
  <2> QED
    BY <2>4, <2>6, <2>7, Types DEF Inv
<1>12. CASE UNCHANGED vars
  BY <1>0, <1>12, Types DEF vars, Inv, supervisor, ServiceTypes, OtherTypes, RoundRight,
     AllRight, Kept, With, Strays, Running
<1> QED
  BY <1>2, <1>3, <1>4, <1>5, <1>6, <1>7, <1>8, <1>9, <1>10, <1>11, <1>12 DEF Next, Poller

\* Inv is an invariant of the supervisor.
LEMMA Invariance == Spec => []Inv
BY Begins, Keeps, PTL DEF Spec
-----------------------------------------------------------------------------
(* The theorems.                                                           *)

\* Every service, round and process stays in its set; a probe never meets a
\* service that is not running.
THEOREM ServicesTypes == Spec => []TypeOK
<1>1. Inv => TypeOK
  BY DEF Inv
<1> QED
  BY <1>1, Invariance, PTL

\* A service has one process at most, for any services, definitions and exits.
THEOREM OneProcessEach == Spec => []OneProcess
<1>1. ASSUME Inv
      PROVE  OneProcess
  BY <1>1 DEF Inv, AllRight, Right, Kept, With, Strays, OneProcess, Running
<1> QED
  BY <1>1, Invariance, PTL

\* A service is never down without a reason its policy knows.
THEOREM NeverDownForNothing == Spec => []DownForAReason
<1>1. ASSUME Inv
      PROVE  DownForAReason
  BY <1>1 DEF Inv, AllRight, Right, Kept, With, DownForAReason, Running
<1> QED
  BY <1>1, Invariance, PTL

\* The status of a probed service is what its own last probes say.
THEOREM HealthIsTrue == Spec => []HealthIsOfThisProcess
<1>1. ASSUME Inv
      PROVE  HealthIsOfThisProcess
  <2> SUFFICES ASSUME NEW s \in Services, Running(s), def[s].check
               PROVE  /\ entry[s].status = "unhealthy" <=> Failing(s)
                      /\ entry[s].status = "running" => \E i \in 1 .. Len(probes[s]) : probes[s][i]
    BY DEF HealthIsOfThisProcess
  <2> DEFINE n == Len(probes[s])
             k == entry[s].failures
  <2>1. Counted(entry[s], probes[s], def[s].check) /\ entry[s] \in Entry /\ probes[s] \in Seq(BOOLEAN)
    BY <1>1 DEF Inv, AllRight, Right, Kept, With, Ofs
  <2>2. /\ n \in Nat /\ n <= Retries /\ k \in Nat /\ k <= n /\ Retries \in Nat
        /\ entry[s].status = "unhealthy" <=> k = Retries
        /\ entry[s].status = "running" => k < n
    BY <2>1, CountsAssumption DEF Counted, Entry, Running
  <2>3. k < n => n - k \in 1 .. n /\ probes[s][n - k]
    BY <2>1, <2>2 DEF Counted
  <2>4. k = Retries => Failing(s)
    BY <2>1, <2>2 DEF Counted, Failing
  <2>5. Failing(s) => k = Retries
    BY <2>2, <2>3 DEF Failing
  <2> HIDE DEF n, k
  <2> QED
    BY <2>2, <2>3, <2>4, <2>5 DEF n, k
<1> QED
  BY <1>1, Invariance, PTL
=============================================================================
