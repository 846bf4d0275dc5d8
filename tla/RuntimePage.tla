---------------------------- MODULE RuntimePage -----------------------------
(***************************************************************************)
(* The runtimes page's two sections that start something on a runtime and   *)
(* poll for its end: the connection test and the CLI update.  A section     *)
(* belongs to the runtime shown; another one shown starts it anew.          *)
(***************************************************************************)
EXTENDS Naturals, Sequences, FiniteSets

CONSTANTS MaxProbes,        \* bound on the tests and updates started
          MaxPolls,         \* bound on the polls in flight
          MaxFailures       \* bound on the calls that fail

ASSUME ProbeAssumption == MaxProbes \in Nat /\ MaxPolls \in Nat \ {0} /\ MaxFailures \in Nat

VARIABLES section,          \* "ping", "update": the one looked at
          probes,           \* the requests at the server, in order
          status, testing,  \* what the section shows; its button is taken
          pollRef,          \* the request its interval polls for, 0 for none
          orphan,           \* requests polled for by sections that are gone
          starting,         \* the start in flight, 0 for none; is its section gone
          polls,            \* polls in flight
          failures, probeCrossed \* an answer landed after a later one, or a newer start

probeVars == <<section, probes, status, testing, pollRef, orphan, starting, polls,
               failures, probeCrossed>>

Underway == {"pending", "running"}
Ended    == {"completed", "failed", "timeout"}
TerminalButTimeout == {"completed", "failed"}  \* mutant of Terminal
Terminal == Ended
ProbeStart == [id : 0..MaxProbes, live : BOOLEAN]
NoStart == [id |-> 0, live |-> FALSE]
PollCall == [id : 1..MaxProbes, live : BOOLEAN, answer : Underway \cup Ended \cup {"none"}]

ProbeInit ==
  /\ section \in {"ping", "update"}
  /\ probes = <<>> /\ status = "none" /\ testing = FALSE /\ pollRef = 0 /\ orphan = {}
  /\ starting = NoStart /\ polls = {} /\ failures = 0 /\ probeCrossed = FALSE

----------------------------------------------------------------------------
(* The button: the test's whenever no test is on; the update's while no     *)
(* status shows, its retry under a failure.                                 *)
OffersTest   == section = "ping" /\ ~testing
OffersUpdate == section = "update" /\ (status = "failed" \/ (status = "none" /\ ~testing))

Begins ==
  /\ (OffersTest \/ OffersUpdate) /\ starting.id = 0 /\ Len(probes) < MaxProbes
  /\ pollRef' = 0 /\ testing' = TRUE /\ status' = "pending"
  /\ starting' = [id |-> Len(probes) + 1, live |-> TRUE]
  /\ probes' = Append(probes, "pending")
  /\ probeCrossed' = (probeCrossed \/ \E p \in polls : p.live)
  /\ UNCHANGED <<section, orphan, polls, failures>>

(* The answer sets an interval, even for a section that is gone.            *)
Started ==
  /\ starting.id # 0 /\ starting' = NoStart
  /\ pollRef' = IF starting.live THEN starting.id ELSE pollRef
  /\ orphan' = IF starting.live THEN orphan ELSE orphan \cup {starting.id}
  /\ UNCHANGED <<section, probes, status, testing, polls, failures, probeCrossed>>

(* Refused -- one update at a time -- or lost.                              *)
StartFails ==
  /\ starting.id # 0 /\ failures < MaxFailures /\ failures' = failures + 1
  /\ starting' = NoStart
  /\ IF starting.live THEN status' = "failed" /\ testing' = FALSE ELSE UNCHANGED <<status, testing>>
  /\ UNCHANGED <<section, probes, pollRef, orphan, polls, probeCrossed>>

(* A tick of an interval, every two seconds and whatever is in flight.      *)
Tick(r) ==
    /\ r \in {pollRef} \cup orphan /\ Cardinality(polls) < MaxPolls
    /\ polls' = polls \cup {[id |-> r, live |-> r = pollRef, answer |-> "none"]}
    /\ polls' # polls
    /\ UNCHANGED <<section, probes, status, testing, pollRef, orphan, starting, failures, probeCrossed>>

(* The server: the daemon takes the request and ends it, or the time runs   *)
(* out for it.                                                              *)
Proceeds ==
  \E r \in DOMAIN probes :
    /\ probes[r] \in Underway
    /\ \E s \in Ended \cup {"running"} : s # probes[r] /\ probes' = [probes EXCEPT ![r] = s]
    /\ UNCHANGED <<section, status, testing, pollRef, orphan, starting, polls, failures, probeCrossed>>
ProbeEnds(r) == r \in DOMAIN probes /\ Proceeds /\ probes'[r] \in Ended

PollServed(r) ==
  \E p \in polls :
    /\ p.id = r /\ p.answer = "none"
    /\ polls' = (polls \ {p}) \cup {[p EXCEPT !.answer = probes[p.id]]}
    /\ UNCHANGED <<section, probes, status, testing, pollRef, orphan, starting, failures, probeCrossed>>

(* The answer shows as it is; at an end the interval that is set then stops,*)
(* whichever request it polls for.                                          *)
PollLands(r) ==
  \E p \in polls :
    /\ p.id = r /\ p.answer # "none" /\ polls' = polls \ {p}
    /\ IF p.live
       THEN /\ status' = p.answer
            /\ probeCrossed' = (probeCrossed \/ p.id # pollRef)
            /\ IF p.answer \in Terminal THEN testing' = FALSE /\ pollRef' = 0
               ELSE UNCHANGED <<testing, pollRef>>
            /\ UNCHANGED orphan
       ELSE /\ orphan' = IF p.answer \in Terminal THEN orphan \ {p.id} ELSE orphan
            /\ UNCHANGED <<status, testing, pollRef, probeCrossed>>
    /\ UNCHANGED <<section, probes, starting, failures>>

(* Ignored: the next tick polls again.                                      *)
PollFails(r) ==
  \E p \in polls :
    /\ p.id = r /\ failures < MaxFailures /\ failures' = failures + 1
    /\ polls' = polls \ {p}
    /\ UNCHANGED <<section, probes, status, testing, pollRef, orphan, starting, probeCrossed>>

(* The update's timer, five seconds after an end.                           *)
ClearsStatus ==
  /\ section = "update" /\ status = "completed" /\ status' = "none"
  /\ UNCHANGED <<section, probes, testing, pollRef, orphan, starting, polls, failures, probeCrossed>>

(* Another runtime is shown: the cleanup stops the interval that is set,    *)
(* and a new section starts empty.                                          *)
Leaves ==
  /\ testing \/ status # "none"
  /\ status' = "none" /\ testing' = FALSE /\ pollRef' = 0
  /\ starting' = [starting EXCEPT !.live = FALSE]
  /\ polls' = {[p EXCEPT !.live = FALSE] : p \in polls}
  /\ UNCHANGED <<section, probes, orphan, failures, probeCrossed>>

ProbeNext ==
  \/ Begins \/ Started \/ StartFails \/ Proceeds \/ ClearsStatus \/ Leaves
  \/ \E r \in 1..MaxProbes : Tick(r) \/ PollServed(r) \/ PollLands(r) \/ PollFails(r)

ProbeFairness ==
  /\ WF_probeVars(Started)
  /\ \A r \in 1..MaxProbes :
       /\ SF_probeVars(Tick(r)) /\ WF_probeVars(ProbeEnds(r))
       /\ WF_probeVars(PollServed(r)) /\ WF_probeVars(PollLands(r))

ProbeSpec == ProbeInit /\ [][ProbeNext]_probeVars /\ ProbeFairness

----------------------------------------------------------------------------
(* Type correctness of the sections.                                        *)
ProbeTypeOK ==
  /\ probes \in Seq(Underway \cup Ended) /\ Len(probes) <= MaxProbes
  /\ status \in Underway \cup Ended \cup {"none"} /\ testing \in BOOLEAN
  /\ pollRef \in 0..MaxProbes /\ orphan \subseteq 1..MaxProbes /\ starting \in ProbeStart
  /\ polls \subseteq PollCall /\ Cardinality(polls) <= MaxPolls /\ failures \in 0..MaxFailures
  /\ probeCrossed \in BOOLEAN

(* What was started ends on the screen: a section that spins stops spinning *)
(* -- unless the answers of two polls, or of two starts, crossed -- and no  *)
(* section that is gone polls for ever.                                     *)
ProbeSettles ==
  /\ (status \in Underway) ~> (status \notin Underway \/ probeCrossed)
  /\ (orphan # {}) ~> (orphan = {})
=============================================================================
