------------------------- MODULE DecisionScenarios -------------------------
(***************************************************************************)
(* What-if scenarios of a published decision, and the intents that propose *)
(* them.  A request is handled in several steps: it reads the task without *)
(* a lock, computes or calls a model for a while, and writes in a          *)
(* transaction that locks the Task row and looks at it again.  A client    *)
(* that lost an answer sends the request again under the same              *)
(* Idempotency-Key, possibly while the first one is still handled.         *)
(*                                                                         *)
(* The task is the specification PublishedDecision.  A handler that        *)
(* changes it first reads which rows to make stale and commits later; only *)
(* a conversation adds an intent without the lock, so only its insertion   *)
(* can fall in between.                                                    *)
(***************************************************************************)
EXTENDS Integers, FiniteSets

CONSTANTS
  Clients,      \* requests that can be handled at the same time
  Keys,         \* idempotency keys the clients use
  Changes,      \* the settings a scenario can propose
  Initial,      \* the settings of a new task
  MaxRevision,  \* bound: revisions
  MaxResults,   \* bound: results published one after the other
  MaxIntents,   \* bound: intents
  MaxScenarios, \* bound: scenarios
  Overlapping   \* a conversation may propose while a change is under way

ASSUME ChoicesAssumption ==
  /\ Initial \notin Changes
  /\ "none" \notin Keys \cup Changes
  /\ MaxRevision \in Nat /\ MaxResults \in Nat
  /\ MaxIntents \in Nat /\ MaxScenarios \in Nat
  /\ Overlapping \in BOOLEAN

Intents   == 1 .. MaxIntents
Scenarios == 1 .. MaxScenarios
Settings  == Changes \cup {Initial}

VARIABLES
  revision, result, retired, closed, \* the task: see PublishedDecision
  settings,   \* its requirement and ranking preferences
  intents,    \* DecisionIntent rows
  scenarios,  \* DecisionScenario rows
  records,    \* IdempotencyRecord rows
  clients,    \* requests being handled
  change      \* the change of the task that holds its lock

task == <<revision, result, retired, closed, settings>>
vars == <<task, intents, scenarios, records, clients, change>>

Task == INSTANCE PublishedDecision

-----------------------------------------------------------------------------
(* The rows.                                                               *)

IntentStatuses == {"ABSENT", "PROCESSING", "READY", "FAILED", "STALE",
                   "CONFIRMED"}
\* key is the idempotency key of the request that made the intent, "none" for
\* an intent proposed in a conversation.
AbsentIntent == [status |-> "ABSENT", rev |-> 0, result |-> 0, key |-> "none",
                 changes |-> "none", scenario |-> 0]
Intent == [status : IntentStatuses, rev : Nat, result : Nat,
           key : Keys \cup {"none"}, changes : Changes \cup {"none"},
           scenario : Scenarios \cup {0}]

\* before: the settings the baseline was computed with.  origin and key: the
\* intent, if any, and the key its idempotency key is derived from.
AbsentScenario == [status |-> "ABSENT", rev |-> 0, result |-> 0,
                   changes |-> "none", before |-> "none", origin |-> 0,
                   key |-> "none"]
Scenario == [status : {"ABSENT", "READY", "STALE", "APPLIED"}, rev : Nat,
             result : Nat, changes : Changes \cup {"none"},
             before : Settings \cup {"none"}, origin : Intents \cup {0},
             key : Keys \cup {"none"}]

\* A record tells which operation was done under which key; its stored answer
\* is read back, or the request is refused when it was a different one.
Record == [operation : {"parse", "create", "confirm"},
           target : Intents \cup {0}, key : Keys]

IdleClient == [at |-> "idle", key |-> "none", intent |-> 0, changes |-> "none",
               rev |-> 0, result |-> 0, before |-> "none", scenario |-> 0]
Client == [at : {"idle", "parsing", "confirming", "creating", "linking"},
           key : Keys \cup {"none"}, intent : Intents \cup {0},
           changes : Changes \cup {"none"}, rev : Nat, result : Nat,
           before : Settings \cup {"none"}, scenario : Scenarios \cup {0}]

NoChange == [kind |-> "none", settings |-> Initial, intents |-> {},
             scenarios |-> {}]

TypeOK ==
  /\ revision \in Nat /\ result \in Nat /\ retired \in Nat /\ closed \in BOOLEAN
  /\ settings \in Settings
  /\ intents \in [Intents -> Intent]
  /\ scenarios \in [Scenarios -> Scenario]
  /\ records \subseteq Record
  /\ clients \in [Clients -> Client]
  /\ change.kind \in {"none", "inputs", "compliance", "abandon"}
  /\ \A i \in Intents : intents[i].status = "CONFIRMED" => intents[i].scenario # 0

Init ==
  /\ Task!Init
  /\ settings = Initial
  /\ intents = [i \in Intents |-> AbsentIntent]
  /\ scenarios = [s \in Scenarios |-> AbsentScenario]
  /\ records = {}
  /\ clients = [c \in Clients |-> IdleClient]
  /\ change = NoChange

IsNewIntent(i) == /\ intents[i].status = "ABSENT"
                  /\ \A k \in Intents : k < i => intents[k].status # "ABSENT"
IsNewScenario(s) ==
  /\ scenarios[s].status = "ABSENT"
  /\ \A k \in Scenarios : k < s => scenarios[k].status # "ABSENT"

Unlocked == change.kind = "none"

\* Mutant: the keys of different requests are not compared.
BugNeverRecorded(operation, target, key) == FALSE

\* _existing_idempotent, and the unique constraint that makes the second of
\* two equal requests roll back.
IsRecorded(operation, target, key) ==
  [operation |-> operation, target |-> target, key |-> key] \in records

Recorded(operation, target, key) ==
  records \cup {[operation |-> operation, target |-> target, key |-> key]}

\* A request that is refused, or answered from a record, leaves no trace.
Ends(c) == /\ clients' = [clients EXCEPT ![c] = IdleClient]
           /\ UNCHANGED <<task, intents, scenarios, records, change>>

-----------------------------------------------------------------------------
(* The task.                                                               *)

ReadyScenarios == {s \in Scenarios : scenarios[s].status = "READY"}
OpenIntents    == {i \in Intents : intents[i].status \in {"PROCESSING", "READY"}}

StaleScenarios(rows) ==
  [s \in Scenarios |-> IF s \in rows
                       THEN [scenarios[s] EXCEPT !.status = "STALE"]
                       ELSE scenarios[s]]
StaleIntents(rows) ==
  [i \in Intents |-> IF i \in rows THEN [intents[i] EXCEPT !.status = "STALE"]
                     ELSE intents[i]]

Withdrawn == IF result # 0 THEN result ELSE retired

\* A handler locks the task and reads the rows _supersede_current_graph makes
\* stale; it may change the settings.
BeginChange(kind, value) ==
  /\ Unlocked /\ ~closed
  /\ kind # "compliance" => revision < MaxRevision
  /\ kind = "compliance" => result # 0
  /\ kind # "inputs" => value = settings
  /\ change' = [kind |-> kind, settings |-> value, intents |-> OpenIntents,
                scenarios |-> ReadyScenarios]
  /\ UNCHANGED <<task, intents, scenarios, records, clients>>

CommitChange ==
  /\ ~Unlocked
  /\ CASE change.kind = "inputs"     -> Task!Revise(Withdrawn)
       [] change.kind = "compliance" -> Task!Restart(Withdrawn)
       [] change.kind = "abandon"    -> Task!Abandon(Withdrawn)
  /\ settings' = change.settings
  /\ intents' = StaleIntents(change.intents)
  /\ scenarios' = StaleScenarios(change.scenarios)
  /\ change' = NoChange
  /\ UNCHANGED <<records, clients>>

PublishResult ==
  /\ Unlocked
  /\ retired < MaxResults
  /\ Task!Publish(retired + 1)
  /\ UNCHANGED <<settings, intents, scenarios, records, clients, change>>

-----------------------------------------------------------------------------
(* Intents.                                                                *)

\* complete_conversation_job: a turn that proposes a change saves an intent;
\* it reads the task but does not lock it.
ConversationProposes(i, changes) ==
  /\ Overlapping \/ Unlocked
  /\ ~closed
  /\ result # 0
  /\ changes # settings
  /\ IsNewIntent(i)
  /\ intents' = [intents EXCEPT ![i] =
       [AbsentIntent EXCEPT !.status = "READY", !.rev = revision,
                            !.result = result, !.changes = changes]]
  /\ UNCHANGED <<task, scenarios, records, clients, change>>

\* parse_decision_intent up to its first commit.
StartParse(c, i, key, changes) ==
  /\ clients[c].at = "idle"
  /\ ~IsRecorded("parse", 0, key)
  /\ Unlocked /\ ~closed
  /\ result # 0
  /\ IsNewIntent(i)
  /\ intents' = [intents EXCEPT ![i] =
       [AbsentIntent EXCEPT !.status = "PROCESSING", !.rev = revision,
                            !.result = result, !.key = key]]
  /\ clients' = [clients EXCEPT ![c] =
       [IdleClient EXCEPT !.at = "parsing", !.key = key, !.intent = i,
                          !.changes = changes, !.rev = revision,
                          !.result = result, !.before = settings]]
  /\ UNCHANGED <<task, scenarios, records, change>>

\* The parser failed, or proposed a change without effect: FAILED is written
\* whatever became of the intent; if an equal request was faster, the record
\* cannot be inserted and the transaction leaves the intent PROCESSING.
ParseFails(c) ==
  LET client == clients[c]
  IN  /\ client.at = "parsing"
      /\ IF IsRecorded("parse", 0, client.key)
         THEN Ends(c)
         ELSE /\ intents' = [intents EXCEPT ![client.intent].status = "FAILED"]
              /\ records' = Recorded("parse", 0, client.key)
              /\ clients' = [clients EXCEPT ![c] = IdleClient]
              /\ UNCHANGED <<task, scenarios, change>>

IsCurrent(row) == row.rev = revision /\ row.result = result

\* The parser proposed a change: READY, or STALE when the task has moved.
ParseEnds(c) ==
  LET client == clients[c]
  IN  /\ client.at = "parsing"
      /\ Unlocked
      /\ client.changes # client.before
      /\ IF IsRecorded("parse", 0, client.key)
         THEN Ends(c)
         ELSE /\ intents' = [intents EXCEPT ![client.intent] =
                   IF IsCurrent(client)
                   THEN [@ EXCEPT !.status = "READY", !.changes = client.changes]
                   ELSE [@ EXCEPT !.status = "STALE"]]
              /\ records' = Recorded("parse", 0, client.key)
              /\ clients' = [clients EXCEPT ![c] = IdleClient]
              /\ UNCHANGED <<task, scenarios, change>>

-----------------------------------------------------------------------------
(* Scenarios.                                                              *)

\* The reads of create_decision_scenario: the task, its result, and the
\* analysis of the scenario, which is refused when it has no effect.
Reads(c, key, intent, changes) ==
  /\ ~closed
  /\ result # 0
  /\ changes # settings
  /\ clients' = [clients EXCEPT ![c] =
       [at |-> "creating", key |-> key, intent |-> intent, changes |-> changes,
        rev |-> revision, result |-> result, before |-> settings,
        scenario |-> 0]]
  /\ UNCHANGED <<task, intents, scenarios, records, change>>

CreateScenario(c, key, changes) ==
  /\ clients[c].at = "idle"
  /\ Reads(c, key, 0, changes)

\* Mutant: only the revision is compared with what was read.
BugSameRevision(client) == client.rev = revision

\* _require_revision and the comparison of the result, under the lock.
StillThere(client) == IsCurrent(client)

\* The transaction of create_decision_scenario.  The record is looked at
\* before the lock is taken: an equal request that was faster answers this
\* one, or makes its insertion fail.
WriteScenario(c) ==
  LET client == clients[c]
      done   == {s \in Scenarios : /\ scenarios[s].origin = client.intent
                                   /\ scenarios[s].key = client.key}
      Continues(s) == clients' = [clients EXCEPT ![c] =
                        IF client.intent = 0 THEN IdleClient
                        ELSE [client EXCEPT !.at = "linking", !.scenario = s]]
  IN  /\ client.at = "creating"
      /\ Unlocked
      /\ \/ /\ IsRecorded("create", client.intent, client.key)
            /\ \E s \in done : Continues(s)
            /\ UNCHANGED <<task, intents, scenarios, records, change>>
         \/ /\ \/ IsRecorded("create", client.intent, client.key)
               \/ ~StillThere(client)
            /\ Ends(c)
         \/ /\ ~IsRecorded("create", client.intent, client.key)
            /\ ~closed
            /\ StillThere(client)
            /\ \E s \in Scenarios :
                 /\ IsNewScenario(s)
                 /\ scenarios' = [scenarios EXCEPT ![s] =
                      [status |-> "READY", rev |-> client.rev,
                       result |-> result, changes |-> client.changes,
                       before |-> client.before, origin |-> client.intent,
                       key |-> client.key]]
                 /\ Continues(s)
            /\ records' = Recorded("create", client.intent, client.key)
            /\ UNCHANGED <<task, intents, change>>

\* Mutant: the result the scenario was computed for is not compared.
BugAtRevision(s) == scenarios[s].rev = revision

IsApplicable(s) == scenarios[s].status = "READY" /\ IsCurrent(scenarios[s])

\* apply_decision_scenario is one transaction under the lock.  Sent again, it
\* finds its record or a scenario that is no longer READY.
ApplyScenario(s) ==
  /\ Unlocked /\ ~closed
  /\ revision < MaxRevision
  /\ IsApplicable(s)
  /\ scenarios[s].changes # settings
  /\ Task!Revise(Withdrawn)
  /\ settings' = scenarios[s].changes
  /\ scenarios' = [StaleScenarios(ReadyScenarios) EXCEPT ![s].status = "APPLIED"]
  /\ intents' = StaleIntents(OpenIntents)
  /\ UNCHANGED <<records, clients, change>>

-----------------------------------------------------------------------------
(* Confirming an intent creates a scenario and then links it.              *)

ConfirmIntent(c, i, key) ==
  /\ clients[c].at = "idle"
  /\ ~IsRecorded("confirm", i, key)
  /\ ~closed
  /\ intents[i].status = "READY"
  /\ IsCurrent(intents[i])
  /\ clients' = [clients EXCEPT ![c] =
       [IdleClient EXCEPT !.at = "confirming", !.key = key, !.intent = i,
                          !.changes = intents[i].changes, !.rev = revision]]
  /\ UNCHANGED <<task, intents, scenarios, records, change>>

\* create_decision_scenario is called under a key derived from the intent.
ConfirmCreates(c) ==
  LET client == clients[c]
  IN  /\ client.at = "confirming"
      /\ \/ /\ revision = client.rev
            /\ Reads(c, client.key, client.intent, client.changes)
         \/ /\ revision # client.rev \/ closed \/ result = 0
            /\ Ends(c)

\* Mutant: the intent is linked whatever became of it.
BugAnyIntent(client) == client.rev = revision

IsLinkable(client) == /\ client.rev = revision
                      /\ intents[client.intent].status = "READY"

Linked(intent, scenario) ==
  [intent EXCEPT !.status = "CONFIRMED", !.scenario = scenario]

LinkScenario(c) ==
  LET client == clients[c]
  IN  /\ client.at = "linking"
      /\ Unlocked
      /\ IF \/ IsRecorded("confirm", client.intent, client.key)
            \/ closed
            \/ ~IsLinkable(client)
         THEN Ends(c)
         ELSE /\ intents' = [intents EXCEPT ![client.intent] =
                   Linked(@, client.scenario)]
              /\ records' = Recorded("confirm", client.intent, client.key)
              /\ clients' = [clients EXCEPT ![c] = IdleClient]
              /\ UNCHANGED <<task, scenarios, change>>

\* The API process dies, or the client gives up: what was committed stays.
RequestDies(c) == clients[c].at # "idle" /\ Ends(c)

-----------------------------------------------------------------------------

Next ==
  \/ \E kind \in {"inputs", "compliance", "abandon"}, value \in Settings :
       BeginChange(kind, value)
  \/ CommitChange \/ PublishResult
  \/ \E i \in Intents, changes \in Changes : ConversationProposes(i, changes)
  \/ \E s \in Scenarios : ApplyScenario(s)
  \/ \E c \in Clients :
       \/ \E key \in Keys, changes \in Changes :
            \/ \E i \in Intents : StartParse(c, i, key, changes)
            \/ CreateScenario(c, key, changes)
       \/ \E i \in Intents, key \in Keys : ConfirmIntent(c, i, key)
       \/ ParseFails(c) \/ ParseEnds(c) \/ ConfirmCreates(c)
       \/ WriteScenario(c) \/ LinkScenario(c) \/ RequestDies(c)

Spec == Init /\ [][Next]_vars

-----------------------------------------------------------------------------
(* Properties.                                                             *)

\* docs/ARCHITECTURE.en.md:43: idempotency keys prevent duplicate
\* submissions.  Requests sent again while the first is still handled make at
\* most one usable intent and one scenario per key.
OneEffectPerKey ==
  /\ \A i, k \in Intents :
       /\ intents[i].key # "none" /\ intents[i].key = intents[k].key
       /\ intents[i].changes # "none" /\ intents[k].changes # "none"
       => i = k
  /\ \A s, t \in Scenarios :
       /\ scenarios[s].status # "ABSENT" /\ scenarios[t].status # "ABSENT"
       /\ scenarios[s].origin = scenarios[t].origin
       /\ scenarios[s].key = scenarios[t].key
       => s = t

\* A scenario offered for application was computed for what is published now,
\* from the settings in force: its numbers are those of the decision shown
\* beside it.
ReadyScenarioIsCurrent ==
  \A s \in ReadyScenarios : /\ IsCurrent(scenarios[s])
                            /\ scenarios[s].before = settings

\* A confirmed intent is linked to a scenario of its own changes, computed for
\* the result it was read against.
ConfirmedAsRead ==
  \A i \in Intents :
    intents[i].status = "CONFIRMED" =>
      LET s == scenarios[intents[i].scenario]
      IN  /\ s.changes = intents[i].changes
          /\ s.rev = intents[i].rev
          /\ s.result = intents[i].result

AppliesCurrent ==
  \A s \in Scenarios :
    scenarios'[s].status = "APPLIED" /\ scenarios[s].status # "APPLIED" =>
      /\ IsCurrent(scenarios[s])
      /\ scenarios[s].before = settings

\* A scenario is applied to the decision and the settings it was computed
\* from, whatever was published, restarted or changed since.
AppliesToItsBaseline == [][AppliesCurrent]_vars
=============================================================================
