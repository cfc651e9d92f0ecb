------------------------ MODULE InvestigationProofs ------------------------
(***************************************************************************)
(* For every value of the constants of Investigation: its types, what a    *)
(* case is resolved by, the versions a node uses, and the budgets.  Every  *)
(* step of the runner is one of the Moves, and each part of the invariant  *)
(* is shown for them alone.  Budgets are sums over the cases; what is      *)
(* needed of a sum is proved first, by induction over the cases.           *)
(***************************************************************************)
EXTENDS Investigation, FiniteSetTheorems, WellFoundedInduction, TLAPS

-----------------------------------------------------------------------------
(* Sums.                                                                   *)

\* Induction over a set: what holds of zero and of the next number holds of all.
LEMMA Induction ==
  ASSUME NEW S, 0 \in S, \A n \in Nat : n \in S => n + 1 \in S
  PROVE  Nat \subseteq S
  <1> DEFINE T == Nat \ S
  <1>1. SUFFICES ASSUME T # {} PROVE FALSE
    OBVIOUS
  <1>2. IsWellFoundedOn(OpToRel(<, Nat), Nat)
    BY NatLessThanWellFounded
  <1>3. PICK n \in T : \A m \in T : <<m, n>> \notin OpToRel(<, Nat)
    BY <1>1, <1>2, WFMin
  <1>4. n \in Nat /\ n # 0
    BY <1>3
  <1>5. n - 1 \in Nat /\ n - 1 < n /\ (n - 1) + 1 = n
    BY <1>4
  <1>6. n - 1 \in T
    BY <1>3, <1>5
  <1>7. <<n - 1, n>> \in OpToRel(<, Nat)
    BY <1>4, <1>5 DEF OpToRel
  <1> QED
    BY <1>3, <1>6, <1>7

LEMMA MostIsNat == Most \in Nat \ {0} /\ CaseIds = 1 .. Most
  BY LimitsAssumption DEF LimitsAssumption, Most, CaseIds

\* The sums exist, and are what their definition says.
LEMMA TotalSums ==
  ASSUME NEW spent \in [CaseIds -> Nat]
  PROVE  /\ Total(spent) \in [0 .. Most -> Nat]
         /\ Total(spent)[0] = 0
         /\ \A n \in 1 .. Most : Total(spent)[n] = Total(spent)[n - 1] + spent[n]
  <1> USE MostIsNat
  <1> DEFINE Sums(k, f) == /\ f \in [0 .. k -> Nat] /\ f[0] = 0
                           /\ \A n \in 1 .. k : f[n] = f[n - 1] + spent[n]
             S == {k \in Nat : k <= Most => \E f : Sums(k, f)}
  <1>1. 0 \in S
    <2> DEFINE f == [n \in 0 .. 0 |-> 0]
    <2>1. Sums(0, f)
      OBVIOUS
    <2> QED
      BY <2>1
  <1>2. ASSUME NEW k \in Nat, k \in S
        PROVE  k + 1 \in S
    <2> HIDE DEF Sums
    <2>1. SUFFICES ASSUME k + 1 <= Most
                   PROVE  \E g : Sums(k + 1, g)
      BY <1>2
    <2>0. \E f : Sums(k, f)
      BY <1>2, <2>1
    <2>2. PICK f : Sums(k, f)
      BY <2>0
    <2> USE DEF Sums
    <2> DEFINE g == [n \in 0 .. k + 1 |-> IF n = k + 1 THEN f[k] + spent[k + 1] ELSE f[n]]
    <2>3. k + 1 \in CaseIds /\ spent[k + 1] \in Nat /\ f[k] \in Nat
      BY <2>1, <2>2
    <2>4. g \in [0 .. k + 1 -> Nat]
      BY <2>2, <2>3
    <2>5. g[0] = 0
      BY <2>2
    <2>6. ASSUME NEW n \in 1 .. k + 1
          PROVE  g[n] = g[n - 1] + spent[n]
      <3>1. CASE n = k + 1
        BY <3>1, <2>2
      <3>2. CASE n \in 1 .. k
        <4>1. n \in 0 .. k + 1 /\ n - 1 \in 0 .. k + 1 /\ n # k + 1 /\ n - 1 # k + 1
          BY <3>2
        <4> QED
          BY <3>2, <4>1, <2>2
      <3> QED
        BY <3>1, <3>2
    <2> QED
      BY <2>4, <2>5, <2>6
  <1>3. Most \in S
    BY <1>1, <1>2, Induction
  <1>4. PICK f : Sums(Most, f)
    BY <1>3
  <1>5. f = [n \in 0 .. Most |-> IF n = 0 THEN 0 ELSE f[n - 1] + spent[n]]
    BY <1>4
  <1> DEFINE t == Total(spent)
  <1>6. t = [n \in 0 .. Most |-> IF n = 0 THEN 0 ELSE t[n - 1] + spent[n]]
    BY <1>5 DEF Total
  <1> HIDE DEF t
  <1>7. t[0] = 0 /\ \A n \in 1 .. Most : t[n] = t[n - 1] + spent[n]
    BY <1>6
  <1> DEFINE R == {k \in Nat : k <= Most => t[k] \in Nat}
  <1>8. \A k \in Nat : k \in R
    <2>1. 0 \in R
      BY <1>7
    <2>2. ASSUME NEW k \in Nat, k \in R PROVE k + 1 \in R
      <3>1. SUFFICES ASSUME k + 1 <= Most PROVE t[k + 1] \in Nat
        OBVIOUS
      <3>2. t[k] \in Nat /\ spent[k + 1] \in Nat
        BY <2>2, <3>1
      <3> QED
        BY <3>1, <3>2, <1>7
    <2> HIDE DEF R
    <2> QED
      BY <2>1, <2>2, Induction
  <1>9. t \in [0 .. Most -> Nat]
    <2>1. \A k \in 0 .. Most : t[k] \in Nat
      BY <1>8
    <2> DEFINE body(n) == IF n = 0 THEN 0 ELSE t[n - 1] + spent[n]
    <2>2. t = [n \in 0 .. Most |-> body(n)]
      BY <1>6
    <2> HIDE DEF body
    <2> QED
      BY <2>1, <2>2
  <1> QED
    BY <1>7, <1>9 DEF t

\* A case that spends more raises the sum by as much.
LEMMA TotalGrows ==
  ASSUME NEW spent \in [CaseIds -> Nat], NEW c \in CaseIds, NEW more \in Nat
  PROVE  Total([spent EXCEPT ![c] = spent[c] + more])[Most] = Total(spent)[Most] + more
  <1> USE MostIsNat
  <1> DEFINE now == [spent EXCEPT ![c] = spent[c] + more]
             old == Total(spent)
             new == Total(now)
  <1>1. /\ now \in [CaseIds -> Nat] /\ now[c] = spent[c] + more
        /\ \A n \in CaseIds \ {c} : now[n] = spent[n]
    OBVIOUS
  <1>2. /\ old \in [0 .. Most -> Nat] /\ old[0] = 0
        /\ \A n \in 1 .. Most : old[n] = old[n - 1] + spent[n]
    BY TotalSums
  <1>3. /\ new \in [0 .. Most -> Nat] /\ new[0] = 0
        /\ \A n \in 1 .. Most : new[n] = new[n - 1] + now[n]
    BY <1>1, TotalSums
  <1> HIDE DEF now, old, new
  <1> DEFINE S == {k \in Nat : k <= Most => new[k] = old[k] + (IF k >= c THEN more ELSE 0)}
  <1>4. 0 \in S
    BY <1>2, <1>3
  <1>5. ASSUME NEW k \in Nat, k \in S PROVE k + 1 \in S
    <2>1. SUFFICES ASSUME k + 1 <= Most
                   PROVE  new[k + 1] = old[k + 1] + (IF k + 1 >= c THEN more ELSE 0)
      OBVIOUS
    <2>2. /\ k + 1 \in 1 .. Most /\ k \in 0 .. Most /\ (k + 1) - 1 = k
          /\ old[k] \in Nat /\ spent[k + 1] \in Nat
      BY <2>1, <1>2
    <2>3. /\ new[k] = old[k] + (IF k >= c THEN more ELSE 0)
          /\ new[k + 1] = new[k] + now[k + 1] /\ old[k + 1] = old[k] + spent[k + 1]
      <3>1. new[k] = old[k] + (IF k >= c THEN more ELSE 0)
        BY <2>1, <1>5
      <3>2. new[k + 1] = new[(k + 1) - 1] + now[k + 1]
        BY <2>2, <1>3
      <3>3. old[k + 1] = old[(k + 1) - 1] + spent[k + 1]
        BY <2>2, <1>2
      <3> QED
        BY <3>1, <3>2, <3>3, <2>2
    <2>4. CASE k + 1 = c
      <3>1. now[k + 1] = spent[k + 1] + more
        BY <2>4, <1>1
      <3>2. ~(k >= c) /\ k + 1 >= c
        BY <2>4
      <3> QED
        BY <2>2, <2>3, <3>1, <3>2
    <2>5. CASE k + 1 # c
      <3>1. now[k + 1] = spent[k + 1] /\ (k + 1 >= c <=> k >= c)
        BY <2>2, <2>5, <1>1
      <3> QED
        BY <2>2, <2>3, <3>1
    <2> QED
      BY <2>4, <2>5
  <1>6. Most \in S
    <2> HIDE DEF S
    <2> QED
      BY <1>4, <1>5, Induction
  <1> QED
    BY <1>6, <1>2 DEF new, old, now

\* Nothing spent, nothing to sum.
LEMMA TotalOfNone ==
  ASSUME NEW spent \in [CaseIds -> Nat], \A c \in CaseIds : spent[c] = 0
  PROVE  Total(spent)[Most] = 0
  <1> USE MostIsNat
  <1> DEFINE t == Total(spent)
             S == {k \in Nat : k <= Most => t[k] = 0}
  <1>1. t[0] = 0 /\ \A n \in 1 .. Most : t[n] = t[n - 1] + spent[n]
    BY TotalSums
  <1> HIDE DEF t
  <1>2. 0 \in S
    BY <1>1
  <1>3. ASSUME NEW k \in Nat, k \in S PROVE k + 1 \in S
    BY <1>1, <1>3
  <1>4. Most \in S
    <2> HIDE DEF S
    <2> QED
      BY <1>2, <1>3, Induction
  <1> QED
    BY <1>4 DEF t

-----------------------------------------------------------------------------
(* The invariant.                                                          *)

Working == {"loop", "asked", "reserve", "retrying", "retrieved", "observed"}
Waiting == {"asked", "reserve", "retrying", "retrieved"}

\* The case the runner works on.
WorkHolds ==
  node.step \in Working => /\ At \in CaseIds /\ cases[At].status = "RUNNING"
                           /\ ~IsNode => At = 1

\* What a case is called resolved for; and a brief is made after its plan.
Proven(c) == CASE kind = "POLICY"   -> retrievals[c].status = "OK"
               [] kind = "DECISION" -> required \subseteq cases[c].done
               [] kind = "REQUEST"  -> "analysis" \in cases[c].done
               [] OTHER -> c \in NonBlocking

BriefsHold == kind = "DECISION" => \A c \in CaseIds :
                "brief" \in cases[c].done => required \subseteq cases[c].done

\* The versions a node uses are the newest from its beginning on.
VersionsHold == kind = "POLICY" /\ node.step # "off" =>
                  \A c \in CaseIds : node.used[c] = retrievals[c].version

\* A retrieval is sent for an attempt that was stored before.
RetriesHold == /\ sent <= attempts /\ attempts <= MaxRetries
               /\ node.step = "retrying" => sent < attempts

\* Every request to the model is in the case it was made for.
CallsHold == /\ asked <= Spent("calls") /\ Spent("calls") <= MaxModelCalls
             /\ node.step # "off" => node.calls = Spent("calls")

\* The case of a request is the first one, and the only one.
OneCase == ~IsNode => \A c \in CaseIds \ {1} : cases[c].calls = 0 /\ cases[c].observed = 0

\* A call of a tool is made only while there is one left, and in an investigation
\* of a decision one more for the brief.
Room == /\ node.tools < MaxToolCalls
        /\ kind = "DECISION" => node.tools < MaxToolCalls - 1

RoomHolds == node.step \in Waiting => Room

\* The runner counts the observations of all cases.  It does not count those made
\* in the last step of a decision, which has no other case.
ObservationsHold ==
  /\ Spent("observed") <= MaxToolCalls
  /\ node.step # "off" /\ (kind = "DECISION" => At = 1) => node.tools = Spent("observed")

CaseInv == /\ TypeOK /\ WorkHolds /\ ResolvedIsProven /\ BriefsHold
           /\ VersionsHold /\ RetriesHold /\ CallsHold /\ OneCase /\ RoomHolds

-----------------------------------------------------------------------------
(* Rows.                                                                   *)

LEMMA Constants ==
  /\ NewCase \in CaseRow /\ NewCase.calls = 0 /\ NewCase.observed = 0
  /\ NewCase.status = "PLANNED" /\ NewCase.done = {}
  /\ Off \in NodeRow /\ Off.step = "off"
  /\ MaxModelCalls \in Nat \ {0} /\ MaxToolCalls \in Nat \ {0} /\ MaxRetries \in Nat
  /\ MaxFaults \in Nat /\ 1 \in CaseIds /\ CaseIds \subseteq Nat \ {0}
  /\ {"read", "clarify", "retry", "analysis", "brief", "other", "none", Policy}
       \subseteq Names
  <1>1. NewCase \in CaseRow
    BY DEF NewCase, CaseRow, Final
  <1>2. Off \in NodeRow
    BY MostIsNat DEF Off, NodeRow, Steps, Names
  <1>3. MaxRetries \in Nat
    BY LimitsAssumption DEF LimitsAssumption
  <1> QED
    BY <1>1, <1>2, <1>3, LimitsAssumption, MostIsNat
    DEF LimitsAssumption, NewCase, Off, Names

LEMMA ChecksAreNames ==
  ASSUME TypeOK
  PROVE  /\ Checks \subseteq Names /\ Tools \subseteq Names /\ "brief" \notin Checks
         /\ required \subseteq Checks /\ IsFiniteSet(Checks)
  <1>1. /\ required \subseteq UNION Plans /\ "brief" \notin required
        /\ IsFiniteSet(required)
    <2>1. CASE required = {}
      BY <2>1, FS_EmptySet
    <2>2. CASE required \in Plans
      BY <2>2, LimitsAssumption DEF LimitsAssumption
    <2> QED
      BY <2>1, <2>2 DEF TypeOK
  <1>2. IsFiniteSet(Checks)
    BY <1>1, FS_EmptySet, FS_Singleton, FS_Union DEF Checks
  <1>3. Policy # "brief"
    BY LimitsAssumption DEF LimitsAssumption
  <1>4. Checks \subseteq Names /\ "brief" \notin Checks /\ required \subseteq Checks
    BY <1>1, <1>3 DEF Checks, Names
  <1>5. Tools \subseteq Names
    BY <1>4 DEF Tools, Names
  <1> QED
    BY <1>2, <1>4, <1>5

\* A case row that is saved with another status.
LEMMA StatusRow ==
  ASSUME NEW row \in CaseRow, NEW status \in {"PLANNED", "RUNNING"} \cup Final
  PROVE  LET new == [[row EXCEPT !.status = status] EXCEPT !.saved = TRUE] IN
         /\ new \in CaseRow /\ new.status = status /\ new.calls = row.calls
         /\ new.observed = row.observed /\ new.done = row.done
  BY DEF CaseRow

LEMMA CountedRow ==
  ASSUME NEW row \in CaseRow
  PROVE  LET new == [[row EXCEPT !.calls = @ + 1] EXCEPT !.saved = TRUE] IN
         /\ new \in CaseRow /\ new.status = row.status /\ new.calls = row.calls + 1
         /\ new.observed = row.observed /\ new.done = row.done
  <1>1. PICK more \in Nat : more = row.calls + 1
    BY DEF CaseRow
  <1> QED
    BY <1>1 DEF CaseRow

LEMMA RetriedRow ==
  ASSUME NEW row \in CaseRow
  PROVE  LET new == [[row EXCEPT !.retried = TRUE] EXCEPT !.saved = TRUE] IN
         /\ new \in CaseRow /\ new.status = row.status /\ new.calls = row.calls
         /\ new.observed = row.observed /\ new.done = row.done
  BY DEF CaseRow

\* One more observation.
LEMMA ObservedRow ==
  ASSUME NEW row \in CaseRow, NEW name \in Names, NEW status,
         NEW new, new = Observed(row, name, status),
         NEW kept, kept = [new EXCEPT !.saved = TRUE]
  PROVE  /\ new \in CaseRow /\ new.status = row.status /\ new.calls = row.calls
         /\ new.observed = row.observed + 1
         /\ status \in {"OK", "NOT_FOUND"} => new.done = row.done \cup {name}
         /\ status \notin {"OK", "NOT_FOUND"} => new.done = row.done
         /\ kept \in CaseRow /\ kept.status = row.status /\ kept.calls = row.calls
         /\ kept.observed = row.observed + 1 /\ kept.done = new.done
  <1> DEFINE names == row.names \cup {name}
             done  == IF status \in {"OK", "NOT_FOUND"} THEN row.done \cup {name} ELSE row.done
             denied == row.denied \/ status = "DENIED"
  <1>1. names \in SUBSET Names /\ done \in SUBSET Names /\ row.observed + 1 \in Nat
    BY DEF CaseRow
  <1>2. denied \in BOOLEAN
    OBVIOUS
  <1>3. Observed(row, name, status) =
          [row EXCEPT !.observed = row.observed + 1, !.names = names, !.done = done,
                      !.denied = denied]
    BY DEF Observed, CaseRow
  <1> HIDE DEF names, denied
  <1> QED
    BY <1>1, <1>2, <1>3 DEF CaseRow

-----------------------------------------------------------------------------
(* What a step of the runner does to its case.                             *)

Written(row) == /\ At \in CaseIds /\ row \in CaseRow
                /\ cases' = [cases EXCEPT ![At] = row]
SameCounts(row) == /\ row.calls = Case.calls /\ row.observed = Case.observed
                   /\ row.done = Case.done
Steady == /\ node'.calls = node.calls /\ node'.tools = node.tools
          /\ node'.used = node.used
Quiet  == UNCHANGED <<retrievals, attempts, asked, sent>>
Stays  == node'.at = At
Leaves == node'.at = At + 1 /\ node'.step = "enter"

MayResolve == \/ IsResolved(At)
              \/ kind = "QUOTE" /\ At \in NonBlocking

Passes == /\ UNCHANGED cases /\ Quiet /\ Steady
          /\ \/ node.step = "enter" /\ Leaves
             \/ Stays /\ node'.step \in {"failed", "ended"}
             \/ Stays /\ node.step = "asked" /\ node'.step = "reserve"
             \/ Stays /\ node.step = "observed" /\ node'.step = "loop"

Finishes(row) == /\ Written(row) /\ SameCounts(row) /\ Quiet /\ Steady /\ Leaves
                 /\ row.status \in Final
                 /\ row.status = "RESOLVED" => MayResolve

GoesOn(row) == /\ Written(row) /\ SameCounts(row) /\ Quiet /\ Steady /\ Stays
               /\ row.status = "RUNNING" /\ node'.step = "loop" /\ (~IsNode => At = 1)

Asks(row) == /\ Written(row) /\ Stays
             /\ row.status = Case.status /\ row.calls = Case.calls + 1
             /\ row.observed = Case.observed /\ row.done = Case.done
             /\ node.step = "loop" /\ node'.step = "asked"
             /\ node.calls < MaxModelCalls /\ Room
             /\ node'.calls = node.calls + 1 /\ node'.tools = node.tools
             /\ node'.used = node.used
             /\ asked' \in {asked, asked + 1} /\ UNCHANGED <<retrievals, attempts, sent>>

Sees(row) == /\ Written(row) /\ Quiet /\ Stays
             /\ row.status = Case.status /\ row.calls = Case.calls
             /\ row.observed = Case.observed + 1 /\ Case.done \subseteq row.done
             /\ kind = "DECISION" /\ "brief" \in row.done =>
                  "brief" \in Case.done \/ required \subseteq row.done
             /\ node.step \in Waiting /\ node'.step \in {"loop", "observed"}
             /\ node'.calls = node.calls /\ node'.tools = node.tools + 1
             /\ node'.used = node.used

Concludes(row) == /\ kind = "DECISION" /\ Written(row) /\ Quiet /\ Steady /\ Leaves
                  /\ node.step \in {"loop", "asked"}
                  /\ row.status \in Final /\ row.calls = Case.calls
                  /\ row.observed - Case.observed \in 0 .. (MaxToolCalls - node.tools)
                  /\ Case.done \subseteq row.done
                  /\ row.status = "RESOLVED" => required \subseteq row.done
                  /\ "brief" \in row.done =>
                       "brief" \in Case.done \/ required \subseteq row.done

Reserves == /\ UNCHANGED <<cases, retrievals, asked, sent>> /\ Steady /\ Stays
            /\ node.step = "reserve" /\ node'.step = "retrying"
            /\ attempts < MaxRetries /\ attempts' = attempts + 1

Sends == /\ UNCHANGED <<cases, attempts, asked>> /\ Stays
         /\ node.step = "retrying" /\ node'.step = "retrieved"
         /\ node'.calls = node.calls /\ node'.tools = node.tools
         /\ sent' = sent + 1
         /\ retrievals' \in [CaseIds -> [version : Nat, status : Statuses]]
         /\ \A c \in CaseIds : /\ c # At => retrievals'[c] = retrievals[c]
                               /\ node'.used[c] - node.used[c] =
                                    retrievals'[c].version - retrievals[c].version

Moves == /\ UNCHANGED world /\ node' \in NodeRow /\ node.step # "off"
         /\ \/ Passes \/ Reserves \/ Sends
            \/ \E row \in CaseRow : \/ Finishes(row) \/ GoesOn(row) \/ Asks(row)
                                    \/ Sees(row) \/ Concludes(row)

LEMMA CaseTyped ==
  ASSUME TypeOK, At \in CaseIds
  PROVE  Case \in CaseRow /\ Case.calls \in Nat /\ Case.observed \in Nat
  BY DEF TypeOK, Case, At, CaseRow

LEMMA SignatureTyped ==
  ASSUME TypeOK, At \in CaseIds, NEW name \in Names
  PROVE  Signature(node, name) \in Names \X Int
  BY DEF TypeOK, Signature, NodeRow, At

\* The runner goes to the next case.
LEMMA NextCaseLeaves ==
  ASSUME TypeOK, NextCase
  PROVE  node' \in NodeRow /\ Steady /\ Leaves
  <1>1. PICK next \in Nat \ {0} : next = node.at + 1
    BY DEF TypeOK, NodeRow
  <1>2. node' = [node EXCEPT !.at = next, !.step = "enter", !.seen = {}, !.name = "none"]
    BY <1>1 DEF NextCase, TypeOK, NodeRow
  <1>3. "none" \in Names /\ "enter" \in Steps
    BY DEF Names, Steps
  <1>4. node' \in NodeRow
    BY <1>2, <1>3 DEF TypeOK, NodeRow
  <1> QED
    BY <1>1, <1>2, <1>4 DEF TypeOK, NodeRow, Steady, Leaves, At

LEMMA FinishMoves ==
  ASSUME TypeOK, At \in CaseIds, NEW status \in Final, Finish(status), Quiet,
         status = "RESOLVED" => MayResolve
  PROVE  node' \in NodeRow /\ \E row \in CaseRow : Finishes(row)
  <1> DEFINE row == [[Case EXCEPT !.status = status] EXCEPT !.saved = TRUE]
  <1>1. /\ row \in CaseRow /\ row.status = status /\ SameCounts(row)
    BY CaseTyped, StatusRow DEF SameCounts
  <1>2. cases' = [cases EXCEPT ![At] = row] /\ NextCase
    BY DEF Finish, Save, At
  <1> HIDE DEF row
  <1> QED
    BY <1>1, <1>2, NextCaseLeaves DEF Finishes, Written

LEMMA EnterMoves ==
  ASSUME CaseInv, Enter
  PROVE  Moves
  <1> USE DEF CaseInv
  <1>1. At \in CaseIds /\ node.step = "enter" /\ UNCHANGED world /\ Quiet
    BY DEF Enter, Quiet, Database, History
  <1>2. ASSUME Skip PROVE Moves
    BY <1>1, <1>2, NextCaseLeaves DEF Skip, Moves, Passes
  <1>3. ASSUME NEW status \in Final, Finish(status),
               status = "RESOLVED" => MayResolve
        PROVE  Moves
    BY <1>1, <1>3, FinishMoves DEF Moves
  <1>4. ASSUME At \in Ids, Save([Case EXCEPT !.status = "RUNNING"]),
               node' = [node EXCEPT !.step = "loop",
                          !.seen = {Signature(node, n) : n \in Case.names}]
        PROVE  Moves
    <2> DEFINE row == [[Case EXCEPT !.status = "RUNNING"] EXCEPT !.saved = TRUE]
               seen == {Signature(node, n) : n \in Case.names}
    <2>1. row \in CaseRow /\ row.status = "RUNNING" /\ SameCounts(row)
      BY <1>1, CaseTyped, StatusRow DEF SameCounts
    <2>2. cases' = [cases EXCEPT ![At] = row]
      BY <1>4 DEF Save, At
    <2>3. seen \in SUBSET (Names \X Int)
      BY <1>1, CaseTyped, SignatureTyped DEF CaseRow
    <2>4. node' = [node EXCEPT !.step = "loop", !.seen = seen]
      BY <1>4
    <2> HIDE DEF row, seen
    <2>5. node' \in NodeRow /\ Steady /\ Stays /\ node'.step = "loop"
      BY <2>3, <2>4 DEF TypeOK, NodeRow, Steps, Steady, Stays, At
    <2>6. ~IsNode => At = 1
      BY <1>4 DEF Ids, IsNode
    <2> QED
      BY <1>1, <2>1, <2>2, <2>5, <2>6 DEF Moves, GoesOn, Written
  <1>5. \/ Skip
        \/ \E status \in Final :
             /\ Finish(status)
             /\ status = "RESOLVED" => MayResolve
        \/ /\ At \in Ids /\ Save([Case EXCEPT !.status = "RUNNING"])
           /\ node' = [node EXCEPT !.step = "loop",
                          !.seen = {Signature(node, n) : n \in Case.names}]
    BY DEF Enter, Final, MayResolve
  <1> QED
    BY <1>2, <1>3, <1>4, <1>5

\* The brief is offered once the plan is done, and is no check of a plan.
LEMMA BriefAfterPlan ==
  ASSUME TypeOK, NEW case, "OK" \in DecisionResults(case, "brief")
  PROVE  required \subseteq case.done
  BY ChecksAreNames DEF DecisionResults, Available

LEMMA ConcludedRow ==
  ASSUME NEW row \in CaseRow
  PROVE  LET new == [[Observed(row, "brief", "OK") EXCEPT !.status = "RESOLVED"]
                       EXCEPT !.saved = TRUE] IN
         /\ new \in CaseRow /\ new.status = "RESOLVED" /\ new.calls = row.calls
         /\ new.observed = row.observed + 1 /\ new.done = row.done \cup {"brief"}
  <1> DEFINE seen == Observed(row, "brief", "OK")
             kept == [seen EXCEPT !.saved = TRUE]
  <1>1. /\ seen \in CaseRow /\ seen.calls = row.calls /\ seen.observed = row.observed + 1
        /\ seen.done = row.done \cup {"brief"}
    <2>1. "brief" \in Names
      BY DEF Names
    <2>2. seen = Observed(row, "brief", "OK") /\ kept = [seen EXCEPT !.saved = TRUE]
      OBVIOUS
    <2> HIDE DEF seen, kept
    <2> QED
      BY <2>1, <2>2, ObservedRow
  <1> HIDE DEF seen
  <1>2. "RESOLVED" \in {"PLANNED", "RUNNING"} \cup Final
    BY DEF Final
  <1> QED
    BY <1>1, <1>2, StatusRow DEF seen

LEMMA FinalizeMoves ==
  ASSUME TypeOK, At \in CaseIds, node.step \in {"loop", "asked"}, CanFinalize(Case),
         Finalize, Quiet
  PROVE  node' \in NodeRow /\ \E row \in CaseRow : Concludes(row)
  <1> DEFINE row == [[Observed(Case, "brief", "OK") EXCEPT !.status = "RESOLVED"]
                       EXCEPT !.saved = TRUE]
  <1>1. /\ row \in CaseRow /\ row.status = "RESOLVED" /\ row.calls = Case.calls
        /\ row.observed = Case.observed + 1 /\ row.done = Case.done \cup {"brief"}
    BY CaseTyped, ConcludedRow
  <1>2. cases' = [cases EXCEPT ![At] = row] /\ NextCase
    BY DEF Finalize, Save, At
  <1>3. kind = "DECISION" /\ node.tools < MaxToolCalls /\ required \subseteq Case.done
    BY BriefAfterPlan DEF CanFinalize
  <1> HIDE DEF row
  <1>4. row.observed - Case.observed \in 0 .. (MaxToolCalls - node.tools)
    BY <1>1, <1>3, CaseTyped, Constants DEF TypeOK, NodeRow
  <1>5. row.status \in Final
    BY <1>1 DEF Final
  <1> QED
    BY <1>1, <1>2, <1>3, <1>4, <1>5, NextCaseLeaves DEF Concludes, Written

LEMMA LoopMoves ==
  ASSUME CaseInv, Loop
  PROVE  Moves
  <1> USE DEF CaseInv
  <1> DEFINE Ends(status) == /\ Finish(status) /\ UNCHANGED asked
                             /\ status = "RESOLVED" => MayResolve
             Counts == /\ ~OutOfBudget /\ Save([Case EXCEPT !.calls = @ + 1])
                       /\ node' = [node EXCEPT !.step = "asked", !.calls = @ + 1]
                       /\ asked' = IF asked > MaxModelCalls THEN asked ELSE asked + 1
  <1>1. /\ At \in CaseIds /\ node.step = "loop" /\ UNCHANGED world
        /\ UNCHANGED <<retrievals, attempts, sent>>
    BY DEF Loop, WorkHolds, Working, Database
  <1>2. ASSUME NEW status \in Final, Ends(status)
        PROVE  Moves
    BY <1>1, <1>2, FinishMoves DEF Moves, Quiet
  <1>3. ASSUME CanFinalize(Case), Finalize, UNCHANGED asked
        PROVE  Moves
    BY <1>1, <1>3, FinalizeMoves DEF Moves, Quiet
  <1>4. ASSUME Counts
        PROVE  Moves
    <2> DEFINE row == [[Case EXCEPT !.calls = @ + 1] EXCEPT !.saved = TRUE]
    <2>1. /\ row \in CaseRow /\ row.status = Case.status /\ row.calls = Case.calls + 1
          /\ row.observed = Case.observed /\ row.done = Case.done
      BY <1>1, CaseTyped, CountedRow
    <2>2. cases' = [cases EXCEPT ![At] = row]
      BY <1>4 DEF Save, At
    <2> HIDE DEF row
    <2>3. PICK calls \in Nat : calls = node.calls + 1
      BY DEF TypeOK, NodeRow
    <2>4. node' = [node EXCEPT !.step = "asked", !.calls = calls]
      BY <1>4, <2>3 DEF TypeOK, NodeRow
    <2>5. /\ node' \in NodeRow /\ Stays /\ node'.step = "asked"
          /\ node'.calls = node.calls + 1 /\ node'.tools = node.tools
          /\ node'.used = node.used
      BY <2>3, <2>4 DEF TypeOK, NodeRow, Steps, Stays, At
    <2>6. node.calls < MaxModelCalls /\ Room
      BY <1>4, Constants DEF OutOfBudget, Room, TypeOK, NodeRow
    <2>7. Asks(row)
      BY <1>1, <1>4, <2>1, <2>2, <2>5, <2>6 DEF Asks, Written
    <2> QED
      BY <1>1, <2>1, <2>5, <2>7 DEF Moves
  <1>5. \/ \E status \in Final : Ends(status)
        \/ CanFinalize(Case) /\ Finalize /\ UNCHANGED asked
        \/ Counts
    BY DEF Loop, Final, MayResolve
  <1> HIDE DEF Counts, Ends
  <1> QED
    BY <1>2, <1>3, <1>4, <1>5

LEMMA FailsMoves ==
  ASSUME CaseInv, PlannerFails
  PROVE  Moves
  <1> USE DEF CaseInv
  <1> DEFINE left  == IF question THEN Checks \ Case.done ELSE {}
             slots == MaxToolCalls - 1 - node.tools
             case(made) == [Case EXCEPT !.done = @ \cup made, !.names = @ \cup made,
                                        !.observed = @ + Cardinality(made)]
  <1>1. /\ At \in CaseIds /\ node.step = "asked" /\ UNCHANGED world /\ Quiet
    BY DEF PlannerFails, WorkHolds, Working, Quiet, Database, History
  <1>2. ASSUME NEW status \in Final, Finish(status), status # "RESOLVED"
        PROVE  Moves
    BY <1>1, <1>2, FinishMoves DEF Moves
  <1>3. ASSUME NEW made \in SUBSET left, kind = "DECISION", Cardinality(made) <= slots,
               NextCase,
               \/ /\ DecisionResults(case(made), "brief") = {"OK"}
                  /\ Save([Observed(case(made), "brief", "OK") EXCEPT !.status = "RESOLVED"])
               \/ \E status \in {"WAITING_INPUT", "LIMIT_REACHED"} :
                     Save([case(made) EXCEPT !.status = status])
        PROVE  Moves
    <2>1. made \subseteq Checks /\ Cardinality(made) \in Nat
      BY ChecksAreNames, FS_Subset, FS_CardinalityType
    <2>2. PICK names \in SUBSET Names : names = Case.names \cup made
      BY <1>1, <2>1, CaseTyped, ChecksAreNames DEF CaseRow
    <2>3. PICK done \in SUBSET Names : done = Case.done \cup made
      BY <1>1, <2>1, CaseTyped, ChecksAreNames DEF CaseRow
    <2>4. PICK seen \in Nat : seen = Case.observed + Cardinality(made)
      BY <1>1, <2>1, CaseTyped
    <2>5. case(made) = [Case EXCEPT !.done = done, !.names = names, !.observed = seen]
      BY <1>1, <2>2, <2>3, <2>4, CaseTyped DEF CaseRow
    <2>6. /\ case(made) \in CaseRow /\ case(made).calls = Case.calls
          /\ case(made).observed = seen /\ case(made).done = done
      BY <1>1, <2>5, CaseTyped DEF CaseRow
    <2> HIDE DEF case
    <2>7. "brief" \in done => "brief" \in Case.done
      BY <2>1, <2>3, ChecksAreNames
    <2>8. node.tools \in Nat /\ MaxToolCalls \in Nat /\ seen - Case.observed <= slots
          /\ seen - Case.observed \in Nat
      BY <1>1, <1>3, <2>1, <2>4, Constants, CaseTyped DEF TypeOK, NodeRow
    <2>9. CASE /\ DecisionResults(case(made), "brief") = {"OK"}
               /\ Save([Observed(case(made), "brief", "OK") EXCEPT !.status = "RESOLVED"])
      <3> DEFINE row == [[Observed(case(made), "brief", "OK") EXCEPT !.status = "RESOLVED"]
                           EXCEPT !.saved = TRUE]
      <3>1. /\ row \in CaseRow /\ row.status = "RESOLVED" /\ row.calls = Case.calls
            /\ row.observed = seen + 1 /\ row.done = done \cup {"brief"}
        BY <2>6, ConcludedRow
      <3>2. cases' = [cases EXCEPT ![At] = row]
        BY <2>9 DEF Save, At
      <3>3. required \subseteq done
        BY <2>6, <2>9, BriefAfterPlan
      <3> HIDE DEF row
      <3>4. row.observed - Case.observed \in 0 .. (MaxToolCalls - node.tools)
        BY <1>1, <2>8, <3>1, CaseTyped
      <3>5. Concludes(row)
        BY <1>1, <1>3, <2>3, <3>1, <3>2, <3>3, <3>4, NextCaseLeaves
        DEF Concludes, Written, Final
      <3> QED
        BY <1>1, <1>3, <3>1, <3>5, NextCaseLeaves DEF Moves
    <2>10. ASSUME NEW status \in {"WAITING_INPUT", "LIMIT_REACHED"},
                  Save([case(made) EXCEPT !.status = status])
           PROVE  Moves
      <3> DEFINE row == [[case(made) EXCEPT !.status = status] EXCEPT !.saved = TRUE]
      <3>1. status \in Final /\ status # "RESOLVED"
        BY DEF Final
      <3>2. /\ row \in CaseRow /\ row.status = status /\ row.calls = Case.calls
            /\ row.observed = seen /\ row.done = done
        BY <2>6, <3>1, StatusRow
      <3>3. cases' = [cases EXCEPT ![At] = row]
        BY <2>10 DEF Save, At
      <3> HIDE DEF row
      <3>4. row.observed - Case.observed \in 0 .. (MaxToolCalls - node.tools)
        BY <1>1, <2>8, <3>2, CaseTyped
      <3>5. Concludes(row)
        BY <1>1, <1>3, <2>3, <2>7, <3>1, <3>2, <3>3, <3>4, NextCaseLeaves
        DEF Concludes, Written
      <3> QED
        BY <1>1, <1>3, <3>2, <3>5, NextCaseLeaves DEF Moves
    <2> QED
      BY <1>3, <2>9, <2>10
  <1>4. \/ \E status \in Final : Finish(status) /\ status # "RESOLVED"
        \/ \E made \in SUBSET left :
             /\ kind = "DECISION" /\ Cardinality(made) <= slots /\ NextCase
             /\ \/ /\ DecisionResults(case(made), "brief") = {"OK"}
                   /\ Save([Observed(case(made), "brief", "OK") EXCEPT !.status = "RESOLVED"])
                \/ \E status \in {"WAITING_INPUT", "LIMIT_REACHED"} :
                      Save([case(made) EXCEPT !.status = status])
    BY DEF PlannerFails, Final
  <1> QED
    BY <1>2, <1>3, <1>4

LEMMA VoidMoves ==
  ASSUME CaseInv, AnswerIsVoid
  PROVE  Moves
  <1>1. /\ TypeOK /\ At \in CaseIds /\ node.step = "asked" /\ UNCHANGED world /\ Quiet
    BY DEF CaseInv, AnswerIsVoid, WorkHolds, Working, Quiet, Database, History
  <1>2. \E status \in Final : Finish(status) /\ status # "RESOLVED"
    BY DEF AnswerIsVoid, Final
  <1> QED
    BY <1>1, <1>2, FinishMoves DEF Moves

Offered(name, status) ==
  kind = "DECISION" /\ name = "brief" /\ status \in {"OK", "NOT_FOUND"} =>
    required \subseteq Case.done

\* An observation is saved, and the runner remembers the call or not.
LEMMA SeenMoves ==
  ASSUME TypeOK, At \in CaseIds, node.step \in Waiting, Quiet,
         NEW name \in Names, NEW status, Save(Observed(Case, name, status)),
         NEW step \in {"loop", "observed"}, NEW as \in Names,
         NEW seen \in SUBSET (Names \X Int),
         node' = [node EXCEPT !.step = step, !.tools = @ + 1, !.name = as, !.seen = seen],
         Offered(name, status)
  PROVE  node' \in NodeRow /\ \E row \in CaseRow : Sees(row)
  <1> DEFINE new == Observed(Case, name, status)
             row == [new EXCEPT !.saved = TRUE]
  <1>1. /\ row \in CaseRow /\ row.status = Case.status /\ row.calls = Case.calls
        /\ row.observed = Case.observed + 1
        /\ row.done = Case.done \/ row.done = Case.done \cup {name}
        /\ status \notin {"OK", "NOT_FOUND"} => row.done = Case.done
    <2>1. Case \in CaseRow
      BY CaseTyped
    <2> HIDE DEF new
    <2>2. new = Observed(Case, name, status)
      BY DEF new
    <2> QED
      BY <2>1, <2>2, ObservedRow
  <1>2. cases' = [cases EXCEPT ![At] = row]
    BY DEF Save, At
  <1> HIDE DEF row
  <1>3. PICK tools \in Nat : tools = node.tools + 1
    BY DEF TypeOK, NodeRow
  <1>4. node' = [node EXCEPT !.step = step, !.tools = tools, !.name = as, !.seen = seen]
    BY <1>3 DEF TypeOK, NodeRow
  <1>5. /\ node' \in NodeRow /\ Stays /\ node'.step = step
        /\ node'.calls = node.calls /\ node'.tools = node.tools + 1
        /\ node'.used = node.used
    BY <1>3, <1>4 DEF TypeOK, NodeRow, Steps, Stays, At
  <1>6. /\ Case.done \subseteq row.done
        /\ kind = "DECISION" /\ "brief" \in row.done =>
             "brief" \in Case.done \/ required \subseteq row.done
    BY <1>1 DEF Offered
  <1> QED
    BY <1>1, <1>2, <1>5, <1>6 DEF Sees, Written

LEMMA NodeTyped ==
  ASSUME TypeOK
  PROVE  node.seen \in SUBSET (Names \X Int) /\ node.name \in Names
  BY DEF TypeOK, NodeRow

LEMMA ObserveMoves ==
  ASSUME TypeOK, At \in CaseIds, node.step \in Waiting, Quiet,
         NEW name \in Names, NEW status, Observe(name, status),
         Offered(name, status)
  PROVE  node' \in NodeRow /\ \E row \in CaseRow : Sees(row)
  <1>1. PICK seen \in SUBSET (Names \X Int) : seen = node.seen \cup {Signature(node, name)}
    BY NodeTyped, SignatureTyped
  <1>2. node' = [node EXCEPT !.step = "observed", !.tools = @ + 1, !.name = name, !.seen = seen]
    BY <1>1 DEF Observe
  <1>3. Save(Observed(Case, name, status))
    BY DEF Observe
  <1> QED
    BY <1>1, <1>2, <1>3, SeenMoves

LEMMA RefuseMoves ==
  ASSUME TypeOK, At \in CaseIds, node.step \in Waiting, Quiet,
         NEW name \in Names, Refuse(name)
  PROVE  node' \in NodeRow /\ \E row \in CaseRow : Sees(row)
  <1>1. PICK seen \in SUBSET (Names \X Int) : seen = node.seen
    BY NodeTyped
  <1>2. node' = [node EXCEPT !.step = "observed", !.tools = @ + 1, !.name = "none",
                             !.seen = seen]
    BY <1>1 DEF Refuse, TypeOK, NodeRow
  <1>3. PICK status : status = "DENIED"
    OBVIOUS
  <1>4. Save(Observed(Case, name, status)) /\ status \notin {"OK", "NOT_FOUND"}
    BY <1>3 DEF Refuse
  <1>5. PICK as \in Names : as = "none"
    BY DEF Names
  <1>6. PICK step \in {"loop", "observed"} : step = "observed"
    OBVIOUS
  <1>7. node' = [node EXCEPT !.step = step, !.tools = @ + 1, !.name = as, !.seen = seen]
    BY <1>2, <1>5, <1>6
  <1>8. Offered(name, status)
    BY <1>4 DEF Offered
  <1> QED
    BY <1>1, <1>4, <1>5, <1>6, <1>7, <1>8, SeenMoves

\* A brief that is made is offered.
LEMMA BriefIsOffered ==
  ASSUME TypeOK, kind = "DECISION", NEW status \in Results(Case, "brief"),
         status \in {"OK", "NOT_FOUND"}
  PROVE  required \subseteq Case.done
  <1>1. status \in DecisionResults(Case, "brief")
    BY DEF Results, DecisionResults
  <1>2. "OK" \in DecisionResults(Case, "brief")
    BY <1>1 DEF DecisionResults, BriefResults
  <1> QED
    BY <1>2, BriefAfterPlan

LEMMA StopsMoves ==
  ASSUME CaseInv, PlannerStops
  PROVE  Moves
  <1> USE DEF CaseInv
  <1> DEFINE Reads(f) == \E status \in Results(Case, f) :
                           /\ Save(Observed(Case, f, status))
                           /\ node' = [node EXCEPT !.step = "loop", !.tools = @ + 1,
                                                   !.seen = @ \cup {Signature(node, f)}]
  <1>1. /\ TypeOK /\ At \in CaseIds /\ node.step = "asked" /\ node.step \in Waiting
        /\ UNCHANGED world /\ Quiet /\ Case.status = "RUNNING" /\ (~IsNode => At = 1)
    BY DEF PlannerStops, Answered, WorkHolds, Working, Waiting, Quiet, Database, History,
           Case, At
  <1>2. ASSUME CanFinalize(Case), Finalize
        PROVE  Moves
    BY <1>1, <1>2, FinalizeMoves DEF Moves
  <1>3. ASSUME Finish("WAITING_INPUT")
        PROVE  Moves
    BY <1>1, <1>3, FinishMoves DEF Moves, Final
  <1>4. ASSUME NEW f \in Checks, Reads(f)
        PROVE  Moves
    <2>1. f \in Names /\ f # "brief"
      BY <1>1, ChecksAreNames
    <2>2. PICK status \in Results(Case, f) :
                 /\ Save(Observed(Case, f, status))
                 /\ node' = [node EXCEPT !.step = "loop", !.tools = @ + 1,
                                         !.seen = @ \cup {Signature(node, f)}]
      BY <1>4
    <2>3. PICK seen \in SUBSET (Names \X Int) : seen = node.seen \cup {Signature(node, f)}
      BY <1>1, <2>1, NodeTyped, SignatureTyped
    <2>4. PICK as \in Names : as = node.name
      BY <1>1, NodeTyped
    <2>0. PICK step \in {"loop", "observed"} : step = "loop"
      OBVIOUS
    <2>5. node' = [node EXCEPT !.step = step, !.tools = @ + 1, !.name = as, !.seen = seen]
      BY <1>1, <2>0, <2>2, <2>3, <2>4 DEF TypeOK, NodeRow
    <2>6. node' \in NodeRow /\ \E row \in CaseRow : Sees(row)
      <3>1. Offered(f, status) /\ Save(Observed(Case, f, status))
        BY <2>1, <2>2 DEF Offered
      <3> HIDE DEF Reads
      <3> QED
        BY <1>1, <2>0, <2>1, <2>3, <2>4, <2>5, <3>1, SeenMoves
    <2> QED
      BY <1>1, <2>6 DEF Moves
  <1>5. ASSUME AskAgain
        PROVE  Moves
    <2> DEFINE row == [[Case EXCEPT !.retried = TRUE] EXCEPT !.saved = TRUE]
    <2>1. row \in CaseRow /\ row.status = "RUNNING" /\ SameCounts(row)
      BY <1>1, CaseTyped, RetriedRow DEF SameCounts
    <2>2. cases' = [cases EXCEPT ![At] = row] /\ node' = [node EXCEPT !.step = "loop"]
      BY <1>5 DEF AskAgain, Save, At
    <2> HIDE DEF row
    <2>3. node' \in NodeRow /\ Steady /\ Stays /\ node'.step = "loop"
      BY <2>2 DEF TypeOK, NodeRow, Steps, Steady, Stays, At
    <2>4. GoesOn(row)
      BY <1>1, <2>1, <2>2, <2>3 DEF GoesOn, Written
    <2> QED
      BY <1>1, <2>1, <2>3, <2>4 DEF Moves
  <1>6. \/ CanFinalize(Case) /\ Finalize
        \/ \E f \in Checks : Reads(f)
        \/ AskAgain
        \/ Finish("WAITING_INPUT")
    BY DEF PlannerStops, Fallbacks
  <1> HIDE DEF Reads
  <1> QED
    BY <1>2, <1>3, <1>4, <1>5, <1>6

LEMMA CallsMoves ==
  ASSUME CaseInv, PlannerCalls
  PROVE  Moves
  <1> USE DEF CaseInv
  <1>1. /\ TypeOK /\ At \in CaseIds /\ node.step = "asked" /\ node.step \in Waiting
        /\ UNCHANGED world /\ Quiet
    BY DEF PlannerCalls, Answered, WorkHolds, Working, Waiting, Quiet, Database, History
  <1>2. ASSUME NEW run \in Names, Refuse(run)
        PROVE  Moves
    BY <1>1, <1>2, RefuseMoves DEF Moves
  <1>3. ASSUME NEW run \in Names, NEW status \in Results(Case, run) \cup {"DENIED"},
               Observe(run, status)
        PROVE  Moves
    <2>1. Offered(run, status)
      BY <1>1, BriefIsOffered DEF Offered
    <2> QED
      BY <1>1, <1>3, <2>1, ObserveMoves DEF Moves
  <1>4. ASSUME UNCHANGED cases, node' = [node EXCEPT !.step = "reserve"]
        PROVE  Moves
    <2>1. node' \in NodeRow /\ Steady /\ Stays /\ node'.step = "reserve"
      BY <1>1, <1>4 DEF TypeOK, NodeRow, Steps, Steady, Stays, At
    <2> QED
      BY <1>1, <1>4, <2>1 DEF Moves, Passes
  <1> DEFINE Sends1 == UNCHANGED cases /\ node' = [node EXCEPT !.step = "reserve"]
  <1>5. \E run \in Names : \/ Refuse(run)
                           \/ \E status \in Results(Case, run) \cup {"DENIED"} :
                                 Observe(run, status)
                           \/ Sends1
    <2>1. PICK name \in Tools \cup {"other"} : \E run \in Chosen(name) :
            \/ Refuse(run)
            \/ \E status \in Results(Case, run) \cup {"DENIED"} : Observe(run, status)
            \/ Sends1
      BY DEF PlannerCalls
    <2>2. Chosen(name) \subseteq Names
      BY <1>1, ChecksAreNames, Constants DEF Chosen
    <2> QED
      BY <2>1, <2>2
  <1> HIDE DEF Sends1
  <1>6. Sends1 => Moves
    BY <1>4 DEF Sends1
  <1> QED
    BY <1>2, <1>3, <1>5, <1>6

LEMMA RetryMoves ==
  ASSUME CaseInv, Reserve \/ ReserveRefused \/ Retrieve \/ Retrieved
  PROVE  Moves
  <1> USE DEF CaseInv
  <1>1. "retry" \in Names /\ TypeOK
    BY Constants
  <1>2. ASSUME Reserve
        PROVE  Moves
    <2>1. /\ At \in CaseIds /\ node.step = "reserve" /\ UNCHANGED world
          /\ UNCHANGED <<retrievals, asked, sent>>
      BY <1>2 DEF Reserve, WorkHolds, Working, History
    <2>2. CASE attempts >= MaxRetries
      <3>1. Observe("retry", "DENIED") /\ Quiet
        BY <1>2, <2>1, <2>2 DEF Reserve, Quiet
      <3>2. node.step \in Waiting /\ Offered("retry", "DENIED")
        BY <2>1 DEF Waiting, Offered
      <3>3. node' \in NodeRow /\ \E row \in CaseRow : Sees(row)
        BY <1>1, <2>1, <3>1, <3>2, ObserveMoves
      <3> QED
        BY <2>1, <3>3 DEF Moves
    <2>3. CASE ~(attempts >= MaxRetries)
      <3>1. /\ attempts' = attempts + 1 /\ node' = [node EXCEPT !.step = "retrying"]
            /\ UNCHANGED cases
        BY <1>2, <2>3 DEF Reserve
      <3>2. node' \in NodeRow /\ Steady /\ Stays /\ node'.step = "retrying"
        BY <3>1 DEF TypeOK, NodeRow, Steps, Steady, Stays, At
      <3>3. attempts < MaxRetries
        BY <2>3, Constants DEF TypeOK
      <3> QED
        BY <2>1, <3>1, <3>2, <3>3 DEF Moves, Reserves
    <2> QED
      BY <2>2, <2>3
  <1>3. ASSUME ReserveRefused
        PROVE  Moves
    <2>1. node' \in NodeRow /\ Steady /\ Stays /\ node'.step = "failed"
      BY <1>3 DEF ReserveRefused, TypeOK, NodeRow, Steps, Steady, Stays, At
    <2> QED
      BY <1>3, <2>1 DEF ReserveRefused, Moves, Passes, Quiet, Database, History
  <1>4. ASSUME Retrieve
        PROVE  Moves
    <2>1. /\ At \in CaseIds /\ node.step = "retrying" /\ UNCHANGED world /\ sent' = sent + 1
          /\ UNCHANGED <<cases, attempts, asked>>
      BY <1>4 DEF Retrieve, WorkHolds, Working
    <2>2. PICK status \in Statuses :
            retrievals' = [retrievals EXCEPT ![At] = [version |-> @.version + 1,
                                                      status |-> status]]
      BY <1>4 DEF Retrieve
    <2>3. PICK newest \in Nat : newest = retrievals[At].version + 1
      BY <2>1 DEF TypeOK
    <2>4. retrievals' = [retrievals EXCEPT ![At] = [version |-> newest, status |-> status]]
      BY <2>1, <2>2, <2>3 DEF TypeOK
    <2>5. /\ retrievals' \in [CaseIds -> [version : Nat, status : Statuses]]
          /\ retrievals'[At].version = retrievals[At].version + 1
          /\ \A c \in CaseIds \ {At} : retrievals'[c] = retrievals[c]
      BY <2>1, <2>3, <2>4 DEF TypeOK
    <2>6. node.used \in [CaseIds -> Nat]
      BY DEF TypeOK, NodeRow
    <2>7. PICK used \in [CaseIds -> Nat] : used = [node.used EXCEPT ![At] = @ + 1]
      <3>1. PICK version \in Nat : version = node.used[At] + 1
        BY <2>1, <2>6
      <3>2. [node.used EXCEPT ![At] = @ + 1] = [node.used EXCEPT ![At] = version]
        BY <2>1, <2>6, <3>1
      <3> QED
        BY <2>6, <3>2
    <2>8. node' = [node EXCEPT !.step = "retrieved", !.used = used]
      BY <1>4, <2>7 DEF Retrieve, TypeOK, NodeRow, At
    <2>9. /\ node' \in NodeRow /\ Stays /\ node'.step = "retrieved"
          /\ node'.calls = node.calls /\ node'.tools = node.tools /\ node'.used = used
      BY <2>8 DEF TypeOK, NodeRow, Steps, Stays, At
    <2>10. used[At] = node.used[At] + 1 /\ \A c \in CaseIds \ {At} : used[c] = node.used[c]
      BY <2>1, <2>6, <2>7
    <2>11. \A c \in CaseIds : /\ c # At => retrievals'[c] = retrievals[c]
                              /\ node'.used[c] - node.used[c] =
                                   retrievals'[c].version - retrievals[c].version
      <3>1. /\ retrievals[At].version \in Nat /\ node.used[At] \in Nat
            /\ \A c \in CaseIds : retrievals[c].version \in Nat /\ node.used[c] \in Nat
        BY <2>1, <2>6 DEF TypeOK
      <3> QED
        BY <2>5, <2>9, <2>10, <3>1
    <2> QED
      BY <2>1, <2>5, <2>9, <2>11 DEF Moves, Sends
  <1>5. ASSUME Retrieved
        PROVE  Moves
    <2>1. /\ At \in CaseIds /\ node.step = "retrieved" /\ node.step \in Waiting
          /\ UNCHANGED world /\ Quiet
      BY <1>5 DEF Retrieved, WorkHolds, Working, Waiting, Quiet, Database, History
    <2>2. PICK status : Save(Observed(Case, "retry", status))
      BY <1>5 DEF Retrieved
    <2>3. node.used[At] \in Nat
      BY <2>1 DEF TypeOK, NodeRow
    <2>4. PICK seen \in SUBSET (Names \X Int) :
             seen = node.seen \cup {<<"retry", node.used[node.at] - 1>>}
      <3>1. <<"retry", node.used[At] - 1>> \in Names \X Int
        BY <1>1, <2>3
      <3> QED
        BY <1>1, <3>1, NodeTyped DEF At
    <2>5. node' = [node EXCEPT !.step = "observed", !.tools = @ + 1, !.name = "retry",
                               !.seen = seen]
      BY <1>5, <2>4 DEF Retrieved
    <2>6. node' \in NodeRow /\ \E row \in CaseRow : Sees(row)
      <3>1. Offered("retry", status) /\ "observed" \in {"loop", "observed"}
        BY DEF Offered
      <3> QED
        BY <1>1, <2>1, <2>2, <2>4, <2>5, <3>1, SeenMoves
    <2> QED
      BY <2>1, <2>6 DEF Moves
  <1> QED
    BY <1>2, <1>3, <1>4, <1>5

LEMMA AfterMoves ==
  ASSUME CaseInv, AfterObservation \/ End
  PROVE  Moves
  <1> USE DEF CaseInv
  <1>1. /\ TypeOK /\ UNCHANGED world /\ Quiet /\ node.step \in {"observed", "enter"}
    BY DEF AfterObservation, End, Quiet, Database, History
  <1>2. ASSUME End
        PROVE  Moves
    <2>1. PICK step \in {"failed", "ended"} : node' = [node EXCEPT !.step = step]
      BY <1>2 DEF End
    <2>2. node' \in NodeRow /\ Steady /\ Stays /\ node'.step = step
      BY <2>1 DEF TypeOK, NodeRow, Steps, Steady, Stays, At
    <2> QED
      BY <1>1, <1>2, <2>2 DEF End, Moves, Passes
  <1>3. ASSUME AfterObservation
        PROVE  Moves
    <2> DEFINE Ends(status) == Finish(status) /\ (status = "RESOLVED" => MayResolve)
               Loops == UNCHANGED cases /\ node' = [node EXCEPT !.step = "loop"]
    <2>1. At \in CaseIds /\ node.step = "observed"
      BY <1>3 DEF AfterObservation, WorkHolds, Working
    <2>2. ASSUME NEW status \in Final, Ends(status)
          PROVE  Moves
      BY <1>1, <2>1, <2>2, FinishMoves DEF Moves
    <2>3. ASSUME Loops
          PROVE  Moves
      <3>1. node' \in NodeRow /\ Steady /\ Stays /\ node'.step = "loop"
        BY <2>3 DEF TypeOK, NodeRow, Steps, Steady, Stays, At
      <3> QED
        BY <1>1, <2>1, <2>3, <3>1 DEF Moves, Passes
    <2>4. Loops \/ \E status \in Final : Ends(status)
      BY <1>3 DEF AfterObservation, Final, MayResolve
    <2> HIDE DEF Ends, Loops
    <2> QED
      BY <2>2, <2>3, <2>4
  <1> QED
    BY <1>2, <1>3

\* Every step of the runner is one of these.
LEMMA RunnerMoves ==
  ASSUME CaseInv, RunnerStep
  PROVE  Moves
  BY EnterMoves, LoopMoves, FailsMoves, VoidMoves, StopsMoves, CallsMoves, RetryMoves,
     AfterMoves DEF RunnerStep

-----------------------------------------------------------------------------
(* What was spent.                                                         *)

Calls == [c \in CaseIds |-> cases[c].calls]
Seen  == [c \in CaseIds |-> cases[c].observed]

LEMMA SpentIsTotal ==
  /\ Spent("calls") = Total(Calls)[Most] /\ Spent("observed") = Total(Seen)[Most]
  /\ Spent("calls")' = Total(Calls')[Most] /\ Spent("observed")' = Total(Seen')[Most]
  BY DEF Spent, Calls, Seen, Total

LEMMA SpentTyped ==
  ASSUME TypeOK
  PROVE  /\ Calls \in [CaseIds -> Nat] /\ Seen \in [CaseIds -> Nat]
         /\ Spent("calls") \in Nat /\ Spent("observed") \in Nat
  <1>1. Calls \in [CaseIds -> Nat] /\ Seen \in [CaseIds -> Nat]
    BY DEF TypeOK, CaseRow, Calls, Seen
  <1>2. Most \in 0 .. Most
    BY MostIsNat
  <1> QED
    BY <1>1, <1>2, TotalSums, SpentIsTotal

\* A case that is written changes the sums by what it has spent itself.
LEMMA WrittenSpends ==
  ASSUME TypeOK, NEW row \in CaseRow, Written(row),
         row.calls - Case.calls \in Nat, row.observed - Case.observed \in Nat
  PROVE  /\ Spent("calls")' = Spent("calls") + (row.calls - Case.calls)
         /\ Spent("observed")' = Spent("observed") + (row.observed - Case.observed)
  <1>1. At \in CaseIds /\ cases' = [cases EXCEPT ![At] = row] /\ Case = cases[At]
    BY DEF Written, Case, At
  <1>2. PICK calls \in Nat : calls = row.calls - Case.calls
    OBVIOUS
  <1>3. PICK seen \in Nat : seen = row.observed - Case.observed
    OBVIOUS
  <1>4. /\ row.calls \in Nat /\ row.observed \in Nat
        /\ Case.calls \in Nat /\ Case.observed \in Nat
    BY <1>1, CaseTyped DEF CaseRow
  <1>a. \A c \in CaseIds : cases'[c] = IF c = At THEN row ELSE cases[c]
    BY <1>1 DEF TypeOK
  <1>5. Calls' = [Calls EXCEPT ![At] = Calls[At] + calls]
    <2>1. \A c \in CaseIds : Calls[c] = cases[c].calls /\ Calls'[c] = cases'[c].calls
      BY DEF Calls
    <2>2. \A c \in CaseIds : Calls'[c] = IF c = At THEN Calls[At] + calls ELSE Calls[c]
      BY <1>1, <1>2, <1>3, <1>4, <1>a, <2>1
    <2>3. Calls = [c \in CaseIds |-> Calls[c]] /\ Calls' = [c \in CaseIds |-> Calls'[c]]
      BY DEF Calls
    <2> QED
      BY <1>1, <2>2, <2>3
  <1>6. Seen' = [Seen EXCEPT ![At] = Seen[At] + seen]
    <2>1. \A c \in CaseIds : Seen[c] = cases[c].observed /\ Seen'[c] = cases'[c].observed
      BY DEF Seen
    <2>2. \A c \in CaseIds : Seen'[c] = IF c = At THEN Seen[At] + seen ELSE Seen[c]
      BY <1>1, <1>2, <1>3, <1>4, <1>a, <2>1
    <2>3. Seen = [c \in CaseIds |-> Seen[c]] /\ Seen' = [c \in CaseIds |-> Seen'[c]]
      BY DEF Seen
    <2> QED
      BY <1>1, <2>2, <2>3
  <1>7. Total(Calls')[Most] = Total(Calls)[Most] + calls
    BY <1>1, <1>5, SpentTyped, TotalGrows
  <1>8. Total(Seen')[Most] = Total(Seen)[Most] + seen
    BY <1>1, <1>6, SpentTyped, TotalGrows
  <1> QED
    BY <1>2, <1>3, <1>7, <1>8, SpentIsTotal

LEMMA UnchangedSpends ==
  ASSUME UNCHANGED cases
  PROVE  Spent("calls")' = Spent("calls") /\ Spent("observed")' = Spent("observed")
  BY DEF Spent, Total

-----------------------------------------------------------------------------
(* The invariant is kept by the runner.                                    *)

\* The kinds of steps, with what they leave alone.
LEMMA MoveCases ==
  ASSUME CaseInv, Moves
  PROVE  /\ UNCHANGED <<world, IsNode>> /\ node' \in NodeRow
         /\ node.step # "off" /\ node'.step # "off"
         /\ \/ Passes \/ Reserves \/ Sends
            \/ \E row \in CaseRow : /\ Written(row)
                                    /\ \/ Finishes(row) \/ GoesOn(row) \/ Asks(row)
                                       \/ Sees(row) \/ Concludes(row)
  <1>1. UNCHANGED <<world, IsNode>> /\ node' \in NodeRow /\ node.step # "off"
    BY DEF Moves, world, IsNode
  <1>2. Passes \/ Reserves \/ Sends => node'.step # "off"
    BY DEF Passes, Reserves, Sends, Leaves
  <1>3. ASSUME NEW row \in CaseRow,
               Finishes(row) \/ GoesOn(row) \/ Asks(row) \/ Sees(row) \/ Concludes(row)
        PROVE  node'.step # "off" /\ Written(row)
    BY <1>3 DEF Finishes, GoesOn, Asks, Sees, Concludes, Leaves
  <1> QED
    BY <1>1, <1>2, <1>3 DEF Moves

LEMMA WrittenRows ==
  ASSUME TypeOK, NEW row \in CaseRow, Written(row)
  PROVE  /\ cases' \in [CaseIds -> CaseRow] /\ cases'[At] = row /\ cases[At] = Case
         /\ \A c \in CaseIds \ {At} : cases'[c] = cases[c]
  BY DEF Written, TypeOK, Case, At

LEMMA MovesKeepTypes ==
  ASSUME CaseInv, Moves
  PROVE  TypeOK'
  <1> USE DEF CaseInv
  <1>1. UNCHANGED world /\ node' \in NodeRow
    BY MoveCases
  <1>2. cases' \in [CaseIds -> CaseRow]
    <2>1. Passes \/ Reserves \/ Sends => UNCHANGED cases
      BY DEF Passes, Reserves, Sends
    <2> QED
      BY <2>1, MoveCases, WrittenRows DEF TypeOK
  <1>3. /\ retrievals' \in [CaseIds -> [version : Nat, status : Statuses]]
        /\ attempts' \in Nat /\ sent' \in Nat /\ asked' \in Nat
    <2>1. Quiet => UNCHANGED <<retrievals, attempts, asked, sent>>
      BY DEF Quiet
    <2> QED
      BY <2>1 DEF Moves, Passes, Reserves, Sends, Finishes, GoesOn, Asks, Sees, Concludes,
                  TypeOK
  <1> QED
    BY <1>1, <1>2, <1>3 DEF TypeOK, world

LEMMA MovesKeepWork ==
  ASSUME CaseInv, Moves
  PROVE  WorkHolds'
  <1> USE DEF CaseInv
  <1> SUFFICES ASSUME node'.step \in Working
               PROVE  /\ Stays /\ At \in CaseIds /\ cases'[At].status = "RUNNING"
                      /\ ~IsNode => At = 1
    BY MoveCases DEF WorkHolds, At, Stays
  <1>1. node'.step # "enter" /\ ~Leaves
    BY DEF Working, Leaves
  <1>2. CASE Passes
    BY <1>1, <1>2 DEF Passes, WorkHolds, Working
  <1>3. CASE Reserves \/ Sends
    BY <1>3 DEF Reserves, Sends, WorkHolds, Working
  <1>4. ASSUME NEW row \in CaseRow, Written(row),
               Finishes(row) \/ GoesOn(row) \/ Asks(row) \/ Sees(row) \/ Concludes(row)
        PROVE  /\ Stays /\ At \in CaseIds /\ cases'[At].status = "RUNNING"
               /\ ~IsNode => At = 1
    <2>1. cases'[At] = row /\ cases[At] = Case /\ At \in CaseIds
      BY <1>4, WrittenRows DEF Written
    <2>2. CASE GoesOn(row)
      BY <2>1, <2>2 DEF GoesOn
    <2>3. CASE Asks(row) \/ Sees(row)
      <3>1. Stays /\ node.step \in Working /\ row.status = Case.status
        BY <2>3 DEF Asks, Sees, Waiting, Working
      <3> QED
        BY <2>1, <3>1 DEF WorkHolds
    <2>4. ~Finishes(row) /\ ~Concludes(row)
      BY <1>1 DEF Finishes, Concludes
    <2> QED
      BY <1>4, <2>2, <2>3, <2>4
  <1> QED
    BY <1>2, <1>3, <1>4, MoveCases

\* The case of the runner is not resolved while it is at work.
LEMMA AtWork ==
  ASSUME CaseInv, node.step \in Working
  PROVE  At \in CaseIds /\ Case.status = "RUNNING" /\ (~IsNode => At = 1)
  BY DEF CaseInv, WorkHolds, Case, At

LEMMA MovesKeepProof ==
  ASSUME CaseInv, Moves
  PROVE  ResolvedIsProven' /\ BriefsHold'
  <1> USE DEF CaseInv
  <1>1. UNCHANGED <<kind, required>>
    BY MoveCases DEF world
  <1>2. CASE Passes \/ Reserves
    <2>1. UNCHANGED <<cases, retrievals>>
      BY <1>2 DEF Passes, Reserves, Quiet
    <2> QED
      BY <1>1, <2>1 DEF ResolvedIsProven, BriefsHold
  <1>3. CASE Sends
    <2>1. /\ UNCHANGED cases /\ \A c \in CaseIds \ {At} : retrievals'[c] = retrievals[c]
          /\ node.step \in Working
      BY <1>3 DEF Sends, Working
    <2>2. Case.status = "RUNNING" /\ Case = cases[At]
      BY <2>1, AtWork DEF Case, At
    <2> QED
      BY <1>1, <2>1, <2>2 DEF ResolvedIsProven, BriefsHold
  <1>4. ASSUME NEW row \in CaseRow, Written(row),
               Finishes(row) \/ GoesOn(row) \/ Asks(row) \/ Sees(row) \/ Concludes(row)
        PROVE  ResolvedIsProven' /\ BriefsHold'
    <2>1. /\ cases'[At] = row /\ cases[At] = Case /\ At \in CaseIds
          /\ \A c \in CaseIds \ {At} : cases'[c] = cases[c]
      BY <1>4, WrittenRows DEF Written
    <2>2. UNCHANGED retrievals
      BY <1>4 DEF Finishes, GoesOn, Asks, Sees, Concludes, Quiet
    <2>3. kind = "DECISION" /\ "brief" \in row.done => required \subseteq row.done
      <3>1. kind = "DECISION" /\ "brief" \in Case.done => required \subseteq Case.done
        BY <2>1 DEF BriefsHold
      <3>2. Finishes(row) \/ GoesOn(row) \/ Asks(row) => row.done = Case.done
        BY DEF Finishes, GoesOn, Asks, SameCounts
      <3> QED
        BY <1>4, <3>1, <3>2 DEF Sees, Concludes
    <2>4. BriefsHold'
      BY <1>1, <2>1, <2>3 DEF BriefsHold
    <2>5. row.status = "RESOLVED" =>
            CASE kind = "POLICY"   -> retrievals[At].status = "OK"
              [] kind = "DECISION" -> required \subseteq row.done
              [] kind = "REQUEST"  -> "analysis" \in row.done
              [] OTHER -> At \in NonBlocking
      <3> SUFFICES ASSUME row.status = "RESOLVED"
                   PROVE  CASE kind = "POLICY"   -> retrievals[At].status = "OK"
                            [] kind = "DECISION" -> required \subseteq row.done
                            [] kind = "REQUEST"  -> "analysis" \in row.done
                            [] OTHER -> At \in NonBlocking
        OBVIOUS
      <3>1. CASE Finishes(row)
        <4>1. MayResolve /\ row.done = Case.done
          BY <3>1 DEF Finishes, SameCounts
        <4>2. CASE kind = "QUOTE"
          BY <4>1, <4>2 DEF MayResolve, IsResolved
        <4>3. CASE kind = "POLICY"
          BY <4>1, <4>3 DEF MayResolve, IsResolved, Found
        <4>4. CASE kind = "REQUEST"
          BY <2>1, <4>1, <4>4 DEF MayResolve, IsResolved
        <4>5. CASE kind = "DECISION"
          BY <2>1, <2>3, <4>1, <4>5 DEF MayResolve, IsResolved
        <4> QED
          BY <4>2, <4>3, <4>4, <4>5, LimitsAssumption DEF LimitsAssumption, TypeOK
      <3>2. CASE Concludes(row)
        BY <3>2 DEF Concludes
      <3>3. ~GoesOn(row)
        BY DEF GoesOn
      <3>4. ~Asks(row) /\ ~Sees(row)
        BY AtWork DEF Asks, Sees, Working, Waiting
      <3> QED
        BY <1>4, <3>1, <3>2, <3>3, <3>4
    <2>6. ResolvedIsProven'
      BY <1>1, <2>1, <2>2, <2>5 DEF ResolvedIsProven
    <2> QED
      BY <2>4, <2>6
  <1> QED
    BY <1>2, <1>3, <1>4, MoveCases

LEMMA MovesKeepVersions ==
  ASSUME CaseInv, Moves
  PROVE  VersionsHold'
  <1> USE DEF CaseInv
  <1>1. UNCHANGED kind /\ node.step # "off"
    BY MoveCases DEF world
  <1>2. ~Sends => UNCHANGED retrievals /\ node'.used = node.used
    BY DEF Moves, Passes, Reserves, Finishes, GoesOn, Asks, Sees, Concludes, Steady, Quiet
  <1>3. CASE Sends
    <2>1. \A c \in CaseIds :
            /\ node'.used[c] - node.used[c] = retrievals'[c].version - retrievals[c].version
            /\ node.used[c] \in Int /\ node'.used[c] \in Int
            /\ retrievals[c].version \in Int /\ retrievals'[c].version \in Int
      BY <1>3, MoveCases DEF Sends, TypeOK, NodeRow
    <2> QED
      BY <1>1, <2>1 DEF VersionsHold
  <1> QED
    BY <1>1, <1>2, <1>3 DEF VersionsHold

LEMMA MovesKeepRetries ==
  ASSUME CaseInv, Moves
  PROVE  RetriesHold'
  <1> USE DEF CaseInv
  <1>1. MaxRetries \in Nat /\ attempts \in Nat /\ sent \in Nat
    BY Constants DEF TypeOK
  <1>2. CASE Reserves
    BY <1>1, <1>2 DEF Reserves, RetriesHold
  <1>3. CASE Sends
    BY <1>1, <1>3 DEF Sends, RetriesHold
  <1>4. ~Reserves /\ ~Sends => UNCHANGED <<attempts, sent>> /\ node'.step # "retrying"
    BY DEF Moves, Passes, Finishes, GoesOn, Asks, Sees, Concludes, Quiet, Leaves
  <1> QED
    BY <1>2, <1>3, <1>4 DEF RetriesHold

LEMMA MovesKeepCalls ==
  ASSUME CaseInv, Moves
  PROVE  CallsHold' /\ OneCase' /\ RoomHolds'
  <1> USE DEF CaseInv
  <1>1. /\ MaxModelCalls \in Nat /\ asked \in Nat /\ Spent("calls") \in Nat
        /\ node.calls = Spent("calls") /\ asked <= Spent("calls")
        /\ Spent("calls") <= MaxModelCalls
    BY Constants, SpentTyped, MoveCases DEF TypeOK, CallsHold
  <1>2. UNCHANGED <<kind, IsNode>>
    BY MoveCases DEF world
  <1>3. CASE Passes \/ Reserves \/ Sends
    <2>1. UNCHANGED <<cases, asked>> /\ node'.calls = node.calls /\ node'.tools = node.tools
      BY <1>3 DEF Passes, Reserves, Sends, Quiet, Steady
    <2>2. node'.step \in Waiting => node.step \in Waiting
      BY <1>3 DEF Passes, Reserves, Sends, Waiting, Leaves
    <2>3. CallsHold'
      BY <1>1, <2>1, UnchangedSpends DEF CallsHold
    <2>4. OneCase' /\ RoomHolds'
      BY <1>2, <2>1, <2>2 DEF OneCase, RoomHolds, Room
    <2> QED
      BY <2>3, <2>4
  <1>4. ASSUME NEW row \in CaseRow, Written(row),
               Finishes(row) \/ GoesOn(row) \/ Asks(row) \/ Sees(row) \/ Concludes(row)
        PROVE  CallsHold' /\ OneCase' /\ RoomHolds'
    <2>1. /\ cases'[At] = row /\ cases[At] = Case /\ At \in CaseIds
          /\ \A c \in CaseIds \ {At} : cases'[c] = cases[c]
          /\ Case.calls \in Nat /\ Case.observed \in Nat
      BY <1>4, WrittenRows, CaseTyped DEF Written
    <2>2. row.calls - Case.calls \in Nat /\ row.observed - Case.observed \in Nat
      BY <1>4, <2>1 DEF Finishes, GoesOn, Asks, Sees, Concludes, SameCounts
    <2>3. Spent("calls")' = Spent("calls") + (row.calls - Case.calls)
      BY <1>4, <2>2, WrittenSpends
    <2>4. CallsHold'
      <3>1. CASE Asks(row)
        <4>1. /\ row.calls - Case.calls = 1 /\ node.calls < MaxModelCalls
              /\ node'.calls = node.calls + 1 /\ asked' \in {asked, asked + 1}
          BY <2>1, <3>1 DEF Asks
        <4> QED
          BY <1>1, <2>3, <4>1 DEF CallsHold
      <3>2. CASE ~Asks(row)
        <4>1. /\ row.calls = Case.calls /\ node'.calls = node.calls /\ asked' = asked
          BY <1>4, <3>2 DEF Finishes, GoesOn, Sees, Concludes, SameCounts, Steady, Quiet
        <4>2. Spent("calls")' = Spent("calls")
          BY <1>1, <2>1, <2>3, <4>1
        <4> QED
          BY <1>1, <4>1, <4>2 DEF CallsHold
      <3> QED
        BY <3>1, <3>2
    <2>5. OneCase'
      <3>1. CASE Finishes(row) \/ GoesOn(row)
        BY <1>2, <2>1, <3>1 DEF Finishes, GoesOn, SameCounts, OneCase
      <3>2. CASE Asks(row) \/ Sees(row) \/ Concludes(row)
        <4>1. node.step \in Working
          BY <3>2 DEF Asks, Sees, Concludes, Waiting, Working
        <4> QED
          BY <1>2, <2>1, <4>1, AtWork DEF OneCase
      <3> QED
        BY <1>4, <3>1, <3>2
    <2>6. RoomHolds'
      <3>1. CASE Asks(row)
        BY <1>2, <3>1 DEF Asks, RoomHolds, Room
      <3>2. CASE ~Asks(row)
        BY <1>4, <3>2 DEF Finishes, GoesOn, Sees, Concludes, Leaves, Waiting, RoomHolds
      <3> QED
        BY <3>1, <3>2
    <2> QED
      BY <2>4, <2>5, <2>6
  <1> QED
    BY <1>3, <1>4, MoveCases

LEMMA MovesKeepInv ==
  ASSUME CaseInv, Moves
  PROVE  CaseInv'
  BY MovesKeepTypes, MovesKeepWork, MovesKeepProof, MovesKeepVersions, MovesKeepRetries,
     MovesKeepCalls DEF CaseInv

-----------------------------------------------------------------------------
(* The other steps.                                                        *)

\* The row a request begins with.
FirstRow == [NewCase EXCEPT !.observed = IF kind = "DECISION" THEN 2 ELSE 0]

LEMMA FirstRowTyped ==
  /\ FirstRow \in CaseRow /\ FirstRow.status = "PLANNED" /\ FirstRow.done = {}
  /\ FirstRow.calls = 0 /\ FirstRow.observed = IF kind = "DECISION" THEN 2 ELSE 0
  <1>1. PICK seen \in Nat : seen = IF kind = "DECISION" THEN 2 ELSE 0
    OBVIOUS
  <1>2. FirstRow = [NewCase EXCEPT !.observed = seen]
    BY <1>1 DEF FirstRow
  <1> QED
    BY <1>1, <1>2, Constants DEF CaseRow

LEMMA StartsOff ==
  ASSUME CaseInv, Start
  PROVE  /\ UNCHANGED <<kind, IsNode, question, required, current, faults, retrievals,
                        attempts, sent>>
         /\ late' \in BOOLEAN /\ node' \in NodeRow
         /\ node'.step = "enter" /\ node'.at = 1
         /\ IF IsNode
            THEN /\ UNCHANGED <<cases, asked>> /\ node'.calls = Spent("calls")
                 /\ node'.tools = Spent("observed")
                 /\ node'.used = [c \in CaseIds |-> retrievals[c].version]
            ELSE /\ asked' = 0 /\ cases' = [cases EXCEPT ![1] = FirstRow]
                 /\ node'.calls = 0 /\ node'.tools = FirstRow.observed
  <1> USE DEF CaseInv
  <1>1. UNCHANGED <<kind, IsNode, question, required, current, faults, retrievals,
                    attempts, sent>>
    BY DEF Start, IsNode
  <1>2. Recovered = [c \in CaseIds |-> retrievals[c].version]
        /\ Recovered \in [CaseIds -> Nat]
    BY DEF Recovered, TypeOK
  <1>3. Off \in NodeRow /\ 1 \in Nat \ {0} /\ Off.at = 1 /\ Off.calls = 0 /\ Off.tools = 0
    BY Constants DEF Off
  <1>4. CASE IsNode
    <2>1. /\ UNCHANGED <<cases, asked>>
          /\ late' = (late /\ \E c \in CaseIds : cases[c].saved)
          /\ node' = [Off EXCEPT !.step = "enter", !.calls = Spent("calls"),
                                 !.tools = Spent("observed"), !.used = Recovered]
      BY <1>4 DEF Start
    <2>2. late' \in BOOLEAN
      BY <2>1
    <2>3. /\ node' \in NodeRow /\ node'.step = "enter" /\ node'.at = 1
          /\ node'.calls = Spent("calls") /\ node'.tools = Spent("observed")
          /\ node'.used = Recovered
      BY <1>2, <1>3, <2>1, SpentTyped DEF NodeRow, Steps
    <2> QED
      BY <1>1, <1>2, <1>4, <2>1, <2>2, <2>3
  <1>5. CASE ~IsNode
    <2>1. /\ late' = FALSE /\ asked' = 0
          /\ cases' = [cases EXCEPT ![1] = FirstRow]
          /\ node' = [Off EXCEPT !.step = "enter",
                                 !.tools = IF kind = "DECISION" THEN 2 ELSE 0]
      BY <1>5 DEF Start, FirstRow
    <2>2. FirstRow.observed \in Nat /\ FirstRow.observed = IF kind = "DECISION" THEN 2 ELSE 0
      BY FirstRowTyped
    <2>3. node' = [Off EXCEPT !.step = "enter", !.tools = FirstRow.observed]
      BY <2>1, <2>2
    <2>4. /\ node' \in NodeRow /\ node'.step = "enter" /\ node'.at = 1
          /\ node'.calls = 0 /\ node'.tools = FirstRow.observed
      BY <1>3, <2>2, <2>3 DEF NodeRow, Steps
    <2> QED
      BY <1>1, <1>5, <2>1, <2>4
  <1> QED
    BY <1>4, <1>5

\* A request has spent nothing but what it begins with.
LEMMA FirstSpends ==
  ASSUME CaseInv, ~IsNode, cases' = [cases EXCEPT ![1] = FirstRow]
  PROVE  Spent("calls")' = 0 /\ Spent("observed")' = FirstRow.observed
  <1> USE DEF CaseInv
  <1>1. /\ 1 \in CaseIds /\ FirstRow \in CaseRow /\ FirstRow.calls = 0
        /\ FirstRow.observed \in Nat
    BY FirstRowTyped, Constants DEF CaseRow
  <1>2. PICK first \in Nat : first = FirstRow.observed
    BY <1>1
  <1>3. /\ \A c \in CaseIds : cases'[c] = IF c = 1 THEN FirstRow ELSE cases[c]
        /\ \A c \in CaseIds \ {1} : cases[c].calls = 0 /\ cases[c].observed = 0
    BY <1>1 DEF TypeOK, OneCase
  <1>4. Calls' = [c \in CaseIds |-> cases'[c].calls]
    BY DEF Calls
  <1>5. Calls' \in [CaseIds -> Nat] /\ \A c \in CaseIds : Calls'[c] = 0
    BY <1>1, <1>3, <1>4
  <1>6. Total(Calls')[Most] = 0
    BY <1>5, TotalOfNone
  <1> DEFINE none == [c \in CaseIds |-> 0]
  <1>7. none \in [CaseIds -> Nat] /\ none[1] = 0 /\ \A c \in CaseIds : none[c] = 0
    BY <1>1
  <1>8. Seen' = [none EXCEPT ![1] = none[1] + first]
    <2>1. Seen' = [c \in CaseIds |-> cases'[c].observed]
      BY DEF Seen
    <2>2. \A c \in CaseIds : cases'[c].observed = IF c = 1 THEN first ELSE 0
      BY <1>1, <1>2, <1>3
    <2>3. [none EXCEPT ![1] = none[1] + first] = [c \in CaseIds |-> IF c = 1 THEN first ELSE 0]
      BY <1>2, <1>7
    <2> QED
      BY <2>1, <2>2, <2>3
  <1> HIDE DEF none
  <1>9. Total(Seen')[Most] = Total(none)[Most] + first
    BY <1>1, <1>7, <1>8, TotalGrows
  <1>10. Total(none)[Most] = 0
    BY <1>7, TotalOfNone
  <1> QED
    BY <1>2, <1>6, <1>9, <1>10, SpentIsTotal

LEMMA StartKeepsInv ==
  ASSUME CaseInv, Start
  PROVE  CaseInv'
  <1> USE DEF CaseInv
  <1>1. /\ UNCHANGED <<kind, IsNode, question, required, current, faults, retrievals,
                       attempts, sent>>
        /\ late' \in BOOLEAN /\ node' \in NodeRow
        /\ node'.step = "enter" /\ node'.at = 1
    BY StartsOff
  <1>2. node'.step \notin Working /\ node'.step \notin Waiting /\ node'.step # "off"
        /\ node'.step # "retrying"
    BY <1>1 DEF Working, Waiting
  <1>3. WorkHolds' /\ RoomHolds' /\ RetriesHold'
    BY <1>1, <1>2 DEF WorkHolds, RoomHolds, RetriesHold
  <1>4. CASE IsNode
    <2>1. /\ UNCHANGED <<cases, asked>> /\ node'.calls = Spent("calls")
          /\ node'.used = [c \in CaseIds |-> retrievals[c].version]
      BY <1>4, StartsOff
    <2>2. TypeOK'
      BY <1>1, <2>1 DEF TypeOK
    <2>3. CallsHold'
      BY <2>1, UnchangedSpends DEF CallsHold
    <2>4. OneCase' /\ ResolvedIsProven' /\ BriefsHold' /\ VersionsHold'
      BY <1>1, <2>1 DEF OneCase, ResolvedIsProven, BriefsHold, VersionsHold
    <2> QED
      BY <1>3, <2>2, <2>3, <2>4
  <1>5. CASE ~IsNode
    <2>1. asked' = 0 /\ cases' = [cases EXCEPT ![1] = FirstRow] /\ node'.calls = 0
      BY <1>5, StartsOff
    <2>2. /\ cases' \in [CaseIds -> CaseRow] /\ cases'[1] = FirstRow
          /\ \A c \in CaseIds \ {1} : cases'[c] = cases[c]
      BY <2>1, FirstRowTyped, Constants DEF TypeOK
    <2>3. TypeOK'
      BY <1>1, <2>1, <2>2 DEF TypeOK
    <2>4. CallsHold'
      BY <1>5, <2>1, FirstSpends, Constants DEF CallsHold
    <2>5. OneCase'
      BY <1>1, <2>2 DEF OneCase
    <2>6. ResolvedIsProven' /\ BriefsHold'
      BY <1>1, <2>2, FirstRowTyped DEF ResolvedIsProven, BriefsHold
    <2>7. VersionsHold'
      BY <1>1, <1>5 DEF VersionsHold, IsNode
    <2> QED
      BY <1>3, <2>3, <2>4, <2>5, <2>6, <2>7
  <1> QED
    BY <1>4, <1>5

LEMMA ChangesKeepInv ==
  ASSUME CaseInv, InputsChange \/ TimePasses \/ UNCHANGED vars
  PROVE  CaseInv'
  <1> USE DEF CaseInv
  <1>1. /\ UNCHANGED <<kind, IsNode, required, cases, retrievals, attempts, node, asked,
                       sent, At, Room>>
        /\ UNCHANGED <<question, faults>> /\ current' \in BOOLEAN /\ late' \in BOOLEAN
    BY DEF InputsChange, TimePasses, vars, Database, History, TypeOK, IsNode, At, Room
  <1>2. TypeOK'
    BY <1>1 DEF TypeOK
  <1>3. CallsHold'
    BY <1>1, UnchangedSpends DEF CallsHold
  <1>4. WorkHolds' /\ OneCase' /\ RoomHolds'
    BY <1>1 DEF WorkHolds, OneCase, RoomHolds
  <1>5. ResolvedIsProven' /\ BriefsHold' /\ VersionsHold' /\ RetriesHold'
    BY <1>1 DEF ResolvedIsProven, BriefsHold, VersionsHold, RetriesHold
  <1> QED
    BY <1>2, <1>3, <1>4, <1>5

LEMMA InterruptKeepsInv ==
  ASSUME CaseInv, Interrupt
  PROVE  CaseInv'
  <1> USE DEF CaseInv
  <1>1. /\ UNCHANGED <<kind, IsNode, question, required, current, late, cases, retrievals,
                       attempts, asked>>
        /\ node' = Off /\ faults' \in 0 .. MaxFaults
        /\ \/ sent' = sent
           \/ node.step = "retrying" /\ sent' = sent + 1
    BY Constants DEF Interrupt, Database, IsNode, TypeOK
  <1>2. /\ node' \in NodeRow /\ node'.step = "off" /\ node'.step \notin Working
        /\ node'.step \notin Waiting /\ node'.step # "retrying"
    BY <1>1, Constants DEF Working, Waiting
  <1>3. TypeOK'
    BY <1>1, <1>2 DEF TypeOK
  <1>4. CallsHold'
    BY <1>1, <1>2, UnchangedSpends DEF CallsHold
  <1>5. RetriesHold'
    BY <1>1, <1>2, Constants DEF RetriesHold, TypeOK
  <1>6. WorkHolds' /\ OneCase' /\ RoomHolds' /\ VersionsHold'
    BY <1>1, <1>2 DEF WorkHolds, OneCase, RoomHolds, VersionsHold
  <1>7. ResolvedIsProven' /\ BriefsHold'
    BY <1>1 DEF ResolvedIsProven, BriefsHold
  <1> QED
    BY <1>3, <1>4, <1>5, <1>6, <1>7

LEMMA InitHolds ==
  ASSUME Init
  PROVE  CaseInv
  <1>1. /\ cases = [c \in CaseIds |-> NewCase] /\ node = Off /\ asked = 0 /\ sent = 0
        /\ attempts = 0
    BY DEF Init
  <1>2. \A c \in CaseIds : /\ cases[c].calls = 0 /\ cases[c].observed = 0
                           /\ cases[c].done = {} /\ cases[c].status = "PLANNED"
    BY <1>1, Constants
  <1>3. TypeOK
    <2>1. kind \in Kinds /\ question \in BOOLEAN /\ current \in BOOLEAN /\ late \in BOOLEAN
      BY DEF Init
    <2>2. required \in Plans \cup {{}}
      BY DEF Init, PlansOf
    <2>3. retrievals \in [CaseIds -> [version : Nat, status : Statuses]]
      BY DEF Init, Statuses
    <2> QED
      BY <1>1, <2>1, <2>2, <2>3, Constants DEF Init, TypeOK
  <1>4. Spent("calls") = 0
    <2>1. Calls \in [CaseIds -> Nat] /\ \A c \in CaseIds : Calls[c] = 0
      BY <1>2 DEF Calls
    <2> QED
      BY <2>1, TotalOfNone, SpentIsTotal
  <1>5. node.step = "off" /\ node.step \notin Working /\ node.step \notin Waiting
        /\ node.step # "retrying"
    BY <1>1, Constants DEF Working, Waiting
  <1>6. CallsHold /\ RetriesHold
    BY <1>1, <1>4, <1>5, Constants DEF CallsHold, RetriesHold
  <1>7. WorkHolds /\ RoomHolds /\ VersionsHold /\ OneCase
    BY <1>2, <1>5 DEF WorkHolds, RoomHolds, VersionsHold, OneCase
  <1>8. ResolvedIsProven /\ BriefsHold
    BY <1>2 DEF ResolvedIsProven, BriefsHold
  <1> QED
    BY <1>3, <1>6, <1>7, <1>8 DEF CaseInv

LEMMA CaseInvariance == Spec => []CaseInv
  <1>1. CaseInv /\ [Next]_vars => CaseInv'
    BY RunnerMoves, MovesKeepInv, StartKeepsInv, ChangesKeepInv, InterruptKeepsInv DEF Next
  <1> QED
    BY InitHolds, <1>1, PTL DEF Spec

-----------------------------------------------------------------------------
(* Theorems.                                                               *)

\* The types of the state of an investigation (investigation.py
\* InvestigationCase and the runner's counters).
THEOREM CaseTypes == Spec => []TypeOK
  <1>1. CaseInv => TypeOK
    BY DEF CaseInv
  <1> QED
    BY <1>1, CaseInvariance, PTL

\* A clause is resolved by a retrieval that is still the newest, a decision by a
\* brief for which every check of its plan was made, an analysis by its tool, and
\* a quote by having no impact (policy_investigation.py resolution,
\* decision_investigation.py execute).
THEOREM ResolvedByServer == Spec => []ResolvedIsProven
  <1>1. CaseInv => ResolvedIsProven
    BY DEF CaseInv
  <1> QED
    BY <1>1, CaseInvariance, PTL

\* The gate is given the newest retrievals, whatever was interrupted before
\* (policy_investigation.py __init__).
THEOREM NewestVersions == Spec => []NewestIsUsed
  <1>1. CaseInv => NewestIsUsed
    <2> SUFFICES ASSUME CaseInv, kind = "POLICY", node.step = "ended"
                 PROVE  \A c \in 1 .. Controls : node.used[c] = retrievals[c].version
      BY DEF NewestIsUsed
    <2>1. 1 .. Controls \subseteq CaseIds
      BY LimitsAssumption DEF LimitsAssumption, CaseIds, Most
    <2> QED
      BY <2>1 DEF CaseInv, VersionsHold
  <1> QED
    BY <1>1, CaseInvariance, PTL

\* The observations of all cases, kept within the limit of the tools.
LEMMA MovesKeepObservations ==
  ASSUME CaseInv, ObservationsHold, Moves
  PROVE  ObservationsHold'
  <1> USE DEF CaseInv
  <1>1. /\ MaxToolCalls \in Nat /\ Spent("observed") \in Nat /\ node.tools \in Nat
        /\ Spent("observed") <= MaxToolCalls
        /\ (kind = "DECISION" => At = 1) => node.tools = Spent("observed")
        /\ At \in Nat \ {0}
    BY Constants, SpentTyped, MoveCases DEF ObservationsHold, TypeOK, NodeRow, At
  <1>2. UNCHANGED kind /\ (kind = "DECISION" => ~IsNode) /\ At' = node'.at
    BY MoveCases DEF world, IsNode, At
  <1>3. (kind = "DECISION" => At' = 1) /\ (Stays \/ Leaves) => (kind = "DECISION" => At = 1)
    BY <1>1, <1>2 DEF Stays, Leaves
  <1>4. ASSUME Stays \/ Leaves, node'.tools = node.tools, UNCHANGED cases
        PROVE  ObservationsHold'
    BY <1>1, <1>2, <1>3, <1>4, UnchangedSpends DEF ObservationsHold
  <1>5. CASE Passes \/ Reserves \/ Sends
    BY <1>4, <1>5 DEF Passes, Reserves, Sends, Steady
  <1>6. ASSUME NEW row \in CaseRow, Written(row),
               Finishes(row) \/ GoesOn(row) \/ Asks(row) \/ Sees(row) \/ Concludes(row)
        PROVE  ObservationsHold'
    <2>1. At \in CaseIds /\ Case.calls \in Nat /\ Case.observed \in Nat
      BY <1>6, CaseTyped DEF Written
    <2>2. row.calls - Case.calls \in Nat /\ row.observed - Case.observed \in Nat
      BY <1>6, <2>1 DEF Finishes, GoesOn, Asks, Sees, Concludes, SameCounts
    <2>3. Spent("observed")' = Spent("observed") + (row.observed - Case.observed)
      BY <1>6, <2>2, WrittenSpends
    <2>4. CASE Finishes(row) \/ GoesOn(row) \/ Asks(row)
      <3>1. row.observed = Case.observed /\ node'.tools = node.tools /\ (Stays \/ Leaves)
        BY <2>4 DEF Finishes, GoesOn, Asks, SameCounts, Steady
      <3>2. Spent("observed")' = Spent("observed")
        BY <1>1, <2>1, <2>3, <3>1
      <3> QED
        BY <1>1, <1>2, <1>3, <3>1, <3>2 DEF ObservationsHold
    <2>5. CASE Sees(row)
      <3>1. /\ row.observed = Case.observed + 1 /\ node'.tools = node.tools + 1
            /\ node.step \in Waiting /\ node.step \in Working
        BY <2>5 DEF Sees, Waiting, Working
      <3>2. node.tools < MaxToolCalls
        BY <3>1 DEF RoomHolds, Room
      <3>3. node.tools = Spent("observed")
        BY <1>1, <1>2, <3>1, AtWork
      <3>4. Spent("observed")' = Spent("observed") + 1
        BY <1>1, <2>1, <2>3, <3>1
      <3> QED
        BY <1>1, <3>1, <3>2, <3>3, <3>4 DEF ObservationsHold
    <2>6. CASE Concludes(row)
      <3>1. /\ kind = "DECISION" /\ Leaves /\ node.step \in Working
            /\ row.observed - Case.observed \in 0 .. (MaxToolCalls - node.tools)
        BY <2>6 DEF Concludes, Working
      <3>2. node.tools = Spent("observed") /\ At = 1
        BY <1>1, <1>2, <3>1, AtWork
      <3>3. At' # 1 /\ kind' = "DECISION"
        BY <1>1, <1>2, <3>1 DEF Leaves
      <3>4. Spent("observed")' <= MaxToolCalls
        BY <1>1, <2>3, <3>1, <3>2
      <3> QED
        BY <3>3, <3>4 DEF ObservationsHold
    <2> QED
      BY <1>6, <2>4, <2>5, <2>6
  <1> QED
    BY <1>5, <1>6, MoveCases

\* A decision begins with two observations.
LEMMA StartKeepsObservations ==
  ASSUME CaseInv, ObservationsHold, Start, kind = "DECISION" => MaxToolCalls >= 2
  PROVE  ObservationsHold'
  <1>1. UNCHANGED <<kind, IsNode>>
    BY StartsOff
  <1>2. CASE IsNode
    <2>1. UNCHANGED cases /\ node'.tools = Spent("observed")
      BY <1>2, StartsOff
    <2> QED
      BY <2>1, UnchangedSpends DEF ObservationsHold
  <1>3. CASE ~IsNode
    <2>1. cases' = [cases EXCEPT ![1] = FirstRow] /\ node'.tools = FirstRow.observed
      BY <1>3, StartsOff
    <2>2. Spent("observed")' = FirstRow.observed
      BY <1>3, <2>1, FirstSpends
    <2>3. FirstRow.observed <= MaxToolCalls
      BY FirstRowTyped, Constants
    <2> QED
      BY <2>1, <2>2, <2>3 DEF ObservationsHold
  <1> QED
    BY <1>2, <1>3

LEMMA OthersKeepObservations ==
  ASSUME CaseInv, ObservationsHold,
         InputsChange \/ TimePasses \/ Interrupt \/ UNCHANGED vars
  PROVE  ObservationsHold'
  <1>1. UNCHANGED <<kind, cases>>
    BY DEF InputsChange, TimePasses, Interrupt, vars
  <1>2. UNCHANGED <<node, At>> \/ node'.step = "off"
    BY Constants DEF InputsChange, TimePasses, Interrupt, vars, At
  <1> QED
    BY <1>1, <1>2, UnchangedSpends DEF ObservationsHold

LEMMA InitObservations ==
  ASSUME Init
  PROVE  ObservationsHold
  <1>1. node.step = "off" /\ \A c \in CaseIds : cases[c].observed = 0
    BY Constants DEF Init
  <1>2. Seen \in [CaseIds -> Nat] /\ \A c \in CaseIds : Seen[c] = 0
    BY <1>1 DEF Seen
  <1>3. Spent("observed") = 0
    BY <1>2, TotalOfNone, SpentIsTotal
  <1> QED
    BY <1>1, <1>3, Constants DEF ObservationsHold

\* An investigation stays within its limits however often it is interrupted and
\* run again (investigation.py run, service.py reserve_policy_retry), where the
\* limit of the tools has room for the two observations a decision begins with.
THEOREM Budgets ==
  ASSUME "DECISION" \in Kinds => MaxToolCalls >= 2
  PROVE  Spec => []WithinBudgets
  <1> DEFINE Holds == CaseInv /\ ObservationsHold
  <1>1. CaseInv => (kind = "DECISION" => MaxToolCalls >= 2)
    BY DEF CaseInv, TypeOK
  <1>2. Holds /\ [Next]_vars => Holds'
    BY <1>1, RunnerMoves, MovesKeepInv, StartKeepsInv, ChangesKeepInv, InterruptKeepsInv,
       MovesKeepObservations, StartKeepsObservations, OthersKeepObservations DEF Next
  <1>3. Init => Holds
    BY InitHolds, InitObservations
  <1>4. Holds => WithinBudgets
    <2> SUFFICES ASSUME Holds PROVE WithinBudgets
      OBVIOUS
    <2>1. asked \in Nat /\ Spent("calls") \in Nat /\ MaxModelCalls \in Nat
      BY SpentTyped, Constants DEF CaseInv, TypeOK
    <2> QED
      BY <2>1 DEF CaseInv, CallsHold, RetriesHold, ObservationsHold, WithinBudgets
  <1> HIDE DEF Holds
  <1> QED
    BY <1>2, <1>3, <1>4, PTL DEF Spec
=============================================================================
