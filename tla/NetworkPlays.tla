---------------------------- MODULE NetworkPlays ----------------------------
(***************************************************************************)
(* Benchmarks computed across agencies: an agency's consent, which is one  *)
(* field of its settings, the weekly sweep of jobs/register.ts, and the    *)
(* rebuild of services/networkPlaysService.ts, which replaces all rows of  *)
(* network_aggregates.                                                     *)
(*                                                                         *)
(* Nothing is transactional: settings are read whole and written whole,    *)
(* and the replacement is a delete, then an insert.  One action is one     *)
(* awaited write, or the reads before it.                                  *)
(*                                                                         *)
(* Left out: how an agency's closed requests become plays, and plays are   *)
(* mapped to topics: what it contributes to a group of one state and topic *)
(* is any number of episodes, anew at each rebuild.  A row's buckets,      *)
(* routes and sections are what is computed from the contributions it was  *)
(* made of, which stand for them.  A sweep takes no day.                   *)
(***************************************************************************)
EXTENDS Naturals, FiniteSets, Functions

CONSTANTS
  Agencies,             \* the tenants
  Topics,               \* the groups that are comparable: state and topic
  Tabs,                 \* settings pages that staff have open
  Processes,            \* servers that sweep
  Episodes,             \* what an agency may contribute to a group
  MinAgencies,          \* the floor on agencies
  MinEpisodes,          \* the floor on episodes
  Share, Whole,         \* no agency has more than Share / Whole of the episodes
  Week,                 \* days between rebuilds
  Environments          \* the circumstances a behaviour may start in

\* How many saves of settings, sweeps and days are still to come (bounds);
\* whether two saves or two sweeps may overlap, as a save and a sweep always
\* may; whether they may fail.
Environment == [calls : Nat, sweeps : Nat, days : Nat,
                overlap : BOOLEAN, fail : BOOLEAN]

ASSUME NetworkAssumption ==
  /\ IsFiniteSet(Agencies)
  /\ Episodes \subseteq Nat /\ 0 \in Episodes
  /\ MinAgencies \in Nat \ {0}
  /\ Week \in Nat
  /\ Environments \subseteq Environment

VARIABLES
  optedIn,    \* settings.networkPlays.enabled of each agency
  recorded,   \* what its latest network_consent_changed event says
  age,        \* days since its latest network_rebuild event, Week if not found
  snapshot,   \* the rows of network_aggregates
  tab,        \* per settings page: the save under way
  sweep,      \* per process: the sweep under way
  listed,     \* history: who was consenting in the last rebuild
  counts,     \* history: agencies counted per group, in it and before
  shown,      \* history: what each group last showed
  receipted,  \* history: who holds an event of the last rebuild
  days,       \* history: days since the last rebuild, at most Week
  env         \* the circumstances, and what they still allow

history == <<listed, counts, shown, receipted, days>>
vars    == <<optedIn, recorded, age, snapshot, tab, sweep, history, env>>

\* Episodes by agency, for one group: 0 for an agency that contributes nothing.
Contributions == [Agencies -> Nat]
Nobody        == [a \in Agencies |-> 0]
Members(from) == {a \in Agencies : from[a] > 0}
Count(from)   == Cardinality(Members(from))

\* A row: its group, what it was made of, and pendingAgencyCount (0: null).
Row == [topic : Topics, from : Contributions, pending : Nat]
NoRow(t) == [topic |-> t, from |-> Nobody, pending |-> 0]

\* A save: the agency, what it will write to networkPlays, whether it is about
\* that; a sweep: who gets its receipt, who it listed, what they contribute to
\* each group, the rows it found.
Save  == [pc : {"idle", "write", "log"}, agency : Agencies \cup {"none"},
          enabled : BOOLEAN, consent : BOOLEAN]
Sweep == [pc : {"idle", "marker", "list", "current", "delete", "insert",
                "receipt"},
          due : SUBSET Agencies,
          listed : SUBSET Agencies,
          group : [Topics -> Contributions],
          current : [Topics -> Row]]

NoSave  == [pc |-> "idle", agency |-> "none", enabled |-> FALSE, consent |-> FALSE]
NoSweep == [pc |-> "idle", due |-> {}, listed |-> {},
            group |-> [t \in Topics |-> Nobody],
            current |-> [t \in Topics |-> NoRow(t)]]

\* Some agencies may have joined before the first rebuild.
Init ==
  /\ optedIn \in [Agencies -> BOOLEAN]
  /\ recorded = optedIn
  /\ age = [a \in Agencies |-> Week]
  /\ snapshot = {}
  /\ tab = [x \in Tabs |-> NoSave]
  /\ sweep = [p \in Processes |-> NoSweep]
  /\ listed = {}
  /\ counts = [t \in Topics |-> [before |-> 0, last |-> 0]]
  /\ shown = [t \in Topics |-> Nobody]
  /\ receipted = {}
  /\ days = Week
  /\ env \in Environments

-----------------------------------------------------------------------------
Consenting == {a \in Agencies : optedIn[a]}
Sweeping   == \E p \in Processes : sweep[p].pc # "idle"
Saving     == \E x \in Tabs : tab[x].pc # "idle"

-----------------------------------------------------------------------------
(* Settings.                                                               *)

\* A save reads the agency's settings and goes on with a copy of them all.
Open(x, a, enabled, consent) ==
  /\ tab[x].pc = "idle"
  /\ env.overlap \/ ~Saving
  /\ env.calls > 0
  /\ tab' = [tab EXCEPT ![x] = [pc |-> "write", agency |-> a,
                                enabled |-> enabled, consent |-> consent]]
  /\ env' = [env EXCEPT !.calls = @ - 1]
  /\ UNCHANGED <<optedIn, recorded, age, snapshot, sweep, history>>

SetNetworkPlays(x, a, enabled) == Open(x, a, enabled, TRUE)

\* Mutant of SetOther: the other settings are not copied.
SetOtherAlone(x, a) == Open(x, a, FALSE, FALSE)

\* The portal's log, the status interface, an agent: another field.
SetOther(x, a) == Open(x, a, optedIn[a], FALSE)

WriteSettings(x) ==
  /\ tab[x].pc = "write"
  /\ optedIn' = [optedIn EXCEPT ![tab[x].agency] = tab[x].enabled]
  /\ tab' = [tab EXCEPT ![x].pc = "log"]
  /\ UNCHANGED <<recorded, age, snapshot, sweep, history, env>>

\* The event says what was asked for.
LogChange(x) ==
  /\ tab[x].pc = "log"
  /\ recorded' = IF tab[x].consent
                 THEN [recorded EXCEPT ![tab[x].agency] = tab[x].enabled]
                 ELSE recorded
  /\ tab' = [tab EXCEPT ![x] = NoSave]
  /\ UNCHANGED <<optedIn, age, snapshot, sweep, history, env>>

-----------------------------------------------------------------------------
(* The weekly sweep.                                                       *)

Goes(p, pc) == sweep' = [sweep EXCEPT ![p].pc = pc]
Ends(p)     == sweep' = [sweep EXCEPT ![p] = NoSweep]

\* Nobody has opted in: nothing to do.
SweepStart(p) ==
  /\ sweep[p].pc = "idle"
  /\ env.overlap \/ ~Sweeping
  /\ env.sweeps > 0
  /\ Consenting # {}
  /\ sweep' = [sweep EXCEPT ![p] = [NoSweep EXCEPT !.pc = "marker",
                                                   !.due = Consenting]]
  /\ env' = [env EXCEPT !.sweeps = @ - 1]
  /\ UNCHANGED <<optedIn, recorded, age, snapshot, tab, history>>

\* Mutant of LookForMarker: whoever has no recent receipt will do.
LookForAny(p) ==
  /\ sweep[p].pc = "marker"
  /\ IF \E a \in Agencies : age[a] = Week THEN Goes(p, "list") ELSE Ends(p)
  /\ UNCHANGED <<optedIn, recorded, age, snapshot, tab, history, env>>

\* The first consenting agency's log is looked through; agencies are listed in no
\* order, so any of them may be the first.
LookForMarker(p) ==
  /\ sweep[p].pc = "marker"
  /\ \E a \in sweep[p].due : IF age[a] = Week THEN Goes(p, "list") ELSE Ends(p)
  /\ UNCHANGED <<optedIn, recorded, age, snapshot, tab, history, env>>

-----------------------------------------------------------------------------
(* The rebuild.                                                            *)

\* Consent is read again, once for all; then each agency's plays, of which
\* toNetworkContribution drops what has no episodes.
RebuildList(p) ==
  /\ sweep[p].pc = "list"
  /\ \E group \in [Topics -> [Agencies -> Episodes]] :
       /\ \A t \in Topics : Members(group[t]) \subseteq Consenting
       /\ sweep' = [sweep EXCEPT ![p].pc = "current", ![p].listed = Consenting,
                                 ![p].group = group]
  /\ UNCHANGED <<optedIn, recorded, age, snapshot, tab, history, env>>

Total(from) == SumFunction(from)

\* publishableAggregates: the floors, and no agency dominates.
Clears(from) ==
  /\ Count(from) >= MinAgencies
  /\ Total(from) >= MinEpisodes
  /\ \A a \in Agencies : from[a] * Whole <= Total(from) * Share

\* Mutant of Settled: whoever was held once may move.
SettledOnce(from, previous) ==
  \/ previous.from = Nobody
  \/ Count(previous.from) = Count(from)
  \/ previous.pending # 0

\* applyStabilityRule: nothing to compare with, or the same number of agencies,
\* or the number the row has waited for.
Settled(from, previous) ==
  \/ previous.from = Nobody
  \/ Count(previous.from) = Count(from)
  \/ previous.pending = Count(from)

\* Mutant of NextRow: a held row forgets which count it waits for.
NextRowForgetful(t, from, previous) ==
  IF Settled(from, previous)
  THEN [topic |-> t, from |-> from, pending |-> 0]
  ELSE previous

\* A group whose number moved shows its previous row once more.
NextRow(t, from, previous) ==
  IF Settled(from, previous)
  THEN [topic |-> t, from |-> from, pending |-> 0]
  ELSE [previous EXCEPT !.pending = Count(from)]

Publishable(s) == {t \in Topics : Clears(s.group[t])}
NextRows(s)    == {NextRow(t, s.group[t], s.current[t]) : t \in Publishable(s)}

\* The rows by group; of two of a group, the one that came last.
ReadCurrent(p) ==
  /\ sweep[p].pc = "current"
  /\ \E current \in [Topics -> snapshot \cup {NoRow(t) : t \in Topics}] :
       /\ \A t \in Topics :
            /\ current[t].topic = t
            /\ current[t] = NoRow(t) => \A r \in snapshot : r.topic # t
       /\ sweep' = [sweep EXCEPT ![p].pc = "delete", ![p].current = current]
  /\ UNCHANGED <<optedIn, recorded, age, snapshot, tab, history, env>>

DeleteRows(p) ==
  /\ sweep[p].pc = "delete"
  /\ snapshot' = {}
  /\ Goes(p, "insert")
  /\ UNCHANGED <<optedIn, recorded, age, tab, history, env>>

InsertRows(p) ==
  /\ sweep[p].pc = "insert"
  /\ snapshot' = snapshot \cup NextRows(sweep[p])
  /\ sweep' = [sweep EXCEPT ![p] = [NoSweep EXCEPT !.pc = "receipt",
                                                   !.due = sweep[p].due]]
  /\ listed' = sweep[p].listed
  /\ counts' = [t \in Topics |->
                  [before |-> counts[t].last,
                   last   |-> IF t \in Publishable(sweep[p])
                              THEN Count(sweep[p].group[t]) ELSE 0]]
  /\ shown' = [t \in Topics |->
                 IF t \in Publishable(sweep[p])
                 THEN NextRow(t, sweep[p].group[t], sweep[p].current[t]).from
                 ELSE Nobody]
  /\ receipted' = {}
  /\ days' = 0
  /\ UNCHANGED <<optedIn, recorded, age, tab, env>>

\* One event after the other, for those the sweep found consenting.
Receipt(p) ==
  /\ sweep[p].pc = "receipt"
  /\ \E a \in sweep[p].due :
       /\ age' = [age EXCEPT ![a] = 0]
       /\ receipted' = receipted \cup {a}
       /\ IF sweep[p].due = {a} THEN Ends(p)
          ELSE sweep' = [sweep EXCEPT ![p].due = @ \ {a}]
  /\ UNCHANGED <<optedIn, recorded, snapshot, tab, listed, counts, shown, days, env>>

-----------------------------------------------------------------------------
(* What happens to both.                                                   *)

NextDay ==
  /\ ~Sweeping
  /\ env.days > 0
  /\ age' = [a \in Agencies |-> IF age[a] < Week THEN age[a] + 1 ELSE Week]
  /\ days' = IF days < Week THEN days + 1 ELSE Week
  /\ env' = [env EXCEPT !.days = @ - 1]
  /\ UNCHANGED <<optedIn, recorded, snapshot, tab, sweep, listed, counts, shown,
                 receipted>>

\* The sweep looks through an agency's latest 50 events: more came since.
Crowd(a) ==
  /\ env.calls > 0
  /\ age[a] < Week
  /\ age' = [age EXCEPT ![a] = Week]
  /\ receipted' = receipted \ {a}
  /\ env' = [env EXCEPT !.calls = @ - 1]
  /\ UNCHANGED <<optedIn, recorded, snapshot, tab, sweep, listed, counts, shown, days>>

\* A write throws, or the process dies.
SaveFails(x) ==
  /\ env.fail
  /\ tab[x].pc # "idle"
  /\ tab' = [tab EXCEPT ![x] = NoSave]
  /\ UNCHANGED <<optedIn, recorded, age, snapshot, sweep, history, env>>

SweepFails(p) ==
  /\ env.fail
  /\ sweep[p].pc # "idle"
  /\ Ends(p)
  /\ UNCHANGED <<optedIn, recorded, age, snapshot, tab, history, env>>

Settings(x) == \/ \E a \in Agencies : \/ SetOther(x, a)
                                      \/ \E on \in BOOLEAN : SetNetworkPlays(x, a, on)
               \/ WriteSettings(x) \/ LogChange(x) \/ SaveFails(x)

Rebuild(p) == \/ SweepStart(p) \/ LookForMarker(p) \/ RebuildList(p)
              \/ ReadCurrent(p) \/ DeleteRows(p) \/ InsertRows(p)
              \/ Receipt(p) \/ SweepFails(p)

Next == \/ \E x \in Tabs : Settings(x)
        \/ \E p \in Processes : Rebuild(p)
        \/ \E a \in Agencies : Crowd(a)
        \/ NextDay

Spec == Init /\ [][Next]_vars

-----------------------------------------------------------------------------
(* What the code promises.                                                 *)

TypeOK ==
  /\ optedIn \in [Agencies -> BOOLEAN]
  /\ recorded \in [Agencies -> BOOLEAN]
  /\ age \in [Agencies -> 0..Week]
  /\ snapshot \subseteq Row
  /\ tab \in [Tabs -> Save]
  /\ sweep \in [Processes -> Sweep]
  /\ listed \subseteq Agencies
  /\ counts \in [Topics -> [before : Nat, last : Nat]]
  /\ shown \in [Topics -> Contributions]
  /\ receipted \subseteq Agencies
  /\ days \in 0..Week
  /\ env \in Environment

\* No two saves, and no two sweeps, at a time.
Serial  == ~env.overlap
Orderly == Serial /\ ~env.fail

\* However sweeps and saves meet or fail, what a tenant can read was made of
\* enough agencies and episodes, none of which dominates.
BenchmarksClearFloors == \A r \in snapshot : Clears(r.from)

\* One save at a time, the log of consents says what the settings say: another
\* field's save neither gives nor takes back consent.
ConsentIsRecorded == Orderly /\ ~Saving => optedIn = recorded

\* An agency that had left when the last rebuild listed who consents is behind
\* a benchmark only if the number of agencies moved in that very rebuild.
RevokedLeaves ==
  Serial =>
    \A r \in snapshot :
      counts[r.topic].last = counts[r.topic].before =>
        Members(r.from) \subseteq listed

\* What a group shows moves only to a number of agencies it already had, or
\* that two rebuilds in a row have counted.
NumbersMoveTogether ==
  [][Orderly => \A t \in Topics :
       shown'[t] # shown[t] /\ shown[t] # Nobody /\ shown'[t] # Nobody =>
         Count(shown'[t]) \in {Count(shown[t]), counts[t].last}]_shown

\* Rebuilds are a week apart, unless an agency has no event of the last one to
\* be found: it joined since, or its log is crowded.
WeekBetweenRebuilds ==
  [][\A p \in Processes :
       sweep[p].pc = "marker" /\ sweep'[p].pc = "list" =>
         days = Week \/ ~(sweep[p].due \subseteq receipted)]_sweep
=============================================================================
