------------------------ MODULE NetworkPlays_proofs ------------------------
(***************************************************************************)
(* Theorems about NetworkPlays, for any agencies, groups, servers, pages,  *)
(* floors and bounds.                                                      *)
(***************************************************************************)
EXTENDS NetworkPlays, FiniteSetTheorems, TLAPS

-----------------------------------------------------------------------------
(* Counting, rows and types.                                               *)

LEMMA CountType == \A from : Count(from) \in Nat
<1> TAKE from
<1>1. Members(from) \subseteq Agencies BY DEF Members
<1> QED BY <1>1, FS_Subset, FS_CardinalityType, NetworkAssumption DEF Count

LEMMA NobodyEmpty == Count(Nobody) = 0 /\ Nobody \in Contributions
<1>1. Members(Nobody) = {} BY DEF Members, Nobody
<1> QED BY <1>1, FS_EmptySet DEF Count, Nobody, Contributions

\* What clears the floors has somebody in it.
LEMMA ClearsCounts == \A from : Clears(from) => Count(from) # 0
BY CountType, NetworkAssumption DEF Clears

LEMMA NoRowType == \A t \in Topics : NoRow(t) \in Row
BY NobodyEmpty DEF NoRow, Row

LEMMA NoSweepType == NoSweep \in Sweep /\ \A t \in Topics : NoSweep.current[t] = NoRow(t)
BY NoRowType, NobodyEmpty DEF NoSweep, Sweep

LEMMA NoSweepTopics == \A t \in Topics : NoSweep.current[t].topic = t
<1> TAKE t \in Topics
<1>1. NoSweep.current[t] = NoRow(t) BY NoSweepType
<1> QED BY <1>1 DEF NoRow

\* A group's next row is of that group, and made of what it gathered, settled,
\* or of what its row was made of, waiting for the number it counted.
LEMMA NextRowIs ==
  ASSUME NEW t \in Topics, NEW from \in Contributions, NEW previous \in Row,
         previous.topic = t
  PROVE  LET next == NextRow(t, from, previous) IN
         /\ next \in Row /\ next.topic = t
         /\ \/ Settled(from, previous) /\ next.from = from /\ next.pending = 0
            \/ /\ ~Settled(from, previous)
               /\ next.from = previous.from /\ next.pending = Count(from)
BY CountType DEF NextRow, Row

\* The groups a sweep found are those of the rows it keeps them under.
TypeInv ==
  /\ TypeOK
  /\ \A p \in Processes : \A t \in Topics : sweep[p].current[t].topic = t

LEMMA TypeInit == Init => TypeInv
<1> SUFFICES ASSUME Init PROVE TypeInv OBVIOUS
<1>1. NoSave \in Save BY DEF NoSave, Save
<1>2. env \in Environment BY NetworkAssumption DEF Init
<1>3. /\ optedIn \in [Agencies -> BOOLEAN] /\ recorded \in [Agencies -> BOOLEAN]
      /\ snapshot \subseteq Row /\ listed \subseteq Agencies /\ receipted \subseteq Agencies
  BY DEF Init
<1>4. age \in [Agencies -> 0..Week] /\ days \in 0..Week
  BY NetworkAssumption DEF Init
<1>5. tab \in [Tabs -> Save] BY <1>1 DEF Init
<1>6. sweep \in [Processes -> Sweep] BY NoSweepType DEF Init
<1>7. counts \in [Topics -> [before : Nat, last : Nat]] BY DEF Init
<1>8. shown \in [Topics -> Contributions] BY NobodyEmpty DEF Init
<1>9. \A p \in Processes : \A t \in Topics : sweep[p].current[t].topic = t
  <2> SUFFICES ASSUME NEW p \in Processes, NEW t \in Topics
              PROVE  sweep[p].current[t].topic = t
    OBVIOUS
  <2>1. sweep[p].current[t] = NoRow(t) BY NoSweepType DEF Init
  <2> QED BY <2>1 DEF NoRow
<1> QED BY <1>2, <1>3, <1>4, <1>5, <1>6, <1>7, <1>8, <1>9 DEF TypeInv, TypeOK

\* Saves touch the settings and their log.
LEMMA SettingsType ==
  ASSUME TypeInv, NEW x \in Tabs, Settings(x) PROVE TypeInv'
<1>0. /\ tab \in [Tabs -> Save] /\ tab[x] \in Save /\ env \in Environment
      /\ optedIn \in [Agencies -> BOOLEAN] /\ recorded \in [Agencies -> BOOLEAN]
  BY DEF TypeInv, TypeOK
<1>1. NoSave \in Save BY DEF NoSave, Save
<1>2. ASSUME NEW a \in Agencies, NEW on \in BOOLEAN, NEW about \in BOOLEAN,
             Open(x, a, on, about)
      PROVE  TypeInv'
  <2>1. tab' \in [Tabs -> Save] BY <1>0, <1>2 DEF Open, Save
  <2>2. env' \in Environment BY <1>0, <1>2 DEF Open, Environment
  <2> QED BY <1>2, <2>1, <2>2 DEF Open, TypeInv, TypeOK, history
<1>3. CASE \E a \in Agencies : \/ SetOther(x, a)
                               \/ \E on \in BOOLEAN : SetNetworkPlays(x, a, on)
  BY <1>0, <1>2, <1>3 DEF SetOther, SetNetworkPlays
<1>4. CASE WriteSettings(x)
  <2>1. tab' \in [Tabs -> Save] BY <1>0, <1>4 DEF WriteSettings, Save
  <2>2. optedIn' \in [Agencies -> BOOLEAN] BY <1>0, <1>4 DEF WriteSettings, Save
  <2> QED BY <1>4, <2>1, <2>2 DEF WriteSettings, TypeInv, TypeOK, history
<1>5. CASE LogChange(x)
  <2>1. tab' \in [Tabs -> Save] BY <1>0, <1>1, <1>5 DEF LogChange
  <2>2. recorded' \in [Agencies -> BOOLEAN] BY <1>0, <1>5 DEF LogChange, Save
  <2> QED BY <1>5, <2>1, <2>2 DEF LogChange, TypeInv, TypeOK, history
<1>6. CASE SaveFails(x)
  <2>1. tab' \in [Tabs -> Save] BY <1>0, <1>1, <1>6 DEF SaveFails
  <2> QED BY <1>6, <2>1 DEF SaveFails, TypeInv, TypeOK, history
<1> QED BY <1>3, <1>4, <1>5, <1>6 DEF Settings

\* A sweep that moves on, or ends, is a sweep.
LEMMA GoesType ==
  ASSUME TypeInv, NEW p \in Processes,
         NEW pc \in {"idle", "marker", "list", "current", "delete", "insert", "receipt"},
         Goes(p, pc) \/ Ends(p)
  PROVE  /\ sweep' \in [Processes -> Sweep]
         /\ \A q \in Processes : \A t \in Topics : sweep'[q].current[t].topic = t
<1>0. sweep \in [Processes -> Sweep] /\ sweep[p] \in Sweep
      /\ \A q \in Processes : \A t \in Topics : sweep[q].current[t].topic = t
  BY DEF TypeInv, TypeOK
<1>1. \A t \in Topics : NoSweep.current[t].topic = t
  BY NoSweepTopics
<1>2. CASE Goes(p, pc)
  <2>1. sweep' = [sweep EXCEPT ![p].pc = pc] BY <1>2 DEF Goes
  <2>2. [sweep[p] EXCEPT !.pc = pc] \in Sweep BY <1>0 DEF Sweep
  <2>3. sweep' = [sweep EXCEPT ![p] = [sweep[p] EXCEPT !.pc = pc]] BY <1>0, <2>1
  <2>4. [sweep[p] EXCEPT !.pc = pc].current = sweep[p].current BY <1>0 DEF Sweep
  <2> QED BY <1>0, <2>2, <2>3, <2>4
<1>3. CASE Ends(p)
  BY <1>0, <1>1, <1>3, NoSweepType DEF Ends
<1> QED BY <1>2, <1>3

\* The rows that replace the snapshot are rows.
LEMMA NextRowsType ==
  ASSUME NEW s \in Sweep, \A t \in Topics : s.current[t].topic = t
  PROVE  NextRows(s) \subseteq Row
<1> SUFFICES ASSUME NEW t \in Topics
             PROVE  NextRow(t, s.group[t], s.current[t]) \in Row
  BY DEF NextRows, Publishable
<1>1. s.group[t] \in Contributions /\ s.current[t] \in Row BY DEF Sweep
<1> QED BY <1>1, NextRowIs

LEMMA RebuildType ==
  ASSUME TypeInv, NEW p \in Processes, Rebuild(p) PROVE TypeInv'
<1>0. /\ sweep \in [Processes -> Sweep] /\ sweep[p] \in Sweep /\ env \in Environment
      /\ age \in [Agencies -> 0..Week] /\ snapshot \subseteq Row
      /\ counts \in [Topics -> [before : Nat, last : Nat]]
      /\ shown \in [Topics -> Contributions]
      /\ listed \subseteq Agencies /\ receipted \subseteq Agencies
      /\ \A q \in Processes : \A t \in Topics : sweep[q].current[t].topic = t
  BY DEF TypeInv, TypeOK
<1>1. \A t \in Topics : NoSweep.current[t].topic = t
  BY NoSweepTopics
<1>2. CASE SweepStart(p)
  <2> DEFINE s == [NoSweep EXCEPT !.pc = "marker", !.due = Consenting]
  <2>1. s \in Sweep /\ s.current = NoSweep.current
    BY NoSweepType DEF Sweep, Consenting
  <2>2. sweep' = [sweep EXCEPT ![p] = s] BY <1>2 DEF SweepStart
  <2>3. env' \in Environment BY <1>0, <1>2 DEF SweepStart, Environment
  <2> HIDE DEF s
  <2>4. /\ sweep' \in [Processes -> Sweep]
        /\ \A q \in Processes : \A t \in Topics : sweep'[q].current[t].topic = t
    BY <1>0, <1>1, <2>1, <2>2
  <2> QED BY <1>2, <2>3, <2>4 DEF SweepStart, TypeInv, TypeOK, history
<1>3. CASE LookForMarker(p)
  <2>1. Goes(p, "list") \/ Ends(p) BY <1>3 DEF LookForMarker
  <2> QED BY <1>3, <2>1, GoesType DEF LookForMarker, TypeInv, TypeOK, history
<1>4. CASE RebuildList(p)
  <2>1. PICK group \in [Topics -> [Agencies -> Episodes]] :
          sweep' = [sweep EXCEPT ![p].pc = "current", ![p].listed = Consenting,
                                 ![p].group = group]
    BY <1>4 DEF RebuildList
  <2> DEFINE s == [sweep[p] EXCEPT !.pc = "current", !.listed = Consenting,
                                   !.group = group]
  <2>2. group \in [Topics -> Contributions]
    BY NetworkAssumption DEF Contributions
  <2>3. s \in Sweep /\ s.current = sweep[p].current
    BY <1>0, <2>2 DEF Sweep, Consenting
  <2>4. sweep' = [sweep EXCEPT ![p] = s] BY <1>0, <2>1
  <2> HIDE DEF s
  <2>5. /\ sweep' \in [Processes -> Sweep]
        /\ \A q \in Processes : \A t \in Topics : sweep'[q].current[t].topic = t
    BY <1>0, <2>3, <2>4
  <2> QED BY <1>4, <2>5 DEF RebuildList, TypeInv, TypeOK, history
<1>5. CASE ReadCurrent(p)
  <2>1. PICK current \in [Topics -> snapshot \cup {NoRow(t) : t \in Topics}] :
          /\ \A t \in Topics : current[t].topic = t
          /\ sweep' = [sweep EXCEPT ![p].pc = "delete", ![p].current = current]
    BY <1>5 DEF ReadCurrent
  <2> DEFINE s == [sweep[p] EXCEPT !.pc = "delete", !.current = current]
  <2>2. current \in [Topics -> Row] BY <1>0, <2>1, NoRowType
  <2>3. s \in Sweep /\ s.current = current
    BY <1>0, <2>2 DEF Sweep
  <2>4. sweep' = [sweep EXCEPT ![p] = s] BY <1>0, <2>1
  <2>6. \A t \in Topics : s.current[t].topic = t BY <2>1, <2>3
  <2> HIDE DEF s
  <2>5. /\ sweep' \in [Processes -> Sweep]
        /\ \A q \in Processes : \A t \in Topics : sweep'[q].current[t].topic = t
    BY <1>0, <2>3, <2>4, <2>6
  <2> QED BY <1>5, <2>5 DEF ReadCurrent, TypeInv, TypeOK, history
<1>6. CASE DeleteRows(p)
  <2>1. Goes(p, "insert") /\ snapshot' \subseteq Row BY <1>6 DEF DeleteRows
  <2> QED BY <1>6, <2>1, GoesType DEF DeleteRows, TypeInv, TypeOK, history
<1>7. CASE InsertRows(p)
  <2> DEFINE s == [NoSweep EXCEPT !.pc = "receipt", !.due = sweep[p].due]
  <2>1. s \in Sweep /\ s.current = NoSweep.current
    BY <1>0, NoSweepType DEF Sweep
  <2>2. sweep' = [sweep EXCEPT ![p] = s] BY <1>7 DEF InsertRows
  <2> HIDE DEF s
  <2>3. /\ sweep' \in [Processes -> Sweep]
        /\ \A q \in Processes : \A t \in Topics : sweep'[q].current[t].topic = t
    BY <1>0, <1>1, <2>1, <2>2
  <2>4. snapshot' \subseteq Row BY <1>0, <1>7, NextRowsType DEF InsertRows
  <2>5. counts' \in [Topics -> [before : Nat, last : Nat]]
    BY <1>0, <1>7, CountType DEF InsertRows
  <2>6. shown' \in [Topics -> Contributions]
    <3>1. ASSUME NEW t \in Topics
          PROVE  NextRow(t, sweep[p].group[t], sweep[p].current[t]).from \in Contributions
      <4>1. sweep[p].group[t] \in Contributions /\ sweep[p].current[t] \in Row
            /\ sweep[p].current[t].topic = t
        BY <1>0 DEF Sweep
      <4> QED BY <4>1, NextRowIs DEF Row
    <3> QED BY <1>7, <3>1, NobodyEmpty DEF InsertRows
  <2>7. listed' \subseteq Agencies /\ receipted' \subseteq Agencies /\ days' \in 0..Week
    BY <1>0, <1>7, NetworkAssumption DEF InsertRows, Sweep
  <2> QED BY <1>7, <2>3, <2>4, <2>5, <2>6, <2>7 DEF InsertRows, TypeInv, TypeOK
<1>8. CASE Receipt(p)
  <2>1. PICK a \in sweep[p].due :
          /\ age' = [age EXCEPT ![a] = 0]
          /\ receipted' = receipted \cup {a}
          /\ \/ Ends(p)
             \/ sweep' = [sweep EXCEPT ![p].due = @ \ {a}]
    BY <1>8 DEF Receipt
  <2>2. a \in Agencies BY <1>0 DEF Sweep
  <2>3. age' \in [Agencies -> 0..Week]
    <3>1. 0 \in 0..Week BY NetworkAssumption
    <3>2. age' = [age EXCEPT ![a] = 0] BY <2>1
    <3> QED BY <1>0, <3>1, <3>2
  <2>4. /\ sweep' \in [Processes -> Sweep]
        /\ \A q \in Processes : \A t \in Topics : sweep'[q].current[t].topic = t
    <3>1. CASE Ends(p) BY <3>1, GoesType
    <3>2. CASE sweep' = [sweep EXCEPT ![p].due = @ \ {a}]
      <4> DEFINE s == [sweep[p] EXCEPT !.due = @ \ {a}]
      <4>1. s \in Sweep /\ s.current = sweep[p].current BY <1>0 DEF Sweep
      <4>2. sweep' = [sweep EXCEPT ![p] = s] BY <1>0, <3>2
      <4> HIDE DEF s
      <4> QED BY <1>0, <4>1, <4>2
    <3> QED BY <2>1, <3>1, <3>2
  <2> QED BY <1>0, <1>8, <2>1, <2>2, <2>3, <2>4 DEF Receipt, TypeInv, TypeOK
<1>9. CASE SweepFails(p)
  <2>1. Ends(p) BY <1>9 DEF SweepFails
  <2> QED BY <1>9, <2>1, GoesType DEF SweepFails, TypeInv, TypeOK, history
<1> QED BY <1>2, <1>3, <1>4, <1>5, <1>6, <1>7, <1>8, <1>9 DEF Rebuild

\* A day passes; a log fills up.
LEMMA TimeType ==
  ASSUME TypeInv, NextDay \/ \E a \in Agencies : Crowd(a) PROVE TypeInv'
<1>0. age \in [Agencies -> 0..Week] /\ days \in 0..Week /\ env \in Environment
      /\ receipted \subseteq Agencies
  BY DEF TypeInv, TypeOK
<1>1. CASE NextDay
  <2>1. age' \in [Agencies -> 0..Week] /\ days' \in 0..Week
    BY <1>0, <1>1, NetworkAssumption DEF NextDay
  <2>2. env' \in Environment BY <1>0, <1>1 DEF NextDay, Environment
  <2> QED BY <1>1, <2>1, <2>2 DEF NextDay, TypeInv, TypeOK
<1>2. ASSUME NEW a \in Agencies, Crowd(a) PROVE TypeInv'
  <2>1. age' \in [Agencies -> 0..Week] /\ receipted' \subseteq Agencies
    BY <1>0, <1>2, NetworkAssumption DEF Crowd
  <2>2. env' \in Environment BY <1>0, <1>2 DEF Crowd, Environment
  <2> QED BY <1>2, <2>1, <2>2 DEF Crowd, TypeInv, TypeOK
<1> QED BY <1>1, <1>2

LEMMA TypeStep == TypeInv /\ [Next]_vars => TypeInv'
<1> SUFFICES ASSUME TypeInv, [Next]_vars PROVE TypeInv' OBVIOUS
<1>1. CASE UNCHANGED vars BY <1>1 DEF vars, history, TypeInv, TypeOK
<1>2. CASE Next BY <1>2, SettingsType, RebuildType, TimeType DEF Next
<1> QED BY <1>1, <1>2

LEMMA TypeAlways == Spec => []TypeInv
<1>1. Init => TypeInv BY TypeInit
<1>2. TypeInv /\ [Next]_vars => TypeInv' BY TypeStep
<1> QED BY <1>1, <1>2, PTL DEF Spec

\* The state keeps its types: rows are of groups there are, whatever overlaps
\* or fails (NetworkPlays.TypeOK).
THEOREM NetworkTypeCorrect == Spec => []TypeOK
<1>1. TypeInv => TypeOK BY DEF TypeInv
<1> QED BY <1>1, TypeAlways, PTL

-----------------------------------------------------------------------------
(* Who does what.                                                          *)

\* A sweep moves itself only.
LEMMA OthersStay ==
  ASSUME TypeInv, NEW p \in Processes, Rebuild(p), NEW q \in Processes, q # p
  PROVE  sweep'[q] = sweep[q]
<1>0. sweep \in [Processes -> Sweep] BY DEF TypeInv, TypeOK
<1> QED BY <1>0 DEF Rebuild, SweepStart, LookForMarker, RebuildList, ReadCurrent,
           DeleteRows, InsertRows, Receipt, SweepFails, Goes, Ends

\* Whoever saves, and time, leave sweeps and rows alone.
LEMMA OthersLeaveRows ==
  ASSUME [Next]_vars, ~ \E p \in Processes : Rebuild(p)
  PROVE  UNCHANGED <<snapshot, sweep, listed, counts, shown>>
BY DEF Next, vars, history, Settings, SetOther, SetNetworkPlays, Open, WriteSettings,
       LogChange, SaveFails, Crowd, NextDay

\* Sweeps leave settings and saves alone.
LEMMA SweepsLeaveSettings ==
  ASSUME NEW p \in Processes, Rebuild(p)
  PROVE  UNCHANGED <<optedIn, recorded, tab>>
BY DEF Rebuild, SweepStart, LookForMarker, RebuildList, ReadCurrent,
       DeleteRows, InsertRows, Receipt, SweepFails

\* The circumstances are those a behaviour started in.
LEMMA CircumstancesStay ==
  ASSUME TypeInv, [Next]_vars
  PROVE  env'.overlap = env.overlap /\ env'.fail = env.fail
<1>0. env \in Environment BY DEF TypeInv, TypeOK
<1>1. \/ UNCHANGED env
      \/ env' = [env EXCEPT !.calls = @ - 1]
      \/ env' = [env EXCEPT !.sweeps = @ - 1]
      \/ env' = [env EXCEPT !.days = @ - 1]
  BY DEF Next, vars, Settings, SetOther, SetNetworkPlays, Open, WriteSettings,
         LogChange, SaveFails, Crowd, NextDay, Rebuild, SweepStart, LookForMarker,
         RebuildList, ReadCurrent, DeleteRows, InsertRows, Receipt, SweepFails
<1> QED BY <1>0, <1>1 DEF Environment

-----------------------------------------------------------------------------
(* The floors.                                                             *)

\* Rows clear the floors, and so do those a sweep found.
ClearInv ==
  /\ BenchmarksClearFloors
  /\ \A p \in Processes : \A t \in Topics :
       sweep[p].current[t].from # Nobody => Clears(sweep[p].current[t].from)

LEMMA NoSweepNobody == \A t \in Topics : NoSweep.current[t].from = Nobody
<1> TAKE t \in Topics
<1>1. NoSweep.current[t] = NoRow(t) BY NoSweepType
<1> QED BY <1>1 DEF NoRow

LEMMA ClearStep == TypeInv /\ TypeInv' /\ ClearInv /\ [Next]_vars => ClearInv'
<1> SUFFICES ASSUME TypeInv, TypeInv', ClearInv, [Next]_vars PROVE ClearInv'
  OBVIOUS
<1>0. /\ sweep \in [Processes -> Sweep] /\ snapshot \subseteq Row
      /\ \A q \in Processes : \A t \in Topics : sweep[q].current[t].topic = t
  BY DEF TypeInv, TypeOK
<1>1. CASE ~ \E p \in Processes : Rebuild(p)
  BY <1>1, OthersLeaveRows DEF ClearInv, BenchmarksClearFloors
<1>2. ASSUME NEW p \in Processes, Rebuild(p) PROVE ClearInv'
  <2>0. sweep[p] \in Sweep /\ \A q \in Processes : q # p => sweep'[q] = sweep[q]
    BY <1>0, <1>2, OthersStay
  <2>1. SUFFICES /\ \A r \in snapshot' : Clears(r.from)
                 /\ \A t \in Topics : sweep'[p].current[t].from # Nobody
                                       => Clears(sweep'[p].current[t].from)
    BY <2>0 DEF ClearInv, BenchmarksClearFloors
  <2>2. /\ \A r \in snapshot : Clears(r.from)
        /\ \A t \in Topics : sweep[p].current[t].from # Nobody
                              => Clears(sweep[p].current[t].from)
    BY DEF ClearInv, BenchmarksClearFloors
  <2>3. CASE /\ snapshot' \subseteq snapshot
             /\ sweep'[p].current \in {sweep[p].current, NoSweep.current}
    BY <2>2, <2>3, NoSweepNobody
  <2>4. CASE ReadCurrent(p)
    <3>1. PICK current \in [Topics -> snapshot \cup {NoRow(t) : t \in Topics}] :
            sweep' = [sweep EXCEPT ![p].pc = "delete", ![p].current = current]
      BY <2>4 DEF ReadCurrent
    <3>2. sweep'[p].current = current BY <1>0, <2>0, <3>1 DEF Sweep
    <3>3. \A t \in Topics : NoRow(t).from = Nobody BY DEF NoRow
    <3>4. snapshot' = snapshot BY <2>4 DEF ReadCurrent
    <3> QED BY <2>2, <3>2, <3>3, <3>4
  <2>5. CASE InsertRows(p)
    <3>1. sweep'[p].current = NoSweep.current
      <4> DEFINE s == [NoSweep EXCEPT !.pc = "receipt", !.due = sweep[p].due]
      <4>1. s.current = NoSweep.current BY NoSweepType DEF Sweep
      <4>2. sweep'[p] = s BY <1>0, <2>5 DEF InsertRows
      <4> QED BY <4>1, <4>2
    <3>2. ASSUME NEW t \in Publishable(sweep[p])
          PROVE  Clears(NextRow(t, sweep[p].group[t], sweep[p].current[t]).from)
      <4>1. /\ t \in Topics /\ Clears(sweep[p].group[t])
            /\ sweep[p].group[t] \in Contributions /\ sweep[p].current[t] \in Row
            /\ sweep[p].current[t].topic = t
        BY <1>0, <2>0 DEF Publishable, Sweep
      <4>2. ~Settled(sweep[p].group[t], sweep[p].current[t])
            => sweep[p].current[t].from # Nobody
        BY DEF Settled
      <4> QED BY <2>2, <4>1, <4>2, NextRowIs
    <3>3. snapshot' = snapshot \cup NextRows(sweep[p]) BY <2>5 DEF InsertRows
    <3> QED BY <2>2, <3>1, <3>2, <3>3, NoSweepNobody DEF NextRows
  <2>6. CASE SweepStart(p)
    <3> DEFINE s == [NoSweep EXCEPT !.pc = "marker", !.due = Consenting]
    <3>1. s.current = NoSweep.current BY NoSweepType DEF Sweep
    <3>2. sweep'[p] = s /\ snapshot' = snapshot BY <1>0, <2>6 DEF SweepStart
    <3> QED BY <2>3, <3>1, <3>2
  <2>7. CASE RebuildList(p)
    <3>1. sweep'[p].current = sweep[p].current /\ snapshot' = snapshot
      BY <1>0, <2>0, <2>7 DEF RebuildList, Sweep
    <3> QED BY <2>3, <3>1
  <2>8. CASE Receipt(p) \/ SweepFails(p)
    <3>1. sweep'[p].current \in {sweep[p].current, NoSweep.current} /\ snapshot' = snapshot
      BY <1>0, <2>0, <2>8 DEF Receipt, SweepFails, Ends, Sweep
    <3> QED BY <2>3, <3>1
  <2>9. CASE LookForMarker(p) \/ DeleteRows(p)
    <3>1. /\ sweep'[p].current \in {sweep[p].current, NoSweep.current}
          /\ snapshot' \subseteq snapshot
      BY <1>0, <2>0, <2>9 DEF LookForMarker, DeleteRows, Goes, Ends, Sweep
    <3> QED BY <2>3, <3>1
  <2> QED BY <1>2, <2>4, <2>5, <2>6, <2>7, <2>8, <2>9 DEF Rebuild
<1> QED BY <1>1, <1>2

\* However sweeps overlap or fail, what a tenant reads was made of enough
\* agencies and episodes, and of no dominant one (BenchmarksClearFloors of
\* NetworkPlays; publishableAggregates and the stability rule).
THEOREM FloorsCleared == Spec => []BenchmarksClearFloors
<1>1. Init => ClearInv
  BY NoSweepNobody DEF Init, ClearInv, BenchmarksClearFloors
<1>2. TypeInv /\ TypeInv' /\ ClearInv /\ [Next]_vars => ClearInv' BY ClearStep
<1>3. ClearInv => BenchmarksClearFloors BY DEF ClearInv
<1> QED BY <1>1, <1>2, <1>3, TypeAlways, PTL DEF Spec

-----------------------------------------------------------------------------
(* Receipts.                                                               *)

\* Who holds an event of the last rebuild has it for as many days, and events
\* are written on the day of the rebuild.
WeekInv ==
  /\ \A a \in receipted : age[a] = days
  /\ \A p \in Processes : sweep[p].pc = "receipt" => days = 0

LEMMA WeekStep == TypeInv /\ WeekInv /\ [Next]_vars => WeekInv'
<1> SUFFICES ASSUME TypeInv, WeekInv, [Next]_vars PROVE WeekInv' OBVIOUS
<1>0. /\ sweep \in [Processes -> Sweep] /\ receipted \subseteq Agencies
      /\ age \in [Agencies -> 0..Week] /\ days \in 0..Week
  BY DEF TypeInv, TypeOK
<1>1. ASSUME NEW p \in Processes, Rebuild(p) PROVE WeekInv'
  <2>0. sweep[p] \in Sweep /\ \A q \in Processes : q # p => sweep'[q] = sweep[q]
    BY <1>0, <1>1, OthersStay
  <2>1. CASE InsertRows(p)
    BY <2>1 DEF InsertRows, WeekInv
  <2>2. CASE Receipt(p)
    <3>1. days = 0 /\ days' = days BY <2>2 DEF Receipt, WeekInv
    <3>2. PICK a \in sweep[p].due :
            age' = [age EXCEPT ![a] = 0] /\ receipted' = receipted \cup {a}
      BY <2>2 DEF Receipt
    <3>3. a \in Agencies BY <2>0 DEF Sweep
    <3> QED BY <1>0, <3>1, <3>2, <3>3 DEF WeekInv
  <2>3. CASE SweepStart(p)
    <3>1. sweep'[p].pc = "marker" /\ UNCHANGED <<age, receipted, days>>
      BY <1>0, <2>3, NoSweepType DEF SweepStart, history, Sweep
    <3> QED BY <2>0, <3>1 DEF WeekInv
  <2>4. CASE LookForMarker(p) \/ RebuildList(p) \/ ReadCurrent(p) \/ DeleteRows(p)
             \/ SweepFails(p)
    <3>1. sweep'[p].pc # "receipt" /\ UNCHANGED <<age, receipted, days>>
      BY <1>0, <2>0, <2>4 DEF LookForMarker, RebuildList, ReadCurrent, DeleteRows,
         SweepFails, Goes, Ends, NoSweep, history, Sweep
    <3> QED BY <2>0, <3>1 DEF WeekInv
  <2> QED BY <1>1, <2>1, <2>2, <2>3, <2>4 DEF Rebuild
<1>2. CASE NextDay
  <2>1. sweep' = sweep /\ receipted' = receipted
        /\ \A p \in Processes : sweep[p].pc = "idle"
    BY <1>2 DEF NextDay, Sweeping
  <2>2. \A a \in receipted : age'[a] = days'
    BY <1>0, <1>2 DEF NextDay, WeekInv
  <2> QED BY <2>1, <2>2 DEF WeekInv
<1>3. ASSUME NEW a \in Agencies, Crowd(a) PROVE WeekInv'
  BY <1>0, <1>3 DEF Crowd, WeekInv
<1>4. CASE UNCHANGED vars BY <1>4 DEF vars, history, WeekInv
<1>5. ASSUME NEW x \in Tabs, Settings(x) PROVE WeekInv'
  BY <1>5 DEF Settings, SetOther, SetNetworkPlays, Open, WriteSettings, LogChange,
     SaveFails, history, WeekInv
<1> QED BY <1>1, <1>2, <1>3, <1>4, <1>5 DEF Next

\* A sweep that rebuilds within the week read the log of an agency that holds
\* no event of the last rebuild (WeekBetweenRebuilds of NetworkPlays), however
\* sweeps overlap or fail.
THEOREM RebuildsWeekly == Spec => WeekBetweenRebuilds
<1>1. Init => WeekInv
  BY NoSweepType DEF Init, WeekInv, NoSweep
<1>2. TypeInv /\ WeekInv /\ [Next]_vars => WeekInv' BY WeekStep
<1>3. TypeInv /\ WeekInv /\ [Next]_vars =>
        [\A p \in Processes :
           sweep[p].pc = "marker" /\ sweep'[p].pc = "list" =>
             days = Week \/ ~(sweep[p].due \subseteq receipted)]_sweep
  <2> SUFFICES ASSUME TypeInv, WeekInv, [Next]_vars, sweep' # sweep,
                      NEW q \in Processes, sweep[q].pc = "marker", sweep'[q].pc = "list"
               PROVE  days = Week \/ ~(sweep[q].due \subseteq receipted)
    OBVIOUS
  <2>0. sweep \in [Processes -> Sweep] BY DEF TypeInv, TypeOK
  <2>1. PICK p \in Processes : Rebuild(p) BY OthersLeaveRows
  <2>2. p = q BY <2>1, OthersStay
  <2>3. LookForMarker(q)
    BY <2>0, <2>1, <2>2 DEF Rebuild, SweepStart, RebuildList, ReadCurrent, DeleteRows,
       InsertRows, Receipt, SweepFails, Ends, NoSweep
  <2>4. PICK a \in sweep[q].due : age[a] = Week \/ Ends(q) BY <2>3 DEF LookForMarker
  <2>5. ~Ends(q) BY <2>0 DEF Ends, NoSweep
  <2> QED BY <2>4, <2>5 DEF WeekInv
<1> QED BY <1>1, <1>2, <1>3, TypeAlways, PTL DEF Spec, WeekBetweenRebuilds

-----------------------------------------------------------------------------
(* Consent and its log.                                                    *)

\* One save at a time; before its write log and settings agree, after it they
\* differ by what it will log; another field's save keeps consent as it is.
ConsentInv ==
  Orderly =>
    /\ ConsentIsRecorded
    /\ \A x, y \in Tabs : tab[x].pc # "idle" /\ tab[y].pc # "idle" => x = y
    /\ \A x \in Tabs :
         /\ tab[x].pc # "idle" => tab[x].agency \in Agencies
         /\ tab[x].pc = "write" =>
              /\ optedIn = recorded
              /\ ~tab[x].consent => tab[x].enabled = optedIn[tab[x].agency]
         /\ tab[x].pc = "log" =>
              /\ optedIn = [recorded EXCEPT ![tab[x].agency] = tab[x].enabled]
              /\ ~tab[x].consent => tab[x].enabled = recorded[tab[x].agency]

LEMMA ConsentStep == TypeInv /\ ConsentInv /\ [Next]_vars => ConsentInv'
<1> SUFFICES ASSUME TypeInv, ConsentInv, [Next]_vars, Orderly' PROVE ConsentInv'
  BY DEF ConsentInv
<1>0. /\ tab \in [Tabs -> Save] /\ optedIn \in [Agencies -> BOOLEAN]
      /\ recorded \in [Agencies -> BOOLEAN]
  BY DEF TypeInv, TypeOK
<1>1. Orderly BY CircumstancesStay DEF Orderly, Serial
<1>2. CASE UNCHANGED <<optedIn, recorded, tab>>
  BY <1>1, <1>2 DEF ConsentInv, ConsentIsRecorded, Saving, Orderly, Serial
<1>3. ASSUME NEW x \in Tabs, NEW a \in Agencies, NEW on \in BOOLEAN, NEW about \in BOOLEAN,
             Open(x, a, on, about), ~about => on = optedIn[a]
      PROVE  ConsentInv'
  <2>1. ~Saving /\ optedIn = recorded
    BY <1>1, <1>3 DEF Open, Orderly, Serial, ConsentInv, ConsentIsRecorded
  <2>2. \A y \in Tabs : tab[y].pc = "idle" BY <2>1 DEF Saving
  <2>3. /\ tab'[x] = [pc |-> "write", agency |-> a, enabled |-> on, consent |-> about]
        /\ \A y \in Tabs : y # x => tab'[y] = tab[y]
        /\ UNCHANGED <<optedIn, recorded>>
    BY <1>0, <1>3 DEF Open
  <2>4. Saving' BY <2>3 DEF Saving
  <2> QED BY <1>3, <2>1, <2>2, <2>3, <2>4 DEF ConsentInv, ConsentIsRecorded
<1>4. ASSUME NEW x \in Tabs, Settings(x) PROVE ConsentInv'
  <2>1. CASE \E a \in Agencies : \/ SetOther(x, a)
                                 \/ \E on \in BOOLEAN : SetNetworkPlays(x, a, on)
    BY <1>0, <1>3, <2>1 DEF SetOther, SetNetworkPlays
  <2>2. CASE WriteSettings(x)
    <3>1. /\ \A y \in Tabs : y # x => tab[y].pc = "idle"
          /\ tab[x].agency \in Agencies /\ optedIn = recorded
          /\ ~tab[x].consent => tab[x].enabled = optedIn[tab[x].agency]
      BY <1>1, <2>2 DEF WriteSettings, ConsentInv
    <3>2. /\ tab'[x] = [tab[x] EXCEPT !.pc = "log"]
          /\ \A y \in Tabs : y # x => tab'[y] = tab[y]
          /\ optedIn' = [recorded EXCEPT ![tab[x].agency] = tab[x].enabled]
          /\ recorded' = recorded
      BY <1>0, <2>2, <3>1 DEF WriteSettings
    <3>3. /\ tab'[x].pc = "log" /\ tab'[x].agency = tab[x].agency
          /\ tab'[x].enabled = tab[x].enabled /\ tab'[x].consent = tab[x].consent
      BY <1>0, <3>2 DEF Save
    <3>4. Saving' BY <3>3 DEF Saving
    <3>5. \A y \in Tabs : y # x => tab'[y].pc = "idle" BY <3>1, <3>2
    <3>6. /\ tab'[x].agency \in Agencies
          /\ optedIn' = [recorded' EXCEPT ![tab'[x].agency] = tab'[x].enabled]
          /\ ~tab'[x].consent => tab'[x].enabled = recorded'[tab'[x].agency]
      BY <3>1, <3>2, <3>3
    <3>7. (/\ ConsentIsRecorded
           /\ \A y, z \in Tabs : tab[y].pc # "idle" /\ tab[z].pc # "idle" => y = z)'
      BY <3>4, <3>5 DEF ConsentIsRecorded
    <3> QED BY <3>3, <3>5, <3>6, <3>7 DEF ConsentInv
  <2>3. CASE LogChange(x)
    <3>1. /\ \A y \in Tabs : y # x => tab[y].pc = "idle"
          /\ tab[x].agency \in Agencies
          /\ optedIn = [recorded EXCEPT ![tab[x].agency] = tab[x].enabled]
          /\ ~tab[x].consent => tab[x].enabled = recorded[tab[x].agency]
      BY <1>1, <2>3 DEF LogChange, ConsentInv
    <3>2. \A y \in Tabs : tab'[y].pc = "idle"
      BY <1>0, <2>3, <3>1 DEF LogChange, NoSave
    <3>3. optedIn' = recorded'
      <4>1. CASE tab[x].consent BY <2>3, <3>1, <4>1 DEF LogChange
      <4>2. CASE ~tab[x].consent
        <5>1. optedIn = [recorded EXCEPT ![tab[x].agency] = recorded[tab[x].agency]]
          BY <3>1, <4>2
        <5>2. optedIn = recorded BY <1>0, <5>1
        <5> QED BY <2>3, <4>2, <5>2 DEF LogChange
      <4> QED BY <4>1, <4>2
    <3> QED BY <3>2, <3>3 DEF ConsentInv, ConsentIsRecorded
  <2>4. ~SaveFails(x) BY <1>1 DEF Orderly, SaveFails
  <2> QED BY <1>4, <2>1, <2>2, <2>3, <2>4 DEF Settings
<1>5. ASSUME NEW p \in Processes, Rebuild(p) PROVE ConsentInv'
  BY <1>2, <1>5, SweepsLeaveSettings
<1>6. CASE NextDay \/ \E a \in Agencies : Crowd(a)
  BY <1>2, <1>6 DEF NextDay, Crowd
<1>7. CASE UNCHANGED vars BY <1>2, <1>7 DEF vars
<1> QED BY <1>4, <1>5, <1>6, <1>7 DEF Next

\* One save at a time, and none that fails: the consents the log tells of are
\* those in the settings (ConsentIsRecorded of NetworkPlays).
THEOREM ConsentLogged == Spec => []ConsentIsRecorded
<1>1. Init => ConsentInv
  BY DEF Init, NoSave, ConsentInv, ConsentIsRecorded
<1>2. TypeInv /\ ConsentInv /\ [Next]_vars => ConsentInv' BY ConsentStep
<1>3. ConsentInv => ConsentIsRecorded BY DEF ConsentInv, ConsentIsRecorded
<1> QED BY <1>1, <1>2, <1>3, TypeAlways, PTL DEF Spec

-----------------------------------------------------------------------------
(* Who is behind a benchmark.                                              *)

\* A row that waits for a number waits for the one just counted, which was
\* not the number before.
Counted(r) ==
  /\ r.from # Nobody
  /\ r.pending = 0 => counts[r.topic].last = Count(r.from)
  /\ r.pending # 0 => /\ counts[r.topic].last = r.pending
                      /\ counts[r.topic].last # counts[r.topic].before

\* One sweep at a time; a row that does not wait is of the last rebuild; what
\* a sweep gathered is of those it listed; what it found is as in the snapshot,
\* which is empty before it inserts.
LeaveInv ==
  Serial =>
    /\ \A p, q \in Processes : sweep[p].pc # "idle" /\ sweep[q].pc # "idle" => p = q
    /\ \A r \in snapshot : Counted(r) /\ (r.pending = 0 => Members(r.from) \subseteq listed)
    /\ \A p \in Processes :
         /\ sweep[p].pc \in {"current", "delete", "insert"} =>
              \A t \in Topics : Members(sweep[p].group[t]) \subseteq sweep[p].listed
         /\ sweep[p].pc \in {"delete", "insert"} =>
              \A t \in Topics : sweep[p].current[t].from # Nobody => Counted(sweep[p].current[t])
         /\ sweep[p].pc = "insert" => snapshot = {}

Rest == <<snapshot, listed, counts, shown>>

\* What a step of a sweep does to the rows, and to what it holds.
LEMMA SweepMoves ==
  ASSUME TypeInv, NEW p \in Processes, Rebuild(p)
  PROVE  \/ InsertRows(p) /\ sweep[p].pc = "insert" /\ sweep'[p].pc = "receipt"
         \/ /\ ReadCurrent(p) /\ sweep[p].pc = "current" /\ sweep'[p].pc = "delete"
            /\ sweep'[p].group = sweep[p].group /\ sweep'[p].listed = sweep[p].listed
            /\ \A t \in Topics :
                 LET row == sweep'[p].current[t] IN
                 /\ row.topic = t
                 /\ \/ row \in snapshot
                    \/ row.from = Nobody /\ \A r \in snapshot : r.topic # t
            /\ UNCHANGED Rest
         \/ /\ DeleteRows(p) /\ sweep[p].pc = "delete" /\ sweep'[p].pc = "insert"
            /\ sweep'[p].group = sweep[p].group /\ sweep'[p].listed = sweep[p].listed
            /\ sweep'[p].current = sweep[p].current
            /\ snapshot' = {} /\ UNCHANGED <<listed, counts, shown>>
         \/ /\ RebuildList(p) /\ sweep[p].pc = "list" /\ sweep'[p].pc = "current"
            /\ \A t \in Topics : Members(sweep'[p].group[t]) \subseteq sweep'[p].listed
            /\ UNCHANGED Rest
         \/ /\ sweep'[p].pc \in {"idle", "marker", "list", "receipt"}
            /\ sweep[p].pc = "idle" => SweepStart(p)
            /\ sweep[p].pc \in {"delete", "insert"} => env.fail
            /\ UNCHANGED Rest
<1>0. sweep \in [Processes -> Sweep] /\ sweep[p] \in Sweep
  BY DEF TypeInv, TypeOK
<1>1. CASE InsertRows(p)
  <2> DEFINE s == [NoSweep EXCEPT !.pc = "receipt", !.due = sweep[p].due]
  <2>1. s.pc = "receipt" BY NoSweepType DEF Sweep
  <2>2. sweep'[p] = s /\ sweep[p].pc = "insert" BY <1>0, <1>1 DEF InsertRows
  <2> HIDE DEF s
  <2> QED BY <1>1, <2>1, <2>2
<1>2. CASE ReadCurrent(p)
  <2>1. PICK current \in [Topics -> snapshot \cup {NoRow(t) : t \in Topics}] :
          /\ \A t \in Topics :
               /\ current[t].topic = t
               /\ current[t] = NoRow(t) => \A r \in snapshot : r.topic # t
          /\ sweep' = [sweep EXCEPT ![p].pc = "delete", ![p].current = current]
    BY <1>2 DEF ReadCurrent
  <2>2. /\ sweep'[p].current = current /\ sweep'[p].pc = "delete"
        /\ sweep'[p].group = sweep[p].group /\ sweep'[p].listed = sweep[p].listed
    BY <1>0, <2>1 DEF Sweep
  <2>3. ASSUME NEW t \in Topics
        PROVE  /\ current[t].topic = t
               /\ \/ current[t] \in snapshot
                  \/ current[t].from = Nobody /\ \A r \in snapshot : r.topic # t
    <3>1. CASE current[t] \in snapshot BY <2>1, <3>1
    <3>2. CASE \E u \in Topics : current[t] = NoRow(u)
      <4>1. PICK u \in Topics : current[t] = NoRow(u) BY <3>2
      <4>2. NoRow(u).topic = u /\ NoRow(u).from = Nobody BY DEF NoRow
      <4>3. current[t].topic = t BY <2>1
      <4>4. u = t BY <4>1, <4>2, <4>3
      <4> QED BY <2>1, <4>1, <4>2, <4>4
    <3> QED BY <2>1, <3>1, <3>2
  <2>4. UNCHANGED Rest /\ sweep[p].pc = "current" BY <1>2 DEF ReadCurrent, Rest, history
  <2> QED BY <1>2, <2>2, <2>3, <2>4
<1>3. CASE DeleteRows(p)
  BY <1>0, <1>3 DEF DeleteRows, Goes, Sweep, history
<1>4. CASE RebuildList(p)
  <2>1. PICK group \in [Topics -> [Agencies -> Episodes]] :
          /\ \A t \in Topics : Members(group[t]) \subseteq Consenting
          /\ sweep' = [sweep EXCEPT ![p].pc = "current", ![p].listed = Consenting,
                                    ![p].group = group]
    BY <1>4 DEF RebuildList
  <2>2. sweep'[p].group = group /\ sweep'[p].listed = Consenting /\ sweep'[p].pc = "current"
    BY <1>0, <2>1 DEF Sweep
  <2>3. UNCHANGED Rest /\ sweep[p].pc = "list" BY <1>4 DEF RebuildList, Rest, history
  <2> QED BY <1>4, <2>1, <2>2, <2>3
<1>5. CASE SweepStart(p)
  <2> DEFINE s == [NoSweep EXCEPT !.pc = "marker", !.due = Consenting]
  <2>1. s.pc = "marker" BY NoSweepType DEF Sweep
  <2>2. sweep'[p] = s /\ sweep[p].pc = "idle" BY <1>0, <1>5 DEF SweepStart
  <2> HIDE DEF s
  <2>3. UNCHANGED Rest BY <1>5 DEF SweepStart, Rest, history
  <2> QED BY <1>5, <2>1, <2>2, <2>3
<1>6. CASE LookForMarker(p)
  BY <1>0, <1>6 DEF LookForMarker, Goes, Ends, NoSweep, Sweep, Rest, history
<1>7. CASE Receipt(p)
  BY <1>0, <1>7 DEF Receipt, Ends, NoSweep, Sweep, Rest
<1>8. CASE SweepFails(p)
  BY <1>0, <1>8 DEF SweepFails, Ends, NoSweep, Rest, history
<1> QED BY <1>1, <1>2, <1>3, <1>4, <1>5, <1>6, <1>7, <1>8 DEF Rebuild

LEMMA LeaveStep == TypeInv /\ ClearInv /\ LeaveInv /\ [Next]_vars => LeaveInv'
<1> SUFFICES ASSUME TypeInv, ClearInv, LeaveInv, [Next]_vars, Serial' PROVE LeaveInv'
  BY DEF LeaveInv
<1>0. /\ sweep \in [Processes -> Sweep] /\ snapshot \subseteq Row
      /\ counts \in [Topics -> [before : Nat, last : Nat]]
      /\ \A q \in Processes : \A t \in Topics : sweep[q].current[t].topic = t
  BY DEF TypeInv, TypeOK
<1>1. Serial BY CircumstancesStay DEF Serial
<1>2. CASE ~ \E p \in Processes : Rebuild(p)
  BY <1>1, <1>2, OthersLeaveRows DEF LeaveInv, Counted
<1>3. ASSUME NEW p \in Processes, Rebuild(p) PROVE LeaveInv'
  <2>0. sweep[p] \in Sweep /\ \A q \in Processes : q # p => sweep'[q] = sweep[q]
    BY <1>0, <1>3, OthersStay
  <2>1. \A q \in Processes : q # p => sweep[q].pc = "idle" /\ sweep'[q].pc = "idle"
    <3>1. CASE sweep[p].pc # "idle" BY <1>1, <2>0, <3>1 DEF LeaveInv
    <3>2. CASE sweep[p].pc = "idle"
      <4>1. SweepStart(p) BY <1>3, <3>2, SweepMoves
      <4>2. ~Sweeping BY <1>1, <4>1 DEF SweepStart, Serial
      <4> QED BY <2>0, <4>2 DEF Sweeping
    <3> QED BY <3>1, <3>2
  <2>2. SUFFICES
          /\ \A r \in snapshot' : Counted(r)' /\ (r.pending = 0 => Members(r.from) \subseteq listed')
          /\ sweep'[p].pc \in {"current", "delete", "insert"} =>
               \A t \in Topics : Members(sweep'[p].group[t]) \subseteq sweep'[p].listed
          /\ sweep'[p].pc \in {"delete", "insert"} =>
               \A t \in Topics : sweep'[p].current[t].from # Nobody => Counted(sweep[p].current[t])'
          /\ sweep'[p].pc = "insert" => snapshot' = {}
    BY <2>1 DEF LeaveInv
  <2>3. /\ \A r \in snapshot : Counted(r) /\ (r.pending = 0 => Members(r.from) \subseteq listed)
        /\ sweep[p].pc \in {"current", "delete", "insert"} =>
             \A t \in Topics : Members(sweep[p].group[t]) \subseteq sweep[p].listed
        /\ sweep[p].pc \in {"delete", "insert"} =>
             \A t \in Topics : sweep[p].current[t].from # Nobody => Counted(sweep[p].current[t])
        /\ sweep[p].pc = "insert" => snapshot = {}
    BY <1>1 DEF LeaveInv
  <2>4. CASE InsertRows(p) /\ sweep[p].pc = "insert" /\ sweep'[p].pc = "receipt"
    <3>1. snapshot' = NextRows(sweep[p]) /\ listed' = sweep[p].listed
      BY <2>3, <2>4 DEF InsertRows
    <3> SUFFICES ASSUME NEW t \in Publishable(sweep[p]),
                        NEW r, r = NextRow(t, sweep[p].group[t], sweep[p].current[t])
                 PROVE  Counted(r)' /\ (r.pending = 0 => Members(r.from) \subseteq listed')
      BY <2>4, <3>1 DEF NextRows
    <3> DEFINE group == sweep[p].group[t]
               row   == sweep[p].current[t]
    <3>2. /\ t \in Topics /\ Clears(group) /\ group \in Contributions /\ row \in Row
          /\ row.topic = t
      BY <1>0, <2>0 DEF Publishable, Sweep
    <3>3. /\ r \in Row /\ r.topic = t
          /\ \/ Settled(group, row) /\ r.from = group /\ r.pending = 0
             \/ /\ ~Settled(group, row)
                /\ r.from = row.from /\ r.pending = Count(group)
      BY <3>2, NextRowIs
    <3>4. counts'[t] = [before |-> counts[t].last, last |-> Count(group)]
      BY <2>4, <3>2 DEF InsertRows
    <3>5. Count(group) \in Nat \ {0} BY <3>2, ClearsCounts, CountType
    <3>6. group # Nobody BY <3>5, NobodyEmpty
    <3>7. CASE Settled(group, row)
      <4>1. r.from = group /\ r.pending = 0 BY <3>3, <3>7
      <4>2. Members(group) \subseteq sweep[p].listed BY <2>3, <2>4, <3>2
      <4>3. Counted(r)' BY <3>3, <3>4, <3>6, <4>1 DEF Counted
      <4> QED BY <3>1, <4>1, <4>2, <4>3
    <3>8. CASE ~Settled(group, row)
      <4>1. r.from = row.from /\ r.pending = Count(group) BY <3>3, <3>8
      <4>2. row.from # Nobody /\ Count(row.from) # Count(group) /\ row.pending # Count(group)
        BY <3>8 DEF Settled
      <4>3. Counted(row) BY <2>3, <2>4, <3>2, <4>2
      <4>4. counts[t].last # Count(group) BY <3>2, <4>2, <4>3 DEF Counted
      <4>5. Counted(r)' BY <3>3, <3>4, <3>5, <4>1, <4>2, <4>4 DEF Counted
      <4> QED BY <3>5, <4>1, <4>5
    <3> QED BY <3>7, <3>8
  <2>5. ASSUME NEW r, Counted(r), UNCHANGED counts PROVE Counted(r)'
    BY <2>5 DEF Counted
  <2>6. CASE /\ ReadCurrent(p) /\ sweep[p].pc = "current" /\ sweep'[p].pc = "delete"
             /\ sweep'[p].group = sweep[p].group /\ sweep'[p].listed = sweep[p].listed
             /\ \A t \in Topics :
                  LET row == sweep'[p].current[t] IN
                  /\ row.topic = t
                  /\ \/ row \in snapshot
                     \/ row.from = Nobody /\ \A r \in snapshot : r.topic # t
             /\ UNCHANGED Rest
    <3>1. \A r : Counted(r) => (r.from # Nobody /\ (r.pending = 0 => counts'[r.topic].last = Count(r.from))
                             /\ (r.pending # 0 => /\ counts'[r.topic].last = r.pending
                                                  /\ counts'[r.topic].last # counts'[r.topic].before))
      BY <2>6 DEF Counted, Rest
    <3>2. \A r \in snapshot' : Counted(r)' /\ (r.pending = 0 => Members(r.from) \subseteq listed')
      BY <2>3, <2>6, <3>1 DEF Counted, Rest
    <3>3. \A t \in Topics : sweep'[p].current[t].from # Nobody => Counted(sweep[p].current[t])'
      BY <2>3, <2>6, <3>1 DEF Counted
    <3> QED BY <2>3, <2>6, <3>2, <3>3
  <2>7. CASE /\ DeleteRows(p) /\ sweep[p].pc = "delete" /\ sweep'[p].pc = "insert"
             /\ sweep'[p].group = sweep[p].group /\ sweep'[p].listed = sweep[p].listed
             /\ sweep'[p].current = sweep[p].current
             /\ snapshot' = {} /\ UNCHANGED <<listed, counts, shown>>
    BY <2>3, <2>7 DEF Counted
  <2>8. CASE /\ RebuildList(p) /\ sweep[p].pc = "list" /\ sweep'[p].pc = "current"
             /\ \A t \in Topics : Members(sweep'[p].group[t]) \subseteq sweep'[p].listed
             /\ UNCHANGED Rest
    BY <2>3, <2>8 DEF Counted, Rest
  <2>9. CASE sweep'[p].pc \in {"idle", "marker", "list", "receipt"} /\ UNCHANGED Rest
    BY <2>3, <2>9 DEF Counted, Rest
  <2> QED BY <1>3, <2>4, <2>6, <2>7, <2>8, <2>9, SweepMoves
<1> QED BY <1>2, <1>3

\* Of agencies that had left at the last rebuild, only a number that moved in
\* that rebuild keeps any behind a benchmark (RevokedLeaves of NetworkPlays).
THEOREM LeaversLeave == Spec => []RevokedLeaves
<1>1. Init => LeaveInv BY NoSweepType DEF Init, LeaveInv, NoSweep
<1>2. TypeInv /\ ClearInv /\ LeaveInv /\ [Next]_vars => LeaveInv' BY LeaveStep
<1>3. LeaveInv => RevokedLeaves
  BY DEF LeaveInv, Counted, RevokedLeaves
<1>4. Init => ClearInv BY NoSweepNobody DEF Init, ClearInv, BenchmarksClearFloors
<1>5. TypeInv /\ TypeInv' /\ ClearInv /\ [Next]_vars => ClearInv' BY ClearStep
<1> QED BY <1>1, <1>2, <1>3, <1>4, <1>5, TypeAlways, PTL DEF Spec

-----------------------------------------------------------------------------
(* What a group shows.                                                     *)

\* One sweep at a time, and none that fails: a group that showed something has
\* rows that show it, or the sweep that deleted them found one.
ShownInv ==
  Orderly => \A t \in Topics : shown[t] # Nobody =>
    /\ \A r \in snapshot : r.topic = t => r.from = shown[t]
    /\ (\A p \in Processes : sweep[p].pc # "insert") => \E r \in snapshot : r.topic = t
    /\ \A p \in Processes : sweep[p].pc \in {"delete", "insert"} =>
         sweep[p].current[t].from = shown[t]

\* What an insert shows of a group that showed something else.
LEMMA ShownMoves ==
  ASSUME TypeInv, ClearInv, LeaveInv, ShownInv, Orderly,
         NEW p \in Processes, InsertRows(p), sweep[p].pc = "insert", NEW t \in Topics,
         shown'[t] # shown[t], shown[t] # Nobody, shown'[t] # Nobody
  PROVE  Count(shown'[t]) \in {Count(shown[t]), counts[t].last}
<1> DEFINE group == sweep[p].group[t]
           row   == sweep[p].current[t]
<1>1. /\ group \in Contributions /\ row \in Row /\ row.topic = t
  BY DEF TypeInv, TypeOK, Sweep
<1>2. t \in Publishable(sweep[p]) /\ shown'[t] = NextRow(t, group, row).from
  BY DEF InsertRows
<1>3. row.from = shown[t] BY DEF ShownInv
<1>4. Settled(group, row) /\ shown'[t] = group
  BY <1>1, <1>2, <1>3, NextRowIs
<1>5. Count(group) # 0 BY <1>2, ClearsCounts DEF Publishable
<1>6. Counted(row) BY <1>3 DEF LeaveInv, Orderly
<1>7. CASE row.pending = Count(group)
  <2>1. counts[t].last = row.pending BY <1>1, <1>5, <1>6, <1>7 DEF Counted
  <2> QED BY <1>4, <1>7, <2>1
<1>8. CASE Count(row.from) = Count(group)
  BY <1>3, <1>4, <1>8
<1> HIDE DEF group, row
<1>9. row.from # Nobody BY <1>3
<1> QED BY <1>4, <1>7, <1>8, <1>9 DEF Settled

LEMMA ShownStep ==
  TypeInv /\ ClearInv /\ LeaveInv /\ LeaveInv' /\ ShownInv /\ [Next]_vars => ShownInv'
<1> SUFFICES ASSUME TypeInv, ClearInv, LeaveInv, LeaveInv', ShownInv, [Next]_vars, Orderly'
             PROVE ShownInv'
  BY DEF ShownInv
<1>0. sweep \in [Processes -> Sweep] /\ snapshot \subseteq Row
  BY DEF TypeInv, TypeOK
<1>1. Orderly BY CircumstancesStay DEF Orderly, Serial
<1>2. CASE ~ \E p \in Processes : Rebuild(p)
  BY <1>1, <1>2, OthersLeaveRows DEF ShownInv
<1>3. ASSUME NEW p \in Processes, Rebuild(p) PROVE ShownInv'
  <2>0. /\ sweep[p] \in Sweep /\ \A t \in Topics : sweep[p].current[t].topic = t
        /\ \A q \in Processes : q # p => sweep'[q] = sweep[q]
    BY <1>0, <1>3, OthersStay DEF TypeInv
  <2>1. \A q \in Processes : q # p => sweep[q].pc = "idle" /\ sweep'[q].pc = "idle"
    <3>1. CASE sweep[p].pc # "idle" BY <1>1, <2>0, <3>1 DEF LeaveInv, Orderly
    <3>2. CASE sweep[p].pc = "idle"
      <4>1. SweepStart(p) BY <1>3, <3>2, SweepMoves
      <4>2. ~Sweeping BY <1>1, <4>1 DEF SweepStart, Serial, Orderly
      <4> QED BY <2>0, <4>2 DEF Sweeping
    <3> QED BY <3>1, <3>2
  <2>2. SUFFICES ASSUME NEW t \in Topics, shown'[t] # Nobody
                 PROVE  /\ \A r \in snapshot' : r.topic = t => r.from = shown'[t]
                        /\ sweep'[p].pc # "insert" => \E r \in snapshot' : r.topic = t
                        /\ sweep'[p].pc \in {"delete", "insert"} =>
                             sweep'[p].current[t].from = shown'[t]
    BY <2>1 DEF ShownInv
  <2>3. shown[t] # Nobody =>
          /\ \A r \in snapshot : r.topic = t => r.from = shown[t]
          /\ sweep[p].pc # "insert" => \E r \in snapshot : r.topic = t
          /\ sweep[p].pc \in {"delete", "insert"} => sweep[p].current[t].from = shown[t]
    BY <1>1, <2>1 DEF ShownInv
  <2>4. CASE InsertRows(p) /\ sweep[p].pc = "insert" /\ sweep'[p].pc = "receipt"
    <3>1. snapshot' = NextRows(sweep[p])
      BY <1>1, <2>4 DEF InsertRows, LeaveInv, Orderly
    <3>2. t \in Publishable(sweep[p])
          /\ shown'[t] = NextRow(t, sweep[p].group[t], sweep[p].current[t]).from
      BY <2>2, <2>4 DEF InsertRows
    <3>3. \A u \in Topics : NextRow(u, sweep[p].group[u], sweep[p].current[u]).topic = u
      BY <2>0, NextRowIs DEF Sweep
    <3>4. \A r \in snapshot' : r.topic = t =>
            r = NextRow(t, sweep[p].group[t], sweep[p].current[t])
      BY <3>1, <3>3 DEF NextRows, Publishable
    <3>5. \E r \in snapshot' : r.topic = t
      BY <3>1, <3>2, <3>3 DEF NextRows
    <3> QED BY <2>4, <3>2, <3>4, <3>5
  <2>5. CASE /\ ReadCurrent(p) /\ sweep[p].pc = "current" /\ sweep'[p].pc = "delete"
             /\ \A u \in Topics :
                  LET row == sweep'[p].current[u] IN
                  /\ row.topic = u
                  /\ \/ row \in snapshot
                     \/ row.from = Nobody /\ \A r \in snapshot : r.topic # u
             /\ UNCHANGED Rest
    BY <2>2, <2>3, <2>5 DEF Rest
  <2>6. CASE /\ sweep[p].pc = "delete" /\ sweep'[p].pc = "insert"
             /\ sweep'[p].current = sweep[p].current
             /\ snapshot' = {} /\ UNCHANGED <<listed, counts, shown>>
    BY <2>2, <2>3, <2>6
  <2>7. CASE /\ sweep[p].pc = "list" /\ sweep'[p].pc = "current" /\ UNCHANGED Rest
    BY <2>2, <2>3, <2>7 DEF Rest
  <2>8. CASE /\ sweep'[p].pc \in {"idle", "marker", "list", "receipt"}
             /\ sweep[p].pc \in {"delete", "insert"} => env.fail
             /\ UNCHANGED Rest
    BY <1>1, <2>2, <2>3, <2>8 DEF Rest, Orderly
  <2> QED BY <1>3, <2>4, <2>5, <2>6, <2>7, <2>8, SweepMoves
<1> QED BY <1>2, <1>3

\* One sweep at a time, and none that fails: what a group shows moves only to a
\* number of agencies it had, or that two rebuilds in a row counted
\* (NumbersMoveTogether of NetworkPlays; applyStabilityRule).
THEOREM NumbersHeld == Spec => NumbersMoveTogether
<1>1. Init => ClearInv /\ LeaveInv /\ ShownInv
  BY NoSweepNobody, NoSweepType
  DEF Init, ClearInv, BenchmarksClearFloors, LeaveInv, ShownInv, NoSweep
<1>2. TypeInv /\ TypeInv' /\ ClearInv /\ [Next]_vars => ClearInv' BY ClearStep
<1>3. TypeInv /\ ClearInv /\ LeaveInv /\ [Next]_vars => LeaveInv' BY LeaveStep
<1>4. TypeInv /\ ClearInv /\ LeaveInv /\ LeaveInv' /\ ShownInv /\ [Next]_vars => ShownInv'
  BY ShownStep
<1>5. TypeInv /\ ClearInv /\ LeaveInv /\ ShownInv /\ [Next]_vars =>
        [Orderly => \A t \in Topics :
           shown'[t] # shown[t] /\ shown[t] # Nobody /\ shown'[t] # Nobody =>
             Count(shown'[t]) \in {Count(shown[t]), counts[t].last}]_shown
  <2> SUFFICES ASSUME TypeInv, ClearInv, LeaveInv, ShownInv, [Next]_vars, Orderly,
                      NEW t \in Topics, shown'[t] # shown[t], shown[t] # Nobody,
                      shown'[t] # Nobody
               PROVE  Count(shown'[t]) \in {Count(shown[t]), counts[t].last}
    OBVIOUS
  <2>1. PICK p \in Processes : Rebuild(p) BY OthersLeaveRows
  <2>2. InsertRows(p) /\ sweep[p].pc = "insert" BY <2>1, SweepMoves DEF Rest
  <2> QED BY <2>2, ShownMoves
<1> QED BY <1>1, <1>2, <1>3, <1>4, <1>5, TypeAlways, PTL DEF Spec, NumbersMoveTogether
=============================================================================
