----------------------------- MODULE StatuteClock -----------------------------
(***************************************************************************)
(* The statutory deadline of a request: computeDueDate of                  *)
(* statute/computeDueDate.ts over the calendar of statute/businessDays.ts. *)
(* A filing asks for the deadline, an extension for the whole chain again  *)
(* with the extension on top (services/requestService.ts).                 *)
(*                                                                         *)
(* The code walks the calendar day by day; one action is one turn of a     *)
(* loop, or what stands between two loops.  A day is an integer, 0 being   *)
(* 1970-01-01: dates are floored to their UTC day before they are used.    *)
(*                                                                         *)
(* Left out: the basis that explains the result, and input no caller       *)
(* gives (an invalid date, a number of days that is not an integer).       *)
(***************************************************************************)
EXTENDS Integers, FiniteSets

CONSTANT Questions  \* what the function may be asked

\* The state's response clock; an extension is asked for or not.
Clock == [business : BOOLEAN, initialDays : Nat, startsNext : BOOLEAN,
          extensible : BOOLEAN, maxDays : Nat, extendsByBusiness : BOOLEAN]
Question == [receivedAt : Int, holidays : SUBSET Int, clock : Clock,
             roll : BOOLEAN,
             extended : BOOLEAN, days : Int, permitted : BOOLEAN]

StatuteAssumption == Questions \subseteq Question

VARIABLES
  ask,             \* the question
  phase,           \* the loop it is in, or the outcome
  cursor,          \* the day it has come to
  counted,         \* how many days it has counted
  clockStart,
  statutoryDueAt,
  dueAt

results   == <<clockStart, statutoryDueAt, dueAt>>
clockVars == <<ask, phase, cursor, counted, results>>

ClockInit ==
  /\ ask \in Questions
  /\ phase = "start"
  /\ cursor = ask.receivedAt
  /\ counted = 0
  /\ clockStart = 0
  /\ statutoryDueAt = 0
  /\ dueAt = 0

-----------------------------------------------------------------------------
\* Day 0 was a Thursday; 6 is Saturday, 0 is Sunday.
Weekend(d)     == (d + 4) % 7 \in {0, 6}
BusinessDay(d) == ~Weekend(d) /\ d \notin ask.holidays

\* What the phase it is in counts.
Days     == IF phase = "initial" THEN ask.clock.initialDays ELSE ask.days
Business == IF phase = "initial" THEN ask.clock.business
                              ELSE ask.clock.extendsByBusiness
Counting == phase \in {"initial", "extension"}

\* rollForwardToBusinessDay, if the clock starts on a business day only.
StartLater ==
  /\ phase = "start"
  /\ ask.clock.startsNext /\ ~BusinessDay(cursor)
  /\ cursor' = cursor + 1
  /\ UNCHANGED <<ask, phase, counted, results>>

StartClock ==
  /\ phase = "start"
  /\ ask.clock.startsNext => BusinessDay(cursor)
  /\ clockStart' = cursor
  /\ phase' = "initial"
  /\ UNCHANGED <<ask, cursor, counted, statutoryDueAt, dueAt>>

\* addBusinessDays: the day it starts from is not counted.
AddBusinessDay ==
  /\ Counting /\ Business
  /\ counted < Days
  /\ cursor' = cursor + 1
  /\ counted' = IF BusinessDay(cursor + 1) THEN counted + 1 ELSE counted
  /\ UNCHANGED <<ask, phase, results>>

\* addUtcDays,
AddCalendarDays ==
  /\ Counting /\ ~Business
  /\ counted < Days
  /\ cursor' = cursor + Days
  /\ counted' = Days
  /\ UNCHANGED <<ask, phase, results>>

\* and from a weekend or holiday to the next business day, where they roll.
RollForward ==
  /\ Counting /\ ~Business
  /\ counted = Days
  /\ ask.roll /\ ~BusinessDay(cursor)
  /\ cursor' = cursor + 1
  /\ UNCHANGED <<ask, phase, counted, results>>

Arrived ==
  /\ counted = Days
  /\ ~Business /\ ask.roll => BusinessDay(cursor)

\* validateAndApplyExtension refuses what the statute does not allow.
Extensible == /\ ask.clock.extensible
              /\ ask.days > 0 /\ ask.days <= ask.clock.maxDays
              /\ ask.permitted

\* The initial deadline, from which an extension counts.
InitialDeadline ==
  /\ phase = "initial" /\ Arrived
  /\ statutoryDueAt' = cursor
  /\ IF ask.extended
     THEN /\ phase' = IF Extensible THEN "extension" ELSE "refused"
          /\ UNCHANGED dueAt
     ELSE phase' = "due" /\ dueAt' = cursor
  /\ counted' = 0
  /\ UNCHANGED <<ask, cursor, clockStart>>

ExtendedDeadline ==
  /\ phase = "extension" /\ Arrived
  /\ dueAt' = cursor
  /\ phase' = "due"
  /\ UNCHANGED <<ask, cursor, counted, clockStart, statutoryDueAt>>

ClockNext == \/ StartLater \/ StartClock
        \/ AddBusinessDay \/ AddCalendarDays \/ RollForward
        \/ InitialDeadline \/ ExtendedDeadline

ClockSpec == ClockInit /\ [][ClockNext]_clockVars

-----------------------------------------------------------------------------
(* What a deadline is, without walking the calendar.                       *)

BusinessDays(from, to) == {d \in (from + 1)..to : BusinessDay(d)}

\* d is the nth business day after base, or base itself for n = 0.
NthBusinessDay(base, n, d) ==
  /\ d >= base
  /\ Cardinality(BusinessDays(base, d)) = n
  /\ d # base => BusinessDay(d)

\* d is the first business day from raw on.
FirstBusinessDay(raw, d) ==
  /\ d >= raw
  /\ BusinessDay(d)
  /\ \A e \in raw..(d - 1) : ~BusinessDay(e)

Deadline(base, n, business, d) ==
  IF business THEN NthBusinessDay(base, n, d)
  ELSE IF ask.roll THEN FirstBusinessDay(base + n, d)
  ELSE d = base + n

ClockTypeOK ==
  /\ ask \in Question
  /\ phase \in {"start", "initial", "extension", "due", "refused"}
  /\ cursor \in Int
  /\ counted \in Nat
  /\ clockStart \in Int /\ statutoryDueAt \in Int /\ dueAt \in Int

\* The day the code comes to is the day the statute means: the clock starts on
\* receipt or on the first business day from it, that day does not count, and
\* an extension counts from the initial deadline, within what is allowed.
DeadlineIsLawful ==
  phase = "due" =>
    /\ IF ask.clock.startsNext THEN FirstBusinessDay(ask.receivedAt, clockStart)
                               ELSE clockStart = ask.receivedAt
    /\ Deadline(clockStart, ask.clock.initialDays, ask.clock.business,
                statutoryDueAt)
    /\ IF ask.extended
       THEN /\ Extensible
            /\ Deadline(statutoryDueAt, ask.days, ask.clock.extendsByBusiness,
                        dueAt)
       ELSE dueAt = statutoryDueAt

\* An extension gives the agency at least the days it asked for, and the
\* initial deadline leaves at least the initial days.
ExtensionOnlyAdds ==
  phase = "due" =>
    /\ statutoryDueAt >= ask.receivedAt + ask.clock.initialDays
    /\ ask.extended => dueAt >= statutoryDueAt + ask.days
=============================================================================
