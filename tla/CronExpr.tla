------------------------------ MODULE CronExpr ------------------------------
(***************************************************************************)
(* internal/cronexpr/cronexpr.go: Parse, field by field, list item by list *)
(* item and value by value, and the search of Next, minute by minute.      *)
(*                                                                         *)
(* An expression is given by its five fields, a field by its list items,   *)
(* already split at commas: an item is a star or a range (a single number  *)
(* is a range of one), with or without a step.  Splitting a string and     *)
(* strconv.Atoi are left out; items that they would refuse are not listed, *)
(* those that the code itself refuses are.                                 *)
(*                                                                         *)
(* Times are counted in minutes.  Calendar(m, f) is what time.Time says of *)
(* minute m: its minute, hour, day of the month, month or weekday.         *)
(***************************************************************************)
EXTENDS Integers, Sequences

CONSTANTS
  Expressions,     \* expressions that are asked about, [Fields -> Seq(Item)]
  Times,           \* minutes they are asked after
  Low, High,       \* minValue and maxValue of a field; 7 is High["dow"]
  Calendar(_, _),  \* value of a field at a minute
  Search,          \* minutes in five years
  IntBound,        \* 2^63: an int is below it
  Null             \* no step, no value

Names == <<"minute", "hour", "dom", "month", "dow">>
Fields == {"minute", "hour", "dom", "month", "dow"}

(* strings.Split yields at least one item; a number is what Atoi returns.  *)
Items ==
  {x \in [star : BOOLEAN, lo : Int \cup {Null}, hi : Int \cup {Null}, step : Int \cup {Null}] :
     /\ x.step # Null => x.step < IntBound
     /\ ~ x.star => x.lo # Null /\ x.hi # Null}

ASSUME CronExprAssumption ==
  /\ \A e \in Expressions : \A f \in Fields : e[f] \in Seq(Items) /\ e[f] # <<>>
  /\ \A t \in Times : \A m \in (t + 1)..(t + 1 + Search) :
       Calendar(m, "dow") # High["dow"]   \* time.Weekday is below 7
  /\ Low \in [Fields -> Nat] /\ High \in [Fields -> Nat]
  /\ \A f \in Fields : Low[f] < High[f] /\ High[f] < IntBound
  /\ Low["dow"] = 0
  /\ Times \subseteq Nat
  /\ Search \in Nat
  /\ IntBound \in Nat
  /\ Null \notin Int

VARIABLES
  raw,        \* the expression
  after,      \* the minute Next is asked after
  pc,         \* "parse", "search", "found", "none" or "rejected"
  at,         \* position of the field being parsed
  item,       \* position of the list item being parsed
  value,      \* loop variable of parseField, Null between two items
  values,     \* field.values, by field
  candidate   \* loop variable of Next

vars == <<raw, after, pc, at, item, value, values, candidate>>

-----------------------------------------------------------------------------
(* field.all: the text of the field is a single star.                      *)
All(f) == Len(raw[f]) = 1 /\ raw[f][1].star /\ raw[f][1].step = Null

(* parseBound and parseRange: what a range is refused for.                 *)
MutOutside(f, x) == x.lo \notin Low[f]..High[f]
Outside(f, x) == ~ ({x.lo, x.hi} \subseteq Low[f]..High[f])

MutInverted(x) == FALSE
Inverted(x) == x.hi < x.lo

BadItem(f, x) ==
  \/ x.step # Null /\ x.step <= 0
  \/ ~ x.star /\ (Outside(f, x) \/ Inverted(x))

First(f, x) == IF x.star THEN Low[f] ELSE x.lo
Last(f, x) == IF x.star THEN High[f] ELSE x.hi
Step(x) == IF x.step = Null THEN 1 ELSE x.step

(* value += step, as int: past the bound it wraps to a negative number.    *)
Plus(v, s) == IF v + s >= IntBound THEN v + s - 2 * IntBound ELSE v + s

(* normalizeDOW: 7 is another name of Sunday.                              *)
MutNormalize(f, v) == v
Normalize(f, v) == IF f = "dow" /\ v = High[f] THEN 0 ELSE v

(* Schedule.matches: of two restricted day fields one is enough.           *)
MutDayMatches(dom, dow) == (All("dom") \/ dom) /\ (All("dow") \/ dow)
DayMatches(dom, dow) ==
  CASE All("dom") /\ All("dow") -> TRUE
    [] All("dom") /\ ~ All("dow") -> dow
    [] ~ All("dom") /\ All("dow") -> dom
    [] OTHER -> dom \/ dow

Matches(m) ==
  /\ \A f \in {"minute", "hour", "month"} : Calendar(m, f) \in values[f]
  /\ DayMatches(Calendar(m, "dom") \in values["dom"],
                Calendar(m, "dow") \in values["dow"])

-----------------------------------------------------------------------------
Init ==
  /\ raw \in Expressions
  /\ after \in Times
  /\ pc = "parse"
  /\ at = 1 /\ item = 1 /\ value = Null
  /\ values = [f \in Fields |-> {}]
  /\ candidate = Null

Field == Names[at]
Item == raw[Field][item]

(* parseField on the next list item: parse its step and its range.         *)
BeginItem ==
  /\ pc = "parse" /\ value = Null
  /\ IF BadItem(Field, Item)
     THEN pc' = "rejected" /\ UNCHANGED value
     ELSE value' = First(Field, Item) /\ UNCHANGED pc
  /\ UNCHANGED <<raw, after, at, item, values, candidate>>

(* One iteration of the loop over the values of the item.                  *)
AddValue ==
  /\ pc = "parse" /\ value # Null
  /\ value <= Last(Field, Item)
  /\ values' = [values EXCEPT ![Field] = @ \cup {Normalize(Field, value)}]
  /\ value' = Plus(value, Step(Item))
  /\ UNCHANGED <<raw, after, pc, at, item, candidate>>

(* The loop ends: the next item, the next field, or the start of Next.     *)
(* The error for a field without values is left out: NoEmptyField.         *)
EndItem ==
  /\ pc = "parse" /\ value # Null
  /\ value > Last(Field, Item)
  /\ value' = Null
  /\ \/ /\ item < Len(raw[Field])
        /\ item' = item + 1
        /\ UNCHANGED <<pc, at, candidate>>
     \/ /\ item = Len(raw[Field]) /\ at < Len(Names)
        /\ at' = at + 1 /\ item' = 1
        /\ UNCHANGED <<pc, candidate>>
     \/ /\ item = Len(raw[Field]) /\ at = Len(Names)
        /\ pc' = "search" /\ candidate' = after + 1
        /\ UNCHANGED <<at, item>>
  /\ UNCHANGED <<raw, after, values>>

Deadline == after + 1 + Search

MutInTime(m) == m < Deadline
InTime(m) == m <= Deadline

(* One iteration of Next.                                                  *)
Try ==
  /\ pc = "search"
  /\ \/ ~ InTime(candidate) /\ pc' = "none" /\ UNCHANGED candidate
     \/ /\ InTime(candidate) /\ Matches(candidate)
        /\ pc' = "found" /\ UNCHANGED candidate
     \/ /\ InTime(candidate) /\ ~ Matches(candidate)
        /\ candidate' = candidate + 1 /\ UNCHANGED pc
  /\ UNCHANGED <<raw, after, at, item, value, values>>

Next == BeginItem \/ AddValue \/ EndItem \/ Try

Spec == Init /\ [][Next]_vars
-----------------------------------------------------------------------------
(* What an expression means, without loops: the numbers an item names, and *)
(* the minutes at which the expression is due.                             *)

Numbers(f, x) ==
  {v \in First(f, x)..Last(f, x) : (v - First(f, x)) % Step(x) = 0}

Denotes(f) ==
  LET named == UNION {Numbers(f, raw[f][i]) : i \in 1..Len(raw[f])}
  IN IF f = "dow" /\ High[f] \in named THEN named \cup {0} ELSE named

Restricts(f) == ~ All(f)

DueAt(m) ==
  LET in(f) == Calendar(m, f) \in Denotes(f)
  IN /\ in("minute") /\ in("hour") /\ in("month")
     /\ Restricts("dom") \/ Restricts("dow") =>
          \/ Restricts("dom") /\ in("dom")
          \/ Restricts("dow") /\ in("dow")

(* Next returns the first minute after the one asked for at which the      *)
(* expression is due, weekday 7 included, and gives up only if there is    *)
(* none up to and including the deadline.  Steps are small enough not to   *)
(* wrap the loop variable.                                                 *)
NextIsFirst ==
  (\A f \in Fields : \A i \in 1..Len(raw[f]) :
     Step(raw[f][i]) < IntBound - High[f]) =>
  /\ pc = "found" => /\ DueAt(candidate) /\ candidate <= Deadline
                     /\ \A m \in (after + 1)..(candidate - 1) : ~ DueAt(m)
  /\ pc = "none" => \A m \in (after + 1)..Deadline : ~ DueAt(m)

(* An expression is rejected exactly when an item has a step that is not   *)
(* positive, names a number outside the field or ends before it starts.    *)
RejectsExactly ==
  LET bad == \E f \in Fields : \E i \in 1..Len(raw[f]) :
               LET x == raw[f][i]
               IN \/ x.step # Null /\ x.step < 1
                  \/ ~ x.star /\ ~ (Low[f] <= x.lo /\ x.lo <= x.hi /\ x.hi <= High[f])
  IN /\ pc = "rejected" => bad
     /\ pc \in {"search", "found", "none"} => ~ bad

(* What passes the tests on single items has at least one value in every   *)
(* field, also if the step wraps: the last test of parseField, for a field *)
(* without values, never rejects.                                          *)
NoEmptyField ==
  pc \in {"search", "found", "none"} => \A f \in Fields : values[f] # {}
=============================================================================
