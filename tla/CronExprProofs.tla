--------------------------- MODULE CronExprProofs ---------------------------
(***************************************************************************)
(* Parse and Next for every expression, every calendar and every minute.   *)
(*                                                                         *)
(* The loops are followed by what they have collected: the fields before   *)
(* the current one are what their items denote, the current one what its   *)
(* earlier items denote and the values below the loop variable, which is   *)
(* always a whole number of steps from the first value.  The search has    *)
(* found no match below its candidate.                                     *)
(***************************************************************************)
EXTENDS CronExpr, TLAPS

(* The steps that do not wrap the loop variable.                           *)
NoWrap ==
  \A f \in Fields : \A i \in 1..Len(raw[f]) : Step(raw[f][i]) < IntBound - High[f]

Searching == {"search", "found", "none"}

(* The fields that have been parsed.                                       *)
Finished == IF pc \in Searching THEN Fields ELSE {Names[k] : k \in 1..(at - 1)}

Accepts(f, n) == \A j \in 1..n : ~ BadItem(f, raw[f][j])

(* What the first n items of field f name, and what is stored for it.      *)
Named(f, n) == UNION {Numbers(f, raw[f][j]) : j \in 1..n}
Stored(f, S) == {Normalize(f, u) : u \in S}

(* What the loop has taken of item x when its variable is v.               *)
Taken(f, x, v) == IF v = Null THEN {} ELSE {u \in Numbers(f, x) : u < v}

FieldDone(f) ==
  /\ Accepts(f, Len(raw[f]))
  /\ values[f] # {}
  /\ NoWrap => values[f] = Stored(f, Named(f, Len(raw[f])))

(* The loop variable v, at item x of field f.                              *)
OnItem(f, x, v) ==
  /\ v \in Int /\ ~ BadItem(f, x)
  /\ v = First(f, x) \/ values[f] # {}
  /\ NoWrap => First(f, x) <= v /\ (v - First(f, x)) % Step(x) = 0

(* parseField is at item n of field f, with loop variable v.               *)
AtItem(f, n, v) ==
  /\ n \in 1..Len(raw[f])
  /\ Accepts(f, n - 1)
  /\ n > 1 => values[f] # {}
  /\ v # Null => OnItem(f, raw[f][n], v)
  /\ NoWrap => values[f] = Stored(f, Named(f, n - 1) \cup Taken(f, raw[f][n], v))

Parsing ==
  pc = "parse" =>
    /\ \E f \in {Field}, n \in {item}, v \in {value} : AtItem(f, n, v)
    /\ \A f \in Fields : f \notin Finished /\ f # Field => values[f] = {}

Rejected ==
  pc = "rejected" =>
    \E f \in {Field}, n \in {item} : n \in 1..Len(raw[f]) /\ BadItem(f, raw[f][n])

Searched ==
  pc \in Searching =>
    /\ candidate \in Int /\ after + 1 <= candidate /\ candidate <= Deadline + 1
    /\ \A m \in Int : after + 1 <= m /\ m < candidate => ~ Matches(m)
    /\ pc = "found" => candidate <= Deadline /\ Matches(candidate)
    /\ pc = "none" => candidate > Deadline

Typed ==
  /\ raw \in Expressions /\ after \in Times
  /\ pc \in {"parse", "rejected"} \cup Searching
  /\ at \in 1..5
  /\ values \in [Fields -> SUBSET Int]

ExprInv ==
  /\ Typed /\ Parsing /\ Rejected /\ Searched
  /\ \A f \in Finished : FieldDone(f)

-----------------------------------------------------------------------------
(* The names of the fields.                                                *)
LEMMA NamesFacts ==
  /\ Len(Names) = 5
  /\ \A k \in 1..5 : Names[k] \in Fields
  /\ \A k, l \in 1..5 : Names[k] = Names[l] => k = l
  /\ \A f \in Fields : \E k \in 1..5 : f = Names[k]
<1>1. /\ Len(Names) = 5 /\ Names[1] = "minute" /\ Names[2] = "hour" /\ Names[3] = "dom"
      /\ Names[4] = "month" /\ Names[5] = "dow"
  BY DEF Names
<1>2. \A k \in 1..5 : k \in {1, 2, 3, 4, 5}
  OBVIOUS
<1>3. \A k \in 1..5 : Names[k] \in Fields
  BY <1>1, <1>2 DEF Fields
<1>4. \A k, l \in 1..5 : Names[k] = Names[l] => k = l
  BY <1>1, <1>2
<1>5. \A f \in Fields : \E k \in 1..5 : f = Names[k]
  BY <1>1 DEF Fields
<1> QED  BY <1>1, <1>3, <1>4, <1>5

(* An item that is accepted starts in its field, not after its end, and    *)
(* goes on by a positive step.                                             *)
LEMMA GoodItem ==
  ASSUME NEW f \in Fields, NEW x \in Items, ~ BadItem(f, x)
  PROVE  /\ First(f, x) \in Int /\ Last(f, x) \in Int /\ Step(x) \in Nat \ {0}
         /\ Low[f] <= First(f, x) /\ First(f, x) <= Last(f, x) /\ Last(f, x) <= High[f]
         /\ Low[f] \in Nat /\ High[f] \in Nat /\ Low[f] < High[f] /\ High[f] < IntBound
<1>1. /\ Low[f] \in Nat /\ High[f] \in Nat /\ Low[f] < High[f] /\ High[f] < IntBound
      /\ IntBound \in Nat /\ Null \notin Int
  BY CronExprAssumption
<1>2. /\ x.step \in Int \cup {Null} /\ x.lo \in Int \cup {Null} /\ x.hi \in Int \cup {Null}
      /\ ~ x.star => x.lo # Null /\ x.hi # Null
  BY DEF Items
<1>3. Step(x) \in Nat \ {0}
  BY <1>1, <1>2 DEF Step, BadItem
<1>4. CASE x.star
  BY <1>1, <1>3, <1>4 DEF First, Last
<1>5. CASE ~ x.star
  <2>1. x.lo \in Int /\ x.hi \in Int /\ ~ Outside(f, x) /\ ~ Inverted(x)
    BY <1>2, <1>5 DEF BadItem
  <2>2. x.lo \in Low[f]..High[f] /\ x.hi \in Low[f]..High[f] /\ x.lo <= x.hi
    BY <2>1 DEF Outside, Inverted
  <2> QED  BY <1>1, <1>3, <1>5, <2>1, <2>2 DEF First, Last
<1> QED  BY <1>4, <1>5

-----------------------------------------------------------------------------
(* Whole numbers of steps.                                                 *)
LEMMA DivMod ==
  ASSUME NEW a \in Int, NEW s \in Nat \ {0}
  PROVE  /\ a \div s \in Int /\ a % s \in 0..(s - 1)
         /\ a = (s * (a \div s)) + (a % s)
OBVIOUS

LEMMA NoMultiple ==
  ASSUME NEW s \in Nat \ {0}, NEW k \in Int, NEW d \in Int, 0 < d, d < s
  PROVE  d # s * k
<1>1. CASE k <= 0
  BY <1>1
<1>2. CASE k >= 1
  BY <1>2
<1> QED  BY <1>1, <1>2

LEMMA ModGap ==
  ASSUME NEW a \in Int, NEW b \in Int, NEW s \in Nat \ {0}, a % s = 0, b % s = 0, a < b
  PROVE  a + s <= b
<1>1. a = s * (a \div s) /\ b = s * (b \div s) /\ a \div s \in Int /\ b \div s \in Int
  BY DivMod
<1>2. PICK k \in Int, l \in Int : a = s * k /\ b = s * l
  BY <1>1
<1>3. b - a = s * (l - k)
  BY <1>2
<1> QED  BY <1>3, NoMultiple

LEMMA ModStep ==
  ASSUME NEW a \in Int, NEW s \in Nat \ {0}, a % s = 0
  PROVE  (a + s) % s = 0
<1>0. a \div s \in Int /\ a = s * (a \div s)
  BY DivMod
<1>1. PICK k \in Int : a = s * k
  BY <1>0
<1>2. a + s = s * (k + 1)
  BY <1>1
<1> DEFINE b == a + s
<1>3. b \in Int
  OBVIOUS
<1> HIDE DEF b
<1>4. b \div s \in Int /\ b % s \in 0..(s - 1) /\ b = (s * (b \div s)) + (b % s)
  BY <1>3, DivMod
<1>5. PICK l \in Int, r \in 0..(s - 1) : b = (s * l) + r /\ r = b % s
  BY <1>4
<1>6. r = s * (k + 1 - l)
  BY <1>2, <1>5 DEF b
<1>7. r = 0
  BY <1>6, NoMultiple
<1> QED  BY <1>5, <1>7 DEF b

(* One iteration takes exactly its value.                                  *)
LEMMA TakesOne ==
  ASSUME NEW f \in Fields, NEW x \in Items, ~ BadItem(f, x), NEW v \in Int,
         First(f, x) <= v, v <= Last(f, x), (v - First(f, x)) % Step(x) = 0
  PROVE  /\ Taken(f, x, v + Step(x)) = Taken(f, x, v) \cup {v}
         /\ ((v + Step(x)) - First(f, x)) % Step(x) = 0
<1> DEFINE a == First(f, x)
           s == Step(x)
<1>1. a \in Int /\ Last(f, x) \in Int /\ s \in Nat \ {0}
  BY GoodItem
<1>2. v # Null /\ v + s # Null
  BY <1>1, CronExprAssumption
<1>3. v \in Numbers(f, x)
  BY <1>1 DEF Numbers
<1> HIDE DEF a, s
<1>4. (v - a) % s = 0
  BY DEF a, s
<1>5. ((v - a) + s) % s = 0
  <2>1. v - a \in Int
    BY <1>1
  <2> QED  BY <1>1, <1>4, <2>1, ModStep
<1>6. (v - a) + s = (v + s) - a
  BY <1>1
<1>7. ASSUME NEW u \in Numbers(f, x), u < v + s
      PROVE  u < v \/ u = v
  <2>1. u \in Int /\ (u - a) % s = 0
    BY <1>1 DEF Numbers, a, s
  <2>2. v < u => (v - a) + s <= u - a
    <3>1. v - a \in Int /\ u - a \in Int /\ (v < u => v - a < u - a)
      BY <1>1, <2>1
    <3> QED  BY <1>1, <1>4, <2>1, <3>1, ModGap
  <2> QED  BY <1>1, <1>7, <2>1, <2>2
<1>8. \A u \in Numbers(f, x) : u \in Int
  BY <1>1 DEF Numbers, a
<1>9. Taken(f, x, v + s) = Taken(f, x, v) \cup {v}
  <2>1. v < v + s /\ \A u \in Int : u < v => u < v + s
    BY <1>1
  <2> QED  BY <1>2, <1>3, <1>7, <1>8, <2>1 DEF Taken
<1> QED  BY <1>5, <1>6, <1>9 DEF a, s

(* When the loop ends it has taken every number of the item.               *)
LEMMA TakesAll ==
  ASSUME NEW f \in Fields, NEW x \in Items, ~ BadItem(f, x), NEW v \in Int, v > Last(f, x)
  PROVE  Taken(f, x, v) = Numbers(f, x)
<1>1. First(f, x) \in Int /\ Last(f, x) \in Int /\ v # Null
  BY GoodItem, CronExprAssumption
<1> QED  BY <1>1 DEF Taken, Numbers

(* And when it begins, none.                                               *)
LEMMA TakesNone ==
  ASSUME NEW f \in Fields, NEW x \in Items, ~ BadItem(f, x)
  PROVE  Taken(f, x, First(f, x)) = {}
<1>1. First(f, x) \in Int /\ Last(f, x) \in Int
  BY GoodItem
<1> QED  BY <1>1 DEF Taken, Numbers

LEMMA NamedNext ==
  ASSUME NEW f, NEW n \in Nat \ {0}
  PROVE  Named(f, n) = Named(f, n - 1) \cup Numbers(f, raw[f][n])
<1>1. 1..n = 1..(n - 1) \cup {n}
  OBVIOUS
<1> QED  BY <1>1 DEF Named

LEMMA StoredOf ==
  ASSUME NEW f \in Fields
  PROVE  /\ \A S : \A v \in Int : Stored(f, S \cup {v}) = Stored(f, S) \cup {Normalize(f, v)}
         /\ \A v \in Int : Normalize(f, v) \in Int
BY DEF Stored, Normalize

-----------------------------------------------------------------------------
(* Parsing.                                                                *)

LEMMA RawFacts ==
  ASSUME Typed, NEW f \in Fields
  PROVE  /\ raw[f] \in Seq(Items) /\ Len(raw[f]) \in Nat \ {0}
         /\ \A n \in 1..Len(raw[f]) : raw[f][n] \in Items
BY CronExprAssumption DEF Typed

(* Where parseField is.                                                    *)
LEMMA Here ==
  ASSUME ExprInv, pc = "parse"
  PROVE  /\ Field \in Fields /\ Field \notin Finished
         /\ AtItem(Field, item, value)
         /\ item \in 1..Len(raw[Field]) /\ Item \in Items
<1>1. Typed /\ at \in 1..5
  BY DEF ExprInv, Typed
<1>2. Field \in Fields
  BY <1>1, NamesFacts DEF Field
<1>3. Field \notin Finished
  BY <1>1, NamesFacts DEF Field, Finished, Searching
<1>4. AtItem(Field, item, value)
  BY DEF ExprInv, Parsing
<1>5. item \in 1..Len(raw[Field])
  BY <1>4 DEF AtItem
<1> QED  BY <1>1, <1>2, <1>3, <1>4, <1>5, RawFacts DEF Item

LEMMA FinishedFields ==
  ASSUME Typed
  PROVE  Finished \subseteq Fields
<1>1. \A k \in 1..(at - 1) : k \in 1..5
  BY DEF Typed
<1> QED  BY <1>1, NamesFacts DEF Finished

(* What is known of a field depends on the expression and its values only. *)
LEMMA SameField ==
  ASSUME raw' = raw, NEW f, values'[f] = values[f]
  PROVE  /\ FieldDone(f)' <=> FieldDone(f)
         /\ NoWrap' <=> NoWrap
         /\ \A n : Accepts(f, n)' <=> Accepts(f, n)
         /\ \A n : Named(f, n)' = Named(f, n)
BY DEF FieldDone, NoWrap, Accepts, Named

LEMMA BeginKeeps ==
  ASSUME ExprInv, BeginItem
  PROVE  ExprInv'
<1>0. Typed /\ pc = "parse" /\ value = Null
  BY DEF ExprInv, BeginItem
<1>1. /\ raw' = raw /\ after' = after /\ at' = at /\ item' = item /\ values' = values
  BY DEF BeginItem
<1>2. PICK f, n, x : f = Field /\ n = item /\ x = Item
  OBVIOUS
<1>3. /\ f \in Fields /\ AtItem(f, n, Null) /\ n \in 1..Len(raw[f]) /\ x \in Items
      /\ x = raw[f][n] /\ Field' = f /\ item' = n
  BY <1>0, <1>1, <1>2, Here DEF Item, Field
<1>4. CASE BadItem(f, x)
  <2>1. pc' = "rejected" /\ value' = value
    BY <1>2, <1>4 DEF BeginItem
  <2>2. Rejected'
    BY <1>1, <1>3, <1>4 DEF Rejected
  <2>3. Finished' = Finished
    BY <1>0, <1>1, <2>1 DEF Finished, Searching
  <2>4. \A g \in Finished' : FieldDone(g)'
    BY <1>1, <2>3, SameField DEF ExprInv
  <2>5. Typed' /\ Parsing' /\ Searched'
    BY <1>0, <1>1, <2>1 DEF Typed, Parsing, Searched, Searching
  <2> QED  BY <2>2, <2>4, <2>5 DEF ExprInv
<1>5. CASE ~ BadItem(f, x)
  <2>1. pc' = "parse" /\ value' = First(f, x)
    BY <1>0, <1>2, <1>5 DEF BeginItem
  <2>2. PICK v \in Int : v = First(f, x) /\ v # Null /\ value' = v
    BY <1>3, <1>5, <2>1, GoodItem, CronExprAssumption
  <2>3. OnItem(f, x, v)'
    <3>1. (v - First(f, x)) % Step(x) = 0
      <4>1. v - First(f, x) = 0 /\ Step(x) \in Nat \ {0}
        BY <1>3, <1>5, <2>2, GoodItem
      <4> QED  BY <4>1
    <3> QED  BY <1>5, <2>2, <3>1 DEF OnItem
  <2>4. Taken(f, x, v) = {} /\ Taken(f, x, Null) = {}
    BY <1>3, <1>5, <2>2, TakesNone DEF Taken
  <2>5. AtItem(f, n, v)'
    <3>1. /\ Accepts(f, n - 1)' /\ (n > 1 => values'[f] # {})
          /\ NoWrap' => values'[f] = Stored(f, Named(f, n - 1)' \cup Taken(f, x, v))
      BY <1>1, <1>3, <2>4, SameField DEF AtItem
    <3> QED  BY <1>1, <1>3, <2>3, <3>1 DEF AtItem
  <2>6. Finished' = Finished
    BY <1>0, <1>1, <2>1 DEF Finished, Searching
  <2>7. Parsing'
    BY <1>0, <1>1, <1>2, <1>3, <2>2, <2>5, <2>6 DEF Parsing, ExprInv
  <2>8. \A g \in Finished' : FieldDone(g)'
    BY <1>1, <2>6, SameField DEF ExprInv
  <2>9. Typed' /\ Rejected' /\ Searched'
    BY <1>0, <1>1, <2>1 DEF Typed, Rejected, Searched, Searching
  <2> QED  BY <2>7, <2>8, <2>9 DEF ExprInv
<1> QED  BY <1>4, <1>5

LEMMA AddKeeps ==
  ASSUME ExprInv, AddValue
  PROVE  ExprInv'
<1>0. Typed /\ pc = "parse" /\ pc' = "parse" /\ value # Null
  BY DEF ExprInv, AddValue
<1>1. /\ raw' = raw /\ after' = after /\ at' = at /\ item' = item
  BY DEF AddValue
<1>2. PICK f, n, x, v : f = Field /\ n = item /\ x = Item /\ v = value
  OBVIOUS
<1>3. /\ f \in Fields /\ f \notin Finished /\ AtItem(f, n, v) /\ n \in 1..Len(raw[f])
      /\ x \in Items /\ x = raw[f][n] /\ Field' = f /\ item' = n
  BY <1>0, <1>1, <1>2, Here DEF Item, Field
<1>4. OnItem(f, x, v)
  BY <1>0, <1>2, <1>3 DEF AtItem
<1>5. v \in Int /\ ~ BadItem(f, x) /\ v <= Last(f, x)
  BY <1>2, <1>4 DEF AddValue, OnItem
<1>6. /\ values' = [values EXCEPT ![f] = values[f] \cup {Normalize(f, v)}]
      /\ value' = Plus(v, Step(x))
  BY <1>2 DEF AddValue
<1>7. /\ values' \in [Fields -> SUBSET Int]
      /\ values'[f] = values[f] \cup {Normalize(f, v)}
      /\ \A g \in Fields : g # f => values'[g] = values[g]
  BY <1>0, <1>3, <1>5, <1>6, StoredOf DEF Typed
<1>8. /\ Step(x) \in Nat \ {0} /\ Last(f, x) \in Int /\ Last(f, x) <= High[f]
      /\ High[f] \in Nat /\ IntBound \in Nat /\ First(f, x) \in Int
  BY <1>3, <1>5, GoodItem, CronExprAssumption
<1>9. PICK w \in Int : w = value'
  BY <1>5, <1>6, <1>8 DEF Plus
<1>10. w # Null
  BY CronExprAssumption
<1>11. ASSUME NoWrap
       PROVE  w = v + Step(x)
  <2>1. Step(x) < IntBound - High[f]
    BY <1>3, <1>11 DEF NoWrap
  <2> QED  BY <1>5, <1>6, <1>8, <1>9, <2>1 DEF Plus
<1>12. NoWrap' <=> NoWrap
  BY <1>1 DEF NoWrap
<1>13. ASSUME NoWrap
       PROVE  /\ First(f, x) <= w /\ (w - First(f, x)) % Step(x) = 0
              /\ values'[f] = Stored(f, Named(f, n - 1) \cup Taken(f, x, w))
  <2>1. First(f, x) <= v /\ (v - First(f, x)) % Step(x) = 0
    BY <1>4, <1>13 DEF OnItem
  <2>2. /\ Taken(f, x, w) = Taken(f, x, v) \cup {v}
        /\ (w - First(f, x)) % Step(x) = 0
    <3>1. /\ Taken(f, x, v + Step(x)) = Taken(f, x, v) \cup {v}
          /\ ((v + Step(x)) - First(f, x)) % Step(x) = 0
      BY <1>3, <1>5, <2>1, TakesOne
    <3>2. w = v + Step(x)
      BY <1>11, <1>13
    <3> QED  BY <3>1, <3>2
  <2>3. First(f, x) <= w
    BY <1>5, <1>8, <1>11, <1>13, <2>1
  <2>4. values[f] = Stored(f, Named(f, n - 1) \cup Taken(f, x, v))
    BY <1>3, <1>13 DEF AtItem
  <2> DEFINE old == Named(f, n - 1) \cup Taken(f, x, v)
  <2>5. Named(f, n - 1) \cup Taken(f, x, w) = old \cup {v}
    BY <2>2
  <2> HIDE DEF old
  <2>6. Stored(f, old \cup {v}) = Stored(f, old) \cup {Normalize(f, v)}
    BY <1>3, <1>5, StoredOf
  <2>7. values[f] = Stored(f, old)
    BY <2>4 DEF old
  <2> QED  BY <1>7, <2>2, <2>3, <2>5, <2>6, <2>7
<1>14. OnItem(f, x, w)'
  BY <1>5, <1>7, <1>12, <1>13 DEF OnItem
<1>15. AtItem(f, n, w)'
  <2>1. Accepts(f, n - 1)' /\ Named(f, n - 1)' = Named(f, n - 1)
    BY <1>1, <1>3 DEF AtItem, Accepts, Named
  <2>2. values'[f] # {}
    BY <1>7
  <2> QED  BY <1>1, <1>3, <1>12, <1>13, <1>14, <2>1, <2>2 DEF AtItem
<1>16. Finished' = Finished
  BY <1>0, <1>1 DEF Finished, Searching
<1>17. Parsing'
  <2>1. \A g \in Fields : g \notin Finished' /\ g # Field' => values'[g] = {}
    BY <1>0, <1>2, <1>3, <1>7, <1>16 DEF Parsing, ExprInv
  <2> QED  BY <1>3, <1>9, <1>15, <2>1 DEF Parsing
<1>18. ASSUME NEW g \in Finished'
       PROVE  FieldDone(g)'
  <2>0. g \in Finished /\ g # f
    BY <1>3, <1>16
  <2>1. g \in Fields
    BY <1>0, <2>0, FinishedFields
  <2> QED  BY <1>1, <1>7, <2>0, <2>1, SameField DEF ExprInv
<1>19. Typed' /\ Rejected' /\ Searched'
  BY <1>0, <1>1, <1>7 DEF Typed, Rejected, Searched, Searching
<1> QED  BY <1>17, <1>18, <1>19 DEF ExprInv

(* The end of an item: the field holds what its items so far name.         *)
LEMMA ItemEnds ==
  ASSUME ExprInv, EndItem, NEW f, f = Field, NEW n, n = item
  PROVE  /\ f \in Fields /\ n \in 1..Len(raw[f]) /\ Accepts(f, n) /\ values[f] # {}
         /\ NoWrap => values[f] = Stored(f, Named(f, n))
<1>0. pc = "parse" /\ value # Null
  BY DEF EndItem
<1>1. PICK x, v : x = Item /\ v = value
  OBVIOUS
<1>2. /\ f \in Fields /\ AtItem(f, n, v) /\ n \in 1..Len(raw[f])
      /\ x \in Items /\ x = raw[f][n]
  BY <1>0, <1>1, Here DEF Item
<1>3. OnItem(f, x, v)
  BY <1>0, <1>1, <1>2 DEF AtItem
<1>4. v \in Int /\ ~ BadItem(f, x) /\ v > Last(f, x)
  BY <1>1, <1>3 DEF EndItem, OnItem
<1>5. First(f, x) \in Int /\ Last(f, x) \in Int /\ First(f, x) <= Last(f, x)
  BY <1>2, <1>4, GoodItem
<1>6. values[f] # {}
  BY <1>3, <1>4, <1>5 DEF OnItem
<1>7. Accepts(f, n)
  <2>1. \A j \in 1..n : j \in 1..(n - 1) \/ j = n
    BY <1>2
  <2> QED  BY <1>2, <1>4, <2>1 DEF AtItem, Accepts
<1>8. Named(f, n) = Named(f, n - 1) \cup Taken(f, x, v)
  <2>1. n \in Nat \ {0}
    BY <1>2
  <2>2. Named(f, n) = Named(f, n - 1) \cup Numbers(f, raw[f][n])
    BY <2>1, NamedNext
  <2> QED  BY <1>2, <1>4, <2>2, TakesAll
<1> QED  BY <1>2, <1>6, <1>7, <1>8 DEF AtItem

(* A field that begins: nothing is taken yet.                              *)
LEMMA FieldBegins ==
  ASSUME Typed, NEW f \in Fields, values[f] = {}
  PROVE  AtItem(f, 1, Null)
<1>1. PICK n \in Nat : n = 1
  OBVIOUS
<1>2. n \in 1..Len(raw[f]) /\ ~ (n > 1) /\ 1..(n - 1) = {}
  BY <1>1, RawFacts
<1>3. Accepts(f, n - 1) /\ Named(f, n - 1) = {}
  BY <1>2 DEF Accepts, Named
<1>4. Taken(f, raw[f][n], Null) = {}
  BY DEF Taken
<1>5. Stored(f, Named(f, n - 1) \cup Taken(f, raw[f][n], Null)) = {}
  BY <1>3, <1>4 DEF Stored
<1>6. AtItem(f, n, Null)
  BY <1>2, <1>3, <1>5 DEF AtItem
<1> QED  BY <1>1, <1>6

LEMMA EndKeeps ==
  ASSUME ExprInv, EndItem
  PROVE  ExprInv'
<1>0. Typed /\ pc = "parse" /\ at \in 1..5
  BY DEF ExprInv, EndItem, Typed
<1>1. raw' = raw /\ after' = after /\ values' = values /\ value' = Null
  BY DEF EndItem
<1>2. PICK f, n : f = Field /\ n = item
  OBVIOUS
<1>3. /\ f \in Fields /\ n \in 1..Len(raw[f]) /\ Accepts(f, n) /\ values[f] # {}
      /\ NoWrap => values[f] = Stored(f, Named(f, n))
  BY <1>2, ItemEnds
<1>4. Len(raw[f]) \in Nat
  BY <1>0, <1>3, RawFacts
<1>5. f \notin Finished /\ \A g \in Fields : g \notin Finished /\ g # f => values[g] = {}
  BY <1>0, <1>2, Here DEF ExprInv, Parsing
<1>6. ASSUME item = Len(raw[Field])
      PROVE  FieldDone(f)
  BY <1>2, <1>3, <1>6 DEF FieldDone
<1>7. CASE item < Len(raw[Field])
  <2>1. item' = item + 1 /\ pc' = "parse" /\ at' = at
    BY <1>0, <1>4, <1>2, <1>7 DEF EndItem
  <2>2. PICK k : k = n + 1
    OBVIOUS
  <2>3. k \in 1..Len(raw[f]) /\ k - 1 = n
    BY <1>2, <1>3, <1>4, <1>7, <2>2
  <2>4. Taken(f, raw[f][k], Null) = {}
    BY DEF Taken
  <2>5. AtItem(f, k, Null)
    <3>1. Named(f, k - 1) \cup Taken(f, raw[f][k], Null) = Named(f, n)
      BY <2>3, <2>4
    <3>2. Accepts(f, k - 1)
      BY <1>3, <2>3
    <3> QED  BY <1>3, <2>3, <3>1, <3>2 DEF AtItem
  <2>6. AtItem(f, k, Null)'
    BY <1>1, <2>5 DEF AtItem, OnItem, Accepts, NoWrap, Named
  <2>7. Finished' = Finished /\ Field' = f /\ item' = k
    BY <1>0, <1>2, <2>1, <2>2 DEF Finished, Searching, Field
  <2>8. Parsing'
    BY <1>1, <1>5, <2>6, <2>7 DEF Parsing
  <2>9. \A g \in Finished' : FieldDone(g)'
    BY <1>1, <2>7, SameField DEF ExprInv
  <2>10. Typed' /\ Rejected' /\ Searched'
    BY <1>0, <1>1, <2>1 DEF Typed, Rejected, Searched, Searching
  <2> QED  BY <2>8, <2>9, <2>10 DEF ExprInv
<1>8. CASE item = Len(raw[Field]) /\ at < Len(Names)
  <2>1. item' = 1 /\ pc' = "parse" /\ at' = at + 1
    BY <1>0, <1>2, <1>4, <1>8, NamesFacts DEF EndItem
  <2>2. at + 1 \in 1..5 /\ 1..((at + 1) - 1) = 1..(at - 1) \cup {at}
    BY <1>0, <1>8, NamesFacts
  <2>3. Finished' = Finished \cup {f}
    BY <1>0, <1>2, <2>1, <2>2 DEF Finished, Searching, Field
  <2>4. PICK g : g = Names[at + 1]
    OBVIOUS
  <2>5. g \in Fields /\ Field' = g
    BY <2>1, <2>2, <2>4, NamesFacts DEF Field
  <2>6. g \notin Finished /\ g # f
    <3>1. \A k \in 1..(at - 1) \cup {at} : k \in 1..5 /\ k # at + 1
      BY <1>0
    <3> QED  BY <1>0, <1>2, <2>2, <2>4, <3>1, NamesFacts DEF Finished, Searching, Field
  <2>7. AtItem(g, 1, Null)
    BY <1>0, <1>5, <2>5, <2>6, FieldBegins
  <2>8. AtItem(g, 1, Null)'
    BY <1>1, <2>7 DEF AtItem, OnItem, Accepts, NoWrap, Named
  <2>9. \A h \in Fields : h \notin Finished' /\ h # g => values'[h] = {}
    BY <1>1, <1>5, <2>3
  <2>10. Parsing'
    BY <1>1, <2>1, <2>5, <2>8, <2>9 DEF Parsing
  <2>11. \A h \in Finished' : FieldDone(h)'
    BY <1>1, <1>6, <1>8, <2>3, SameField DEF ExprInv
  <2>12. Typed' /\ Rejected' /\ Searched'
    BY <1>0, <1>1, <2>1, <2>2 DEF Typed, Rejected, Searched, Searching
  <2> QED  BY <2>10, <2>11, <2>12 DEF ExprInv
<1>9. CASE item = Len(raw[Field]) /\ at = Len(Names)
  <2>1. pc' = "search" /\ candidate' = after + 1 /\ at' = at
    BY <1>0, <1>2, <1>4, <1>9, NamesFacts DEF EndItem
  <2>2. ASSUME NEW g \in Fields
        PROVE  FieldDone(g)
    <3>1. PICK k \in 1..5 : g = Names[k]
      BY NamesFacts
    <3>2. CASE k = at
      BY <1>2, <1>6, <1>9, <3>1, <3>2 DEF Field
    <3>3. CASE k # at
      <4>1. k \in 1..(at - 1)
        BY <1>0, <1>9, <3>3, NamesFacts
      <4> QED  BY <1>0, <3>1, <4>1 DEF ExprInv, Finished, Searching
    <3> QED  BY <3>2, <3>3
  <2>3. \A g \in Finished' : FieldDone(g)'
    BY <1>1, <2>1, <2>2, SameField DEF Finished, Searching
  <2>4. Searched'
    <3>1. after \in Nat /\ Search \in Nat
      BY <1>0, CronExprAssumption DEF Typed
    <3> QED  BY <1>1, <2>1, <3>1 DEF Searched, Searching, Deadline
  <2>5. Typed' /\ Rejected' /\ Parsing'
    BY <1>0, <1>1, <2>1 DEF Typed, Rejected, Parsing, Searching
  <2> QED  BY <2>3, <2>4, <2>5 DEF ExprInv
<1> QED  BY <1>7, <1>8, <1>9 DEF EndItem

-----------------------------------------------------------------------------
(* The search.                                                             *)
LEMMA TryKeeps ==
  ASSUME ExprInv, Try
  PROVE  ExprInv'
<1>0. /\ Typed /\ pc = "search" /\ after \in Nat /\ Search \in Nat /\ Searched
  BY CronExprAssumption DEF ExprInv, Try, Typed
<1>1. raw' = raw /\ after' = after /\ values' = values /\ at' = at /\ item' = item
  BY DEF Try
<1>2. pc' \in Searching
  BY <1>0 DEF Try, Searching
<1>3. \A m \in Int : Matches(m)' <=> Matches(m)
  BY <1>1 DEF Matches, DayMatches, All
<1>4. /\ candidate \in Int /\ after + 1 <= candidate /\ candidate <= Deadline + 1
      /\ \A m \in Int : after + 1 <= m /\ m < candidate => ~ Matches(m)
  BY <1>0 DEF Searched, Searching
<1>5. Deadline' = Deadline /\ Deadline \in Int
  BY <1>0, <1>1 DEF Deadline
<1>6. Searched'
  <2>1. CASE ~ InTime(candidate)
    <3>1. pc' = "none" /\ candidate' = candidate /\ candidate > Deadline
      BY <1>4, <1>5, <2>1 DEF Try, InTime
    <3> QED  BY <1>1, <1>3, <1>4, <1>5, <3>1 DEF Searched
  <2>2. CASE InTime(candidate) /\ Matches(candidate)
    <3>1. pc' = "found" /\ candidate' = candidate /\ candidate <= Deadline
      BY <2>2 DEF Try, InTime
    <3>2. Matches(candidate)'
      BY <1>1, <2>2, <3>1 DEF Matches, DayMatches, All
    <3> QED  BY <1>1, <1>3, <1>4, <1>5, <3>1, <3>2 DEF Searched
  <2>3. CASE InTime(candidate) /\ ~ Matches(candidate)
    <3>1. pc' = "search" /\ candidate' = candidate + 1 /\ candidate <= Deadline
      BY <1>0, <2>3 DEF Try, InTime
    <3>2. \A m \in Int : after + 1 <= m /\ m < candidate + 1 => ~ Matches(m)
      <4>1. \A m \in Int : m < candidate + 1 => m < candidate \/ m = candidate
        BY <1>4
      <4> QED  BY <1>4, <2>3, <4>1
    <3>3. candidate' \in Int /\ after' + 1 <= candidate' /\ candidate' <= Deadline' + 1
      BY <1>0, <1>1, <1>4, <1>5, <3>1
    <3>4. \A m \in Int : after' + 1 <= m /\ m < candidate' => ~ Matches(m)'
      BY <1>1, <1>3, <3>1, <3>2
    <3> QED  BY <3>1, <3>3, <3>4 DEF Searched
  <2> QED  BY <2>1, <2>2, <2>3
<1>7. Finished' = Fields /\ Finished = Fields
  BY <1>0, <1>2 DEF Finished, Searching
<1>8. \A g \in Finished' : FieldDone(g)'
  BY <1>1, <1>7, SameField DEF ExprInv
<1>9. Typed' /\ Rejected' /\ Parsing'
  BY <1>0, <1>1, <1>2 DEF Typed, Rejected, Parsing, Searching
<1> QED  BY <1>6, <1>8, <1>9 DEF ExprInv

LEMMA ExprStep == ExprInv /\ [Next]_vars => ExprInv'
<1> SUFFICES ASSUME ExprInv, [Next]_vars
             PROVE  ExprInv'
  OBVIOUS
<1>1. CASE Next
  BY <1>1, BeginKeeps, AddKeeps, EndKeeps, TryKeeps DEF Next
<1>2. CASE UNCHANGED vars
  <2>1. /\ raw' = raw /\ after' = after /\ pc' = pc /\ at' = at /\ item' = item
        /\ value' = value /\ values' = values /\ candidate' = candidate
    BY <1>2 DEF vars
  <2>2. Typed' /\ Rejected' /\ Field' = Field /\ Finished' = Finished
    BY <2>1 DEF ExprInv, Typed, Rejected, Field, Finished
  <2>3. \A f, n, v : AtItem(f, n, v)' <=> AtItem(f, n, v)
    BY <2>1 DEF AtItem, OnItem, Accepts, Named, NoWrap
  <2>4. Parsing'
    BY <2>1, <2>2, <2>3 DEF ExprInv, Parsing
  <2>5. Searched'
    BY <2>1 DEF ExprInv, Searched, Deadline, Matches, DayMatches, All
  <2>6. \A g \in Finished' : FieldDone(g)'
    BY <2>1, <2>2, SameField DEF ExprInv
  <2> QED  BY <2>2, <2>4, <2>5, <2>6 DEF ExprInv
<1> QED  BY <1>1, <1>2

LEMMA ExprStart == Init => ExprInv
<1> SUFFICES ASSUME Init
             PROVE  ExprInv
  OBVIOUS
<1>1. /\ raw \in Expressions /\ after \in Times /\ pc = "parse" /\ at = 1 /\ item = 1
      /\ value = Null /\ values = [f \in Fields |-> {}]
  BY DEF Init
<1>2. Typed
  BY <1>1 DEF Typed
<1>3. Finished = {}
  BY <1>1 DEF Finished, Searching
<1>4. Rejected /\ Searched
  BY <1>1 DEF Rejected, Searched, Searching
<1>5. PICK f : f = Field
  OBVIOUS
<1>6. f \in Fields /\ values[f] = {}
  BY <1>1, <1>5, NamesFacts DEF Field
<1>7. AtItem(f, 1, Null)
  BY <1>2, <1>6, FieldBegins
<1>8. Parsing
  BY <1>1, <1>5, <1>7 DEF Parsing
<1> QED  BY <1>2, <1>3, <1>4, <1>8 DEF ExprInv

-----------------------------------------------------------------------------
(* What was stored is what the expression means, at every minute that the  *)
(* search can reach: there the weekday is never 7.                         *)
LEMMA StoredMeans ==
  ASSUME NEW f \in Fields, NEW c, f = "dow" => c # High["dow"],
         NoWrap, FieldDone(f)
  PROVE  c \in values[f] <=> c \in Denotes(f)
<1> DEFINE named == Named(f, Len(raw[f]))
<1>1. values[f] = Stored(f, named)
  BY DEF FieldDone
<1>2. Denotes(f) = IF f = "dow" /\ High[f] \in named THEN named \cup {0} ELSE named
  BY DEF Denotes, Named
<1> HIDE DEF named
<1>3. CASE f # "dow"
  BY <1>1, <1>2, <1>3 DEF Stored, Normalize
<1>4. CASE f = "dow"
  BY <1>1, <1>2, <1>4 DEF Stored, Normalize
<1> QED  BY <1>3, <1>4

LEMMA MatchesIsDue ==
  ASSUME ExprInv, NoWrap, pc \in Searching, NEW m \in Int, after + 1 <= m, m <= Deadline
  PROVE  Matches(m) <=> DueAt(m)
<1>1. \A f \in Fields : FieldDone(f)
  BY DEF ExprInv, Finished
<1>2. Calendar(m, "dow") # High["dow"]
  <2>1. after \in Times /\ after \in Nat /\ Search \in Nat
    BY CronExprAssumption DEF ExprInv, Typed
  <2>2. m \in (after + 1)..(after + 1 + Search)
    BY <2>1 DEF Deadline
  <2> QED  BY <2>1, <2>2, CronExprAssumption
<1>3. \A f \in Fields : Calendar(m, f) \in values[f] <=> Calendar(m, f) \in Denotes(f)
  <2> SUFFICES ASSUME NEW f \in Fields
               PROVE  Calendar(m, f) \in values[f] <=> Calendar(m, f) \in Denotes(f)
    OBVIOUS
  <2>1. PICK c : c = Calendar(m, f)
    OBVIOUS
  <2>2. f = "dow" => c # High["dow"]
    BY <1>2, <2>1
  <2>3. c \in values[f] <=> c \in Denotes(f)
    BY <1>1, <2>2, StoredMeans
  <2> QED  BY <2>1, <2>3
<1>4. /\ "minute" \in Fields /\ "hour" \in Fields /\ "dom" \in Fields
      /\ "month" \in Fields /\ "dow" \in Fields
  BY DEF Fields
<1> DEFINE in(f) == Calendar(m, f) \in Denotes(f)
           st(f) == Calendar(m, f) \in values[f]
<1>5. /\ st("minute") <=> in("minute")
      /\ st("hour") <=> in("hour")
      /\ st("dom") <=> in("dom")
      /\ st("month") <=> in("month")
      /\ st("dow") <=> in("dow")
  BY <1>3, <1>4
<1>6. Matches(m) <=> /\ st("minute") /\ st("hour") /\ st("month")
                     /\ DayMatches(st("dom"), st("dow"))
  BY DEF Matches
<1>7. DueAt(m) <=> /\ in("minute") /\ in("hour") /\ in("month")
                   /\ Restricts("dom") \/ Restricts("dow") =>
                        \/ Restricts("dom") /\ in("dom")
                        \/ Restricts("dow") /\ in("dow")
  BY DEF DueAt
<1>8. DayMatches(st("dom"), st("dow")) <=>
        (Restricts("dom") \/ Restricts("dow") =>
           \/ Restricts("dom") /\ st("dom")
           \/ Restricts("dow") /\ st("dow"))
  BY DEF DayMatches, Restricts
<1> HIDE DEF in, st
<1> QED  BY <1>5, <1>6, <1>7, <1>8

(* For every expression whose steps do not wrap, every calendar and every  *)
(* minute: the minute that Next returns is the first one after the minute  *)
(* asked for at which the expression is due, and Next gives up only if no  *)
(* minute up to the deadline is.                                           *)
THEOREM NextIsFirstCorrect == Spec => []NextIsFirst
<1>1. ExprInv => NextIsFirst
  <2> SUFFICES ASSUME ExprInv, NoWrap
               PROVE  /\ pc = "found" => /\ DueAt(candidate) /\ candidate <= Deadline
                                         /\ \A m \in (after + 1)..(candidate - 1) : ~ DueAt(m)
                      /\ pc = "none" => \A m \in (after + 1)..Deadline : ~ DueAt(m)
    BY DEF NextIsFirst, NoWrap
  <2>1. after \in Nat /\ Search \in Nat /\ Deadline \in Int
    BY CronExprAssumption DEF ExprInv, Typed, Deadline
  <2>2. CASE pc = "found"
    <3>1. /\ candidate \in Int /\ after + 1 <= candidate /\ candidate <= Deadline
          /\ Matches(candidate)
          /\ \A m \in Int : after + 1 <= m /\ m < candidate => ~ Matches(m)
      BY <2>2 DEF ExprInv, Searched, Searching
    <3>2. DueAt(candidate)
      BY <2>2, <3>1, MatchesIsDue DEF Searching
    <3>3. ASSUME NEW m \in (after + 1)..(candidate - 1)
          PROVE  ~ DueAt(m)
      <4>1. m \in Int /\ after + 1 <= m /\ m < candidate /\ m <= Deadline
        BY <2>1, <3>1
      <4> QED  BY <2>2, <3>1, <4>1, MatchesIsDue DEF Searching
    <3> QED  BY <2>2, <3>1, <3>2, <3>3
  <2>3. CASE pc = "none"
    <3>1. /\ candidate \in Int /\ candidate > Deadline
          /\ \A m \in Int : after + 1 <= m /\ m < candidate => ~ Matches(m)
      BY <2>3 DEF ExprInv, Searched, Searching
    <3>2. ASSUME NEW m \in (after + 1)..Deadline
          PROVE  ~ DueAt(m)
      <4>1. m \in Int /\ after + 1 <= m /\ m < candidate /\ m <= Deadline
        BY <2>1, <3>1
      <4> QED  BY <2>3, <3>1, <4>1, MatchesIsDue DEF Searching
    <3> QED  BY <2>3, <3>2
  <2> QED  BY <2>2, <2>3
<1> QED  BY <1>1, ExprStart, ExprStep, PTL DEF Spec

(* Parse rejects an expression if and only if one of its items has a step  *)
(* that is not positive, a number outside its field, or an inverted range. *)
THEOREM RejectsExactlyCorrect == Spec => []RejectsExactly
<1> DEFINE bad(f, x) ==
             \/ x.step # Null /\ x.step < 1
             \/ ~ x.star /\ ~ (Low[f] <= x.lo /\ x.lo <= x.hi /\ x.hi <= High[f])
<1>1. ASSUME NEW f \in Fields, NEW x \in Items
      PROVE  bad(f, x) <=> BadItem(f, x)
  <2>1. /\ Low[f] \in Nat /\ High[f] \in Nat /\ x.step \in Int \cup {Null}
        /\ ~ x.star => x.lo \in Int /\ x.hi \in Int
    BY CronExprAssumption DEF Items
  <2>2. x.step # Null => (x.step < 1 <=> x.step <= 0)
    BY <2>1
  <2>3. ~ x.star => ((Low[f] <= x.lo /\ x.lo <= x.hi /\ x.hi <= High[f])
                       <=> ~ Outside(f, x) /\ ~ Inverted(x))
    BY <2>1 DEF Outside, Inverted
  <2> QED  BY <2>2, <2>3 DEF BadItem
<1> HIDE DEF bad
<1>2. ExprInv => RejectsExactly
  <2> SUFFICES ASSUME ExprInv
               PROVE  RejectsExactly
    OBVIOUS
  <2>0. Typed
    BY DEF ExprInv
  <2>1. ASSUME NEW f \in Fields, NEW j \in 1..Len(raw[f])
        PROVE  raw[f][j] \in Items
    BY <2>0, RawFacts
  <2>2. pc = "rejected" => \E f \in Fields : \E j \in 1..Len(raw[f]) : bad(f, raw[f][j])
    <3> SUFFICES ASSUME pc = "rejected"
                 PROVE  \E f \in Fields : \E j \in 1..Len(raw[f]) : bad(f, raw[f][j])
      OBVIOUS
    <3>1. Field \in Fields
      BY <2>0, NamesFacts DEF Typed, Field
    <3>2. item \in 1..Len(raw[Field]) /\ BadItem(Field, raw[Field][item])
      BY DEF ExprInv, Rejected
    <3> QED  BY <1>1, <2>1, <3>1, <3>2
  <2>3. ASSUME pc \in Searching, NEW f \in Fields, NEW j \in 1..Len(raw[f])
        PROVE  ~ bad(f, raw[f][j])
    <3>1. Accepts(f, Len(raw[f]))
      BY <2>3 DEF ExprInv, Finished, FieldDone
    <3> QED  BY <1>1, <2>1, <3>1 DEF Accepts
  <2> QED  BY <2>2, <2>3 DEF RejectsExactly, Searching, bad
<1> QED  BY <1>2, ExprStart, ExprStep, PTL DEF Spec

(* An expression that Parse accepts has values in every field, whatever    *)
(* its steps: the error for a field without values is never returned.      *)
THEOREM NoEmptyFieldCorrect == Spec => []NoEmptyField
<1>1. ExprInv => NoEmptyField
  BY DEF ExprInv, NoEmptyField, Finished, Searching, FieldDone
<1> QED  BY <1>1, ExprStart, ExprStep, PTL DEF Spec
=============================================================================
