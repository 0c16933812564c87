---------------------------- MODULE MCCronExpr ----------------------------
(* A small calendar: two minutes to the hour, two hours to the day, years  *)
(* of a month of three days and one of two, weeks of two days (2 is        *)
(* another name of weekday 0).  The third of the second month never comes; *)
(* a search of a year ends at the minute it was asked after, a year later. *)
EXTENDS CronExpr

MCLow  == [f \in Fields |-> IF f \in {"dom", "month"} THEN 1 ELSE 0]
MCHigh == [f \in Fields |-> CASE f \in {"minute", "hour"} -> 1
                              [] f = "dom" -> 3
                              [] OTHER -> 2]

MCCalendar(m, f) ==
  LET day == m \div 4
  IN CASE f = "minute" -> m % 2
       [] f = "hour" -> (m \div 2) % 2
       [] f = "dom" -> <<1, 2, 3, 1, 2>>[1 + (day % 5)]
       [] f = "month" -> <<1, 1, 1, 2, 2>>[1 + (day % 5)]
       [] f = "dow" -> day % 2

Star(s) == [star |-> TRUE, lo |-> Null, hi |-> Null, step |-> s]
Span(a, b, s) == [star |-> FALSE, lo |-> a, hi |-> b, step |-> s]
Every == <<Star(Null)>>

(* Stars, steps, ranges, lists, the ends of the field, numbers outside it, *)
(* inverted ranges, steps of zero, a step that wraps.                      *)
DomFields ==
  {Every, <<Star(1)>>, <<Star(2)>>, <<Span(3, 3, Null)>>, <<Span(1, 3, 2)>>,
   <<Span(1, 1, Null), Span(3, 3, Null)>>, <<Span(0, 1, Null)>>,
   <<Span(2, 4, Null)>>, <<Span(3, 1, Null)>>, <<Star(0)>>,
   <<Span(3, 3, IntBound - 1)>>}
DowFields ==
  {Every, <<Span(2, 2, Null)>>, <<Span(1, 2, Null)>>, <<Star(2)>>,
   <<Span(0, 0, Null), Span(1, 1, Null)>>, <<Span(1, 1, Null), Span(3, 3, Null)>>}
TimeFields == {Every, <<Span(1, 1, Null)>>, <<Star(2)>>}

MCExpressions ==
  {[f \in Fields |-> CASE f = "minute" -> mi [] f = "hour" -> h
                       [] f = "dom" -> d [] f = "month" -> mo [] f = "dow" -> w] :
     mi \in TimeFields, h \in TimeFields, d \in DomFields,
     mo \in {Every, <<Span(2, 2, Null)>>}, w \in DowFields}
=============================================================================
