---- MODULE MCDispatch ----
(***************************************************************************)
(* One dispatcher whose batch is full after one workflow, and two that     *)
(* overlap on both.  Every cadence of a small calendar is asked from every *)
(* instant of its week.                                                    *)
(***************************************************************************)
EXTENDS Dispatch

Alone == [crons |-> {1}, batch |-> 1]
Two == [crons |-> {1, 2}, batch |-> 2]
MCSites == {Alone, Two}
OneSite == {Alone}
TwoSites == {Two}
PagedSites == {[Two EXCEPT !.batch = 1]}

SmallWeek == {[minute |-> 2, minutes |-> 3, hours |-> 3, days |-> 3]}
====
