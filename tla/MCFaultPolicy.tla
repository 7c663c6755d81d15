--------------------------- MODULE MCFaultPolicy ---------------------------
(***************************************************************************)
(* Instances of FaultPolicy for TLC.                                       *)
(***************************************************************************)
EXTENDS FaultPolicy

CONSTANTS t1, t2

OneThread == {t1}
TwoThreads == {t1, t2}

TwoHosts == {1, 2}

\* Both hosts, out of order.
TwoSeeds == <<2, 1>>

Update(groups, to) == [kind |-> "update", groups |-> groups, to |-> to]
Probe(groups) == [kind |-> "probe", groups |-> groups, to |-> << >>]

\* One collection per call that sends something: index and index!.
SimpleCalls == {Update(1, <<1>>), Update(1, <<1, 1>>), Probe(1), Probe(2)}

\* The update of two collections removes two objects from the first one.
EveryCall == {Update(1, <<1>>), Update(2, <<1, 1, 2>>), Probe(1),
              [kind |-> "search", groups |-> 1, to |-> <<1>>],
              [kind |-> "remove_by_id!", groups |-> 1, to |-> <<1, 1>>]}

AnyError == {"4xx", "5xx", "timeout"}
NoError == {}
=============================================================================
