------------------------------ MODULE MCCharts ------------------------------
(* Finite instance of Charts: up to four hourly counts, in the order the     *)
(* endpoint sends them and placed so that every aggregation period is chosen. *)
EXTENDS Charts

MCPoints == {<<0, 1>>, <<1, 2>>, <<47, 1>>, <<100, 2>>, <<500, 1>>, <<1600, 2>>}
MCVolumes == {SetToSortSeq(S, LAMBDA a, b : a[1] < b[1]) :
                S \in {T \in SUBSET MCPoints : Cardinality(T) \in 1..4}}
=============================================================================
