---------------------------- MODULE MCUsageLedger ----------------------------
(* Two connections for TLC: one with two event keys that may be corrected   *)
(* or moved between two days, one with a single event that only foreign     *)
(* batches could disturb.                                                   *)
EXTENDS UsageLedger, TLC

CONSTANTS c1, c2, d1, d2, m1, k1, k2

MCEvent ==
  [conn : {c1}, key : {k1, k2}, day : {d1, d2}, model : {m1, None}, tokens : {1, None}]
    \cup [conn : {c2}, key : {k1}, day : {d1}, model : {m1}, tokens : {1}]

MCSample ==
  [source : {"provider"}, conn : {c1}, day : {d1}, span : {"hour", "day"},
   model : {None}, key : {"token_total"}, value : {1}]

MCBatch ==
  [events : {s \in SUBSET MCEvent : Cardinality(s) <= 2}, samples : {{}}]
    \cup [events : {{}}, samples : {{s} : s \in MCSample}]
Symmetric == Permutations({k1, k2})
=============================================================================
