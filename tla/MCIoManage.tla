----------------------------- MODULE MCIoManage -----------------------------
(* Small instances of IoManage. *)
EXTENDS IoManage, TLC

CONSTANTS o1, o2, o3, o4

\* The objects are interchangeable; sound for the runs without liveness
Symmetry == Permutations(Obj)

-----------------------------------------------------------------------------
Times == INSTANCE TimeVal

Samples == [tv_sec : -2 .. 2, tv_usec : {0, 1, 400000, 999999}]

\* The times of IoManage's timers compare and subtract exactly
ASSUME TimesExact ==
  \A a \in Samples, b \in Samples :
    /\ Times!Difference(a, b) \in [tv_sec : -5 .. 5, tv_usec : 0 .. 999999]
    /\ Times!Micro(Times!Difference(a, b)) = Times!Micro(a) - Times!Micro(b)
    /\ Times!Micro(Times!Sum(a, b)) = Times!Micro(a) + Times!Micro(b)
    /\ Times!Due(a, b) <=> Times!Micro(a) <= Times!Micro(b)
=============================================================================
