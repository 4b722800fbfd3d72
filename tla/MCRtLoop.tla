------------------------------- MODULE MCRtLoop -------------------------------
(* Small instances of RtLoop for TLC.                                      *)
EXTENDS RtLoopHistory, TLC

CONSTANTS c1, c2

(* Motors answer all together, or only the first does, or none.            *)
AllOrNone == {{}, Motors}
Partial == {{}, {1}, Motors}

NoCaller == {}
OneCaller == {c1}
TwoCallers == {c1, c2}
CallerSymmetry == Permutations(Callers)
WithinLimits == {FALSE}

================================================================================
