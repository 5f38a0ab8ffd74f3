----------------------------- MODULE MCTestRun -----------------------------
(***************************************************************************)
(* A small instance of TestRun: two sets, the first with a suite of two    *)
(* cases and a suite of one, the second with one suite and no case.        *)
(***************************************************************************)
EXTENDS TestRun, TLC

CONSTANTS s1, s2, u1, u2, u3, c1, c2, c3

MCSuitesOf == (s1 :> <<u1, u2>>) @@ (s2 :> <<u3>>)
MCCasesOf == (u1 :> <<c1, c2>>) @@ (u2 :> <<c3>>) @@ (u3 :> <<>>)
=============================================================================
