--------------------------- MODULE MCTransitionTx ---------------------------
(***************************************************************************)
(* Values of the constants of TransitionTx for TLC.  Time plays no part: all *)
(* service levels are zero and everything happens at instant 0.             *)
(***************************************************************************)
EXTENDS TransitionTx, SequencesExt

CONSTANTS c1, s1, k1, k2

MCClients == {c1}
MCStaff   == {s1}
MCGrants  == c1 :> {} @@ s1 :> Permission
MCOrganization == c1 :> "org"
MCZero == [p \in Priority |-> 0]
MCNone == {}
MCAddBusinessMinutes(t, m) == t + Minutes(m)
MCCalls == {k1, k2}
MCSymmetry == Permutations(MCCalls)

(* The row a new request of priority 2 has after a sequence of transitions. *)
MCDto == [note |-> "reason", level |-> 2, assignee |-> s1]
After(codes) ==
    FoldLeft(LAMBDA r, code : Transitioned(code, r, MCDto, 0), NewRow(c1, 2, 0), codes)

Handled == <<"T02", "T06", "T08", "T11", "T16">>

(* A new request, one being processed, one closed, one closed once more.     *)
EveryPhase == {After(<<>>), After(<<"T02", "T06", "T08">>), After(Handled),
               After(Handled \o <<"T19">> \o Handled)}
=============================================================================
