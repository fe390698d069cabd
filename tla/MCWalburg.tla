----------------------------- MODULE MCWalburg -----------------------------
(***************************************************************************)
(* Walburg for TLC: the users of the sessions and the calls they make.     *)
(***************************************************************************)
EXTENDS WalburgLog

CONSTANTS s1, s2, c1, c2, t1

\* Different users, so that exact ties have a winner.
MCUserOf == [s \in Session |-> IF s = s1 THEN 0 ELSE 1]

SetF    == << <<"f", 0>> >>
SetBoth == << <<"f", 0>>, <<"g", 0>> >>
Restore == << <<DELETED, 0>>, <<"f", 1>> >>
Delete  == << <<DELETED, JTrue>> >>
Purge   == << <<PURGE, JTrue>> >>

MCOneField  == {SetF}
MCCollide   == {SetF, Restore, Purge}
MCTwoFields == {SetF, SetBoth, Purge}

=============================================================================
