----------------------------- MODULE MCRecords -----------------------------
(***************************************************************************)
(* Instances of Records for TLC.                                           *)
(***************************************************************************)
EXTENDS Records, TLC

CONSTANTS w1, w2

TwoWriters == {w1, w2}
OneWriter == {w1}

OneId == {1}
TwoIds == {1, 2}

WriterSymmetry == Permutations({w1, w2})

\* The defaults, with columns that do not trigger an index; and callbacks after
\* the commit.
SafeConfigs == {[after |-> "save", auto |-> "request", ignored |-> {"other"}],
                [after |-> "commit", auto |-> "delete", ignored |-> {}]}

NoJob == {}
EveryJob == {"reindex", "rake", "clean"}
Refused == {"refused"}
AnyFault == {"lost", "refused"}
=============================================================================
