----------------------------- MODULE OutgoingLog -----------------------------
(***************************************************************************)
(* What an account promises about the transactions it sends: a transaction *)
(* is recorded before its sending is confirmed to the user, and a record   *)
(* is never lost.                                                          *)
(***************************************************************************)
CONSTANT Tx

VARIABLES
    stored,     \* transactions on disk
    confirmed   \* transactions that the user was told are sent

logVars == <<stored, confirmed>>

LogInit == stored = {} /\ confirmed = {}

Store(t) == stored' = stored \cup {t} /\ UNCHANGED confirmed

Confirm(t) ==
    /\ t \in stored
    /\ confirmed' = confirmed \cup {t}
    /\ UNCHANGED stored

LogNext == \E t \in Tx : Store(t) \/ Confirm(t)

LogSpec == LogInit /\ [][LogNext]_logVars
=============================================================================
