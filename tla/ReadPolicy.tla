----------------------------- MODULE ReadPolicy -----------------------------
(* When a read of a graph handle synchronizes first, by the wall clock; the  *)
(* database it reads is the one DatabaseFamilies selects.                    *)
(*                                                                           *)
(*   policies     src/crates/orbit-graph/src/graph/mod.rs                    *)
EXTENDS DatabaseFamilies

CONSTANTS
    PolicyCalls,    \* [policy, last]: last is what the handle found in meta, 0 when never synced
    Window,         \* the window of SyncPolicy::Windowed
    MaxReal         \* bound on time

ASSUME PolicyAssumption ==
    /\ PolicyCalls \subseteq [policy : {"manual", "watch", "on_read", "windowed"}, last : Nat]
    /\ Window \in Nat

\* real time runs; the wall clock runs with it and may be set back.
PolicyInit ==
    /\ call \in PolicyCalls
    /\ at = "policyIdle"
    /\ acc = [real |-> 2, wall |-> 2, back |-> 0, last |-> call.last, scanned |-> call.last,
              asked |-> 0, started |-> 0, took |-> 0, answer |-> "none"]

PolicyGoto(place, new) ==
    /\ at' = place
    /\ acc' = new
    /\ UNCHANGED call

TimePasses ==
    /\ acc.real < MaxReal
    /\ PolicyGoto(at, [acc EXCEPT !.real = @ + 1, !.wall = @ + 1, !.answer = "none"])

SetClockBack ==
    /\ acc.back = 0
    /\ \E back \in 1..2 : PolicyGoto(at, [acc EXCEPT !.wall = @ - back, !.back = back, !.answer = "none"])

\* sync_window_elapsed; a negative time has no unsigned value.
WindowElapsed ==
    CASE acc.last = 0 -> "yes"
      [] acc.last # 0 /\ acc.wall < acc.last -> "error"
      [] acc.last # 0 /\ acc.wall >= acc.last -> IF acc.wall - acc.last > Window THEN "yes" ELSE "no"

Sync == PolicyGoto("policySync", [acc EXCEPT !.asked = acc.real, !.started = acc.real, !.answer = "none"])
AnswerRead(answer) == PolicyGoto("policyIdle", [acc EXCEPT !.asked = acc.real, !.answer = answer])

\* ensure_synced.
Read ==
    \/ call.policy \in {"manual", "watch"} /\ AnswerRead("data")
    \/ call.policy = "on_read" /\ Sync
    \/ call.policy = "windowed" /\ WindowElapsed = "yes" /\ Sync
    \/ call.policy = "windowed" /\ WindowElapsed = "no" /\ AnswerRead("data")
    \/ call.policy = "windowed" /\ WindowElapsed = "error" /\ AnswerRead("error")

\* A failed synchronization fails the read and is not recorded.
SyncFails == PolicyGoto("policyIdle", [acc EXCEPT !.answer = "error"])

\* record_auto_sync_now comes after the synchronization.
SyncEnds ==
    LET took == acc.real - acc.started
    IN  PolicyGoto("policyIdle", [acc EXCEPT !.scanned = acc.started, !.last = acc.wall, !.answer = "data",
                                             !.took = IF took > @ THEN took ELSE @])

PolicyNext ==
    \/ at = "policyIdle" /\ (Read \/ SetClockBack \/ TimePasses)
    \/ at = "policySync" /\ (SyncEnds \/ SyncFails \/ TimePasses)

---------------------------------------------------------------------------
\* What a synchronizing policy answers from was scanned no longer ago than its
\* window and the time that synchronization took, or the clock was set back by
\* the rest; on-read answers from a scan of its own (graph/mod.rs:
\* ensure_synced, sync_window_elapsed, record_auto_sync_now).
AnswersAreRecent ==
    (at = "policyIdle" /\ acc.answer = "data") =>
        /\ call.policy = "windowed" => acc.real - acc.scanned <= Window + acc.took + acc.back
        /\ call.policy = "on_read" => acc.scanned >= acc.asked

\* A checkout reads its own database, as recent as its policy says, and clean
\* deletes only what Git has disowned.
DatabasesAreTheirOwn ==
    OpensItsOwn /\ BranchesDoNotCollide /\ CleanNeedsProof /\ AnswersAreRecent
=============================================================================
