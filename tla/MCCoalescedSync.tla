-------------------------- MODULE MCCoalescedSync --------------------------
(* Small instances of CoalescedSync.                                        *)
EXTENDS CoalescedSync

CONSTANTS t1, t2, t3

\* Every call of coalesced returns, though leaders fail and panic and no
\* follower's bound need pass.  The threads are interchangeable: t1 stands for
\* each of them.
EveryCallReturns == CallReturns(t1)

=============================================================================
