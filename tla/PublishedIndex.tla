-------------------------- MODULE PublishedIndex --------------------------
(* What the plugin promises of its code-graph index, whatever builds, fails, *)
(* is given up or is killed behind it: a version of the index is there or    *)
(* not; a query asks for the version that is there and is answered by it,    *)
(* unless that version was replaced while the query ran.                     *)
CONSTANTS
    Queries,        \* who queries
    Versions,       \* versions of the index
    Newer(_, _),    \* one version is newer than another
    NoVersion

VARIABLES
    contract,       \* the extractor that readers need
    current,        \* the version that is there for them
    asked,          \* the version a query works with
    answer          \* what it got

vars == <<contract, current, asked, answer>>

Init ==
    /\ contract = 1
    /\ current = NoVersion
    /\ asked = [q \in Queries |-> NoVersion]
    /\ answer = [q \in Queries |-> "nothing"]

\* One version takes the place of an older one, at once.
Replace ==
    /\ \E v \in Versions : (current = NoVersion \/ Newer(v, current)) /\ current' = v
    /\ UNCHANGED <<contract, asked, answer>>

\* Readers of another extractor find nothing yet; only this takes away a version.
ChangeContract ==
    /\ contract' # contract
    /\ current' = NoVersion
    /\ UNCHANGED <<asked, answer>>

Ask(q) ==
    /\ asked[q] = NoVersion /\ current # NoVersion
    /\ asked' = [asked EXCEPT ![q] = current]
    /\ UNCHANGED <<contract, current, answer>>

\* A query misses its version only when that is no longer the current one.
Answer(q) ==
    /\ asked[q] # NoVersion
    /\ \E a \in {"whole", "missing"} :
          /\ a = "missing" => asked[q] # current
          /\ answer' = [answer EXCEPT ![q] = a]
    /\ asked' = [asked EXCEPT ![q] = NoVersion]
    /\ UNCHANGED <<contract, current>>

Next == Replace \/ ChangeContract \/ \E q \in Queries : Ask(q) \/ Answer(q)

Spec == Init /\ [][Next]_vars
=============================================================================
