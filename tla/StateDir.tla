----------------------------- MODULE StateDir ------------------------------
(* Reaching a state directory and the file in it, component by component,    *)
(* while another process may create what is still missing.                   *)
(*                                                                           *)
(*   directories, files   src/crates/orbit-graph/src/state_dir.rs            *)
(*   index directories    src/crates/orbit-graph/src/store/mod.rs            *)
(*                                                                           *)
(* A node is what stands at a name: [what, mine, open, to], where what is    *)
(* "missing", "dir", "link" or "file", open says that others have permission *)
(* bits, and to is where a link leads ("inside" the worktree, "outside" it,  *)
(* or to "nothing").  Nobody replaces a node that exists.                    *)
EXTENDS Procedure, Integers, Sequences

CONSTANTS
    StateCalls,     \* [kind, access, root, nodes, inside, tracked, linked, file, opens, marker, rival]
    RivalNodes      \* by kind of rival: the nodes it may create

Missing == [what |-> "missing", mine |-> TRUE, open |-> FALSE, to |-> "self"]
PrivateDir == [Missing EXCEPT !.what = "dir"]
PrivateFile == [Missing EXCEPT !.what = "file"]
LinkTarget == [PrivateDir EXCEPT !.open = TRUE]

StateNodes ==
    [what : {"missing", "dir", "link", "file"}, mine : BOOLEAN, open : BOOLEAN,
     to : {"self", "inside", "outside", "nothing"}]

\* Only a chosen directory may lie outside the worktree or the plugin's root;
\* a sibling is this program and creates what this program creates.
ASSUME StateAssumption ==
    /\ \A c \in StateCalls :
           /\ c.kind \in {"scratch", "private", "chosen"} /\ c.access \in {"read", "write"}
           /\ c.root \in BOOLEAN /\ c.inside \in BOOLEAN /\ c.tracked \in BOOLEAN /\ c.linked \in BOOLEAN
           /\ c.nodes \in Seq(StateNodes) /\ c.nodes # <<>> /\ c.file \in StateNodes
           /\ c.opens \in {"open", "check"} /\ c.marker \in {"none", "theirs"} /\ c.rival \in DOMAIN RivalNodes
           /\ c.kind # "chosen" => c.inside
    /\ \A rival \in DOMAIN RivalNodes :
           /\ RivalNodes[rival] \subseteq StateNodes
           /\ rival = "none" => RivalNodes[rival] = {}
           /\ rival = "sibling" => RivalNodes[rival] \subseteq {PrivateDir}

StateInit ==
    /\ call \in StateCalls
    /\ at = "stateStart"
    /\ acc = [nodes |-> call.nodes, inside |-> call.inside, root |-> call.root, i |-> 1, first |-> 1,
              owned |-> 1, result |-> "running", touched |-> {}, file |-> call.file,
              marker |-> call.marker, temp |-> "none"]

StateEnd(result, new) ==
    /\ at' = "stateDone"
    /\ acc' = [new EXCEPT !.result = result]
    /\ UNCHANGED call

StateGoto(place, new) ==
    /\ at' = place
    /\ acc' = new
    /\ UNCHANGED call

\* refuse_tracked: Git's index holds the directory or something below it.
RefuseTracked == call.tracked /\ acc.inside

\* canonical_root and refuse_tracked come before anything is looked at.
ScratchStart ==
    /\ call.kind = "scratch"
    /\ IF ~call.root \/ RefuseTracked THEN StateEnd("refused", acc) ELSE StateGoto("stateLook", acc)

\* plugin_state_dir: the root is trusted, and a writer creates it.
PrivateStart ==
    /\ call.kind = "private"
    /\ \/ call.root /\ StateGoto("stateLook", acc)
       \/ ~call.root /\ call.access = "read" /\ StateEnd("absent", acc)
       \/ /\ ~call.root /\ call.access = "write"
          /\ StateGoto("stateLook", [acc EXCEPT !.root = TRUE, !.touched = @ \cup {<<0, "made">>}])

\* physical_with_missing_tail: the links of the existing part are followed.
Links == {i \in DOMAIN acc.nodes : acc.nodes[i].what = "link"}
Blocked == \E i \in 1..(Len(acc.nodes) - 1) : acc.nodes[i].what = "file"
LastLink == CHOOSE i \in Links : \A j \in Links : j <= i
Physical ==
    IF Links = {} THEN acc
    ELSE [acc EXCEPT !.nodes = <<LinkTarget>> \o SubSeq(@, LastLink + 1, Len(@)),
                     !.inside = acc.nodes[LastLink].to = "inside"]

ChosenStart ==
    /\ call.kind = "chosen"
    /\ IF Blocked \/ \E i \in Links : acc.nodes[i].to = "nothing"
       THEN StateEnd("refused", acc)
       ELSE StateGoto("stateSplit", Physical)

\* split_existing: the first missing component, or the last one.
FirstMissing ==
    LET absent == {i \in DOMAIN acc.nodes : acc.nodes[i].what = "missing"}
    IN  CHOOSE i \in absent \cup {Len(acc.nodes)} : \A j \in absent : i <= j

\* chosen_state_dir: inside the worktree every component is walked, outside
\* only the missing ones, or the last when none is missing.
ChosenSplit ==
    LET first == IF acc.inside THEN 1 ELSE FirstMissing
    IN  IF RefuseTracked THEN StateEnd("refused", acc)
        ELSE StateGoto("stateLook", [acc EXCEPT !.i = first, !.first = first, !.owned = Len(acc.nodes)])

Node == acc.nodes[acc.i]

\* refuse_links_in: the scratch directory holds no link, whoever made it.
LinkInScratch ==
    /\ call.kind = "scratch" /\ acc.i = 1
    /\ call.linked \/ (Len(acc.nodes) > 1 /\ acc.nodes[2].what = "link")

\* check_owner.
IsOurs(node) == node.mine

\* repair_mode.
Repaired(node) == [node EXCEPT !.open = FALSE]

NextComponent(new) ==
    IF LinkInScratch THEN StateEnd("refused", new)
    ELSE IF acc.i < Len(acc.nodes) THEN StateGoto("stateLook", [new EXCEPT !.i = @ + 1])
    ELSE StateGoto("stateFile", new)

\* verify_dir, check_owner and repair_mode.
VerifyDir ==
    IF Node.what # "dir" \/ ~IsOurs(Node) THEN StateEnd("refused", acc)
    ELSE IF call.access = "write" /\ acc.i >= acc.owned /\ Node.open
    THEN NextComponent([acc EXCEPT !.nodes[acc.i] = Repaired(@), !.touched = @ \cup {<<acc.i, "mode">>}])
    ELSE NextComponent(acc)

LookAtComponent ==
    \/ Node.what # "missing" /\ VerifyDir
    \/ Node.what = "missing" /\ call.access = "read" /\ StateEnd("absent", acc)
    \/ Node.what = "missing" /\ call.access = "write" /\ StateGoto("stateMake", acc)

\* The component may exist by now: AlreadyExists is no error.
MakeComponent ==
    IF Node.what = "missing"
    THEN StateGoto("stateRelook", [acc EXCEPT !.nodes[acc.i] = PrivateDir, !.touched = @ \cup {<<acc.i, "made">>}])
    ELSE StateGoto("stateRelook", acc)

\* What was created must be the directory that was meant.
LookAgain == VerifyDir

\* check_state_file: nothing is opened and nothing changes.
CheckOnly == call.opens = "check"

\* open_state_file, or check_state_file.
OpenStateFile ==
    \/ /\ acc.file.what = "missing"
       /\ CheckOnly \/ call.access = "read"
       /\ StateGoto("stateMark", acc)
    \/ /\ acc.file.what = "missing" /\ ~CheckOnly /\ call.access = "write"
       /\ StateGoto("stateMark", [acc EXCEPT !.file = PrivateFile, !.touched = @ \cup {<<Len(acc.nodes) + 1, "made">>}])
    \/ /\ acc.file.what # "missing" /\ (acc.file.what # "file" \/ ~IsOurs(acc.file))
       /\ StateEnd("refused", acc)
    \/ /\ acc.file.what = "file" /\ IsOurs(acc.file)
       /\ StateGoto("stateMark",
              IF ~CheckOnly /\ call.access = "write" /\ acc.file.open
              THEN [acc EXCEPT !.file = Repaired(@), !.touched = @ \cup {<<Len(acc.nodes) + 1, "mode">>}]
              ELSE acc)

\* create_index_dir marks its own directories; write_new_gitignore fills a
\* temporary file first.
StartMarker ==
    \/ /\ call.access = "read" \/ call.kind = "chosen"
       /\ StateEnd("dir", acc)
    \/ /\ call.access = "write" /\ call.kind # "chosen"
       /\ StateGoto("stateFill", [acc EXCEPT !.temp = "partial"])

\* Failing to mark the directory is not fatal.
FillMarker ==
    \/ StateGoto("stateLink", [acc EXCEPT !.temp = "whole"])
    \/ StateEnd("dir", [acc EXCEPT !.temp = "none"])

\* linkat never replaces an entry; the temporary name goes in any case.
LinkMarker ==
    StateEnd("dir", [acc EXCEPT !.temp = "none", !.marker = IF @ = "none" THEN acc.temp ELSE @])

\* A kill leaves the directory as it is.
KillState == at # "stateDone" /\ StateEnd("killed", acc)

\* Another process creates the first missing component, or the marker.
RivalCreates ==
    \/ \E i \in DOMAIN acc.nodes, node \in RivalNodes[call.rival] :
           /\ acc.nodes[i].what = "missing"
           /\ \A j \in 1..(i - 1) : acc.nodes[j].what = "dir"
           /\ StateGoto(at, [acc EXCEPT !.nodes[i] = node])
    \/ /\ call.rival # "none" /\ acc.marker = "none"
       /\ StateGoto(at, [acc EXCEPT !.marker = IF call.rival = "sibling" THEN "whole" ELSE "theirs"])

StateNext ==
    \/ at = "stateStart" /\ (ScratchStart \/ PrivateStart \/ ChosenStart)
    \/ at = "stateSplit" /\ ChosenSplit
    \/ at = "stateLook" /\ LookAtComponent
    \/ at = "stateMake" /\ MakeComponent
    \/ at = "stateRelook" /\ LookAgain
    \/ at = "stateFile" /\ OpenStateFile
    \/ at = "stateMark" /\ StartMarker
    \/ at = "stateFill" /\ FillMarker
    \/ at = "stateLink" /\ LinkMarker
    \/ at \in {"stateSplit", "stateLook", "stateMake", "stateFile", "stateFill", "stateLink"}
       /\ (RivalCreates \/ KillState)

---------------------------------------------------------------------------
InState ==
    at \in {"stateStart", "stateSplit", "stateLook", "stateMake", "stateRelook", "stateFile", "stateMark",
            "stateFill", "stateLink", "stateDone"}

\* A directory that is handed out (state_dir.rs: walk) is reached through real
\* directories of this user only, and a writer's own components are private,
\* whatever another process put in their place after they were found missing.
StateIsOurs ==
    (at = "stateDone" /\ acc.result = "dir") =>
        \A i \in acc.first..Len(acc.nodes) :
            /\ acc.nodes[i].what = "dir" /\ acc.nodes[i].mine
            /\ (call.access = "write" /\ i >= acc.owned) => ~acc.nodes[i].open

\* A read changes nothing, nor does a call that is refused because Git tracks
\* the directory, and permissions change only on components that are state
\* (state_dir.rs: StateAccess::Read, refuse_tracked, walk's owned_from).
OnlyStateIsTouched ==
    InState =>
        /\ call.access = "read" => acc.touched = {}
        /\ (call.tracked /\ (call.kind = "scratch" \/ (call.kind = "chosen" /\ acc.inside))) => acc.touched = {}
        /\ \A i \in DOMAIN acc.nodes :
               <<i, "mode">> \in acc.touched =>
                   acc.nodes[i].mine /\ (call.kind = "chosen" => i = Len(acc.nodes))

\* Two writers that create one directory at once both get it: a component the
\* other created between the look and the create is no failure
\* (state_dir.rs: walk, ErrorKind::AlreadyExists).
SiblingsBothSucceed ==
    /\ at = "stateDone" /\ acc.result = "refused"
    /\ call.rival \in {"none", "sibling"}
    => \/ call.tracked \/ ~call.root \/ call.linked
       \/ \E i \in DOMAIN call.nodes : call.nodes[i].what \in {"link", "file"} \/ ~call.nodes[i].mine
       \/ call.file.what \in {"dir", "link"} \/ ~call.file.mine

\* The marker is never a cut-short file, and one that exists is never
\* replaced, also when the writer is killed (store/mod.rs: write_new_gitignore).
MarkerIsWhole ==
    InState => acc.marker \in {"none", "theirs", "whole"} /\ (call.marker = "theirs" => acc.marker = "theirs")
=============================================================================
