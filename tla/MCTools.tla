------------------------------ MODULE MCTools ------------------------------
(***************************************************************************)
(* Small instances of FileTools, of Sandbox (what those tools may open)    *)
(* and of SubagentTools (two tasks of one parallel_subagents call).  A     *)
(* behaviour is one of the three: `part` says which.  No property tells a  *)
(* call, a file or a session from another: symmetry is sound.              *)
(***************************************************************************)
EXTENDS SubagentTools, TLC

CONSTANTS a, b, r1, r2, p1, p2, p3, open, secret, Calls, Files, Texts, Scripts, None,
          Sessions, Roots, Paths, Excluded

MCScripts == {<<[old |-> a, new |-> b]>>,
              <<[old |-> b, new |-> None], [old |-> a, new |-> b]>>}
MCUnder == (p1 :> r1) @@ (p2 :> None) @@ (p3 :> r2)
MCTree == (p1 :> {open, secret}) @@ (p2 :> {}) @@ (p3 :> {})

Symmetry == Permutations(Calls) \cup Permutations(Files) \cup Permutations(Sessions)

VARIABLES
    disk, indexed, call, excused,
    root, grantedReads, approvedPaths, run, access,
    part

F == INSTANCE FileTools
S == INSTANCE Sandbox WITH Under <- MCUnder, Tree <- MCTree, call <- access

ASSUME PartsAssumption ==
    /\ F!EditsNameTexts /\ F!NoneIsNothing
    /\ S!PathsHaveRoots /\ S!NoneIsNothing

fileVars == <<disk, indexed, call, excused>>
sandboxVars == <<root, grantedReads, approvedPaths, run, access>>

\* The parts that do not move stand in one of their initial states.
MCInit ==
    /\ part \in {"files", "sandbox", "tasks"}
    /\ ToolInit /\ F!Init /\ S!Init
    /\ part # "files" => disk = [f \in Files |-> {}]
    /\ part # "sandbox" => root = r1
MCNext ==
    \/ part = "files" /\ F!Next /\ UNCHANGED <<sandboxVars, allVars, part>>
    \/ part = "sandbox" /\ S!Next /\ UNCHANGED <<fileVars, allVars, part>>
    \/ part = "tasks" /\ ToolNext /\ UNCHANGED <<fileVars, sandboxVars, part>>
MCSpec == MCInit /\ [][MCNext]_<<fileVars, sandboxVars, allVars, part>>

(* The index differs from the disk for a reason, a failed call leaves its  *)
(* file unless the disk failed its write, and what is opened is licensed   *)
(* (FileTools StaleForAReason, FailuresLeaveTheFile, Sandbox               *)
(* OpensAreLicensed).                                                      *)
FilesAreSafe ==
    /\ F!TypeOK /\ F!StaleForAReason /\ F!FailuresLeaveTheFile
    /\ S!TypeOK /\ S!OpensAreLicensed
=============================================================================
