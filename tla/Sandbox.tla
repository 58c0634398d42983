------------------------------ MODULE Sandbox ------------------------------
(***************************************************************************)
(* The one sandbox all sessions share (tools/sandbox.go): the workspace    *)
(* root, the read grants of a run's attachments, and the paths users have  *)
(* approved.  A file tool resolves its path twice: when the executor       *)
(* evaluates the permission (tools/permission.go) and when it executes.    *)
(*                                                                         *)
(* Paths are names; a symbolic link is a path under the root of what it    *)
(* points to.  Each session has one call at a time here: what matters is   *)
(* that sessions run at the same time.                                     *)
(***************************************************************************)
EXTENDS FiniteSets

CONSTANTS
    Sessions,
    Roots,      \* workspace roots
    Paths,
    Under,      \* the root a path is inside, or None
    Tree,       \* the regular files below a path: nothing below a file
    Excluded,   \* paths and files a workspace filter excludes
    None

PathsHaveRoots == Under \in [Paths -> Roots \cup {None}] /\ DOMAIN Tree = Paths

VARIABLES
    root,           \* Sandbox.realRoot
    grantedReads,
    approvedPaths,
    run,            \* per session: what its run attached and the user allowed in it
    call            \* per session: its tool call

vars == <<root, grantedReads, approvedPaths, run, call>>

RunGrants == [attached : SUBSET Paths, allowed : SUBSET Paths]
NoneIsNothing == \A s \in SUBSET Sessions, g \in RunGrants : None \notin {s, g}

\* read_file; the tools that resolve as writers do, list_dir among them; and
\* those that search below a path: grep, glob and code_index.
Modes == {"read", "write", "search"}
\* `licence' is history: the sessions whose runs allow what was opened, None
\* before and for a path inside the root.
Tool == [mode : Modes, path : Paths, place : {"ask", "execute", "open"},
         licence : (SUBSET Sessions) \cup {None}]

TypeOK ==
    /\ root \in Roots
    /\ grantedReads \subseteq Paths /\ approvedPaths \subseteq Paths
    /\ run \in [Sessions -> RunGrants \cup {None}]
    /\ call \in [Sessions -> Tool \cup {None}]
    /\ \A s \in Sessions : call[s] # None => run[s] # None

Init ==
    /\ root \in Roots
    /\ grantedReads = {} /\ approvedPaths = {}
    /\ run = [s \in Sessions |-> None]
    /\ call = [s \in Sessions |-> None]

-----------------------------------------------------------------------------
\* Sandbox.Resolve: an excluded path is refused before anything else.
Resolves(p) == p \notin Excluded /\ (Under[p] = root \/ p \in approvedPaths)

\* Sandbox.ResolveRead.
ResolvesRead(p) ==
    Resolves(p) \/ (p \notin Excluded /\ p \in grantedReads \cup approvedPaths)

Reaches(mode, p) == IF mode = "write" THEN Resolves(p) ELSE ResolvesRead(p)

\* Fault: excluded files are searched.
WalkedAll(p) == IF Tree[p] = {} THEN {p} ELSE Tree[p]

\* walkTree; symbolic links are not regular files.
Walked(p) == IF Tree[p] = {} THEN {p} ELSE Tree[p] \ Excluded

Opened(mode, p) == IF mode = "search" THEN Walked(p) ELSE {p}

-----------------------------------------------------------------------------
\* The dispatcher grants the attachments of the prompt it starts on; the
\* approvals of the run before are dropped with the grants.
BeginRun(s, attached) ==
    /\ run[s] = None
    /\ run' = [run EXCEPT ![s] = [attached |-> attached, allowed |-> {}]]
    /\ grantedReads' = attached
    /\ approvedPaths' = {}
    /\ UNCHANGED <<root, call>>

\* RunConversation returns once its tool goroutines have.
EndRun(s) ==
    /\ run[s] # None /\ call[s] = None
    /\ run' = [run EXCEPT ![s] = None]
    /\ grantedReads' = {}
    /\ approvedPaths' = {}
    /\ UNCHANGED <<root, call>>

\* agent.set_workspace, at any time.
SetRoot(r) ==
    /\ root' = r
    /\ UNCHANGED <<grantedReads, approvedPaths, run, call>>

\* EvaluatePermission: what does not resolve is asked about, except an
\* excluded path, which the tool refuses by itself.
Evaluate(s, mode, p) ==
    /\ run[s] # None /\ call[s] = None
    /\ mode # "search"
    /\ call' = [call EXCEPT ![s] =
         [mode |-> mode, path |-> p, licence |-> None,
          place |-> IF Reaches(mode, p) \/ p \in Excluded THEN "execute" ELSE "ask"]]
    /\ UNCHANGED <<root, grantedReads, approvedPaths, run>>

\* Nobody is asked about a search: what does not resolve is an error.
Search(s, p) ==
    /\ run[s] # None /\ call[s] = None
    /\ call' = [call EXCEPT ![s] =
         [mode |-> "search", path |-> p, licence |-> None, place |-> "execute"]]
    /\ UNCHANGED <<root, grantedReads, approvedPaths, run>>

Allow(s) ==
    /\ call[s] # None /\ call[s].place = "ask"
    /\ approvedPaths' = approvedPaths \cup {call[s].path}
    /\ run' = [run EXCEPT ![s].allowed = @ \cup {call[s].path}]
    /\ call' = [call EXCEPT ![s].place = "execute"]
    /\ UNCHANGED <<root, grantedReads>>

Deny(s) ==
    /\ call[s] # None /\ call[s].place = "ask"
    /\ call' = [call EXCEPT ![s] = None]
    /\ UNCHANGED <<root, grantedReads, approvedPaths, run>>

Licensed(mode, p) ==
    {s \in Sessions : run[s] # None /\
       p \in run[s].allowed \cup IF mode = "write" THEN {} ELSE run[s].attached}

\* The tool resolves its path and opens the file, or returns an error.
Execute(s) ==
    /\ call[s] # None /\ call[s].place = "execute"
    /\ LET p == call[s].path IN
       call' = [call EXCEPT ![s] =
         IF ~ Reaches(@.mode, p) THEN None
         ELSE [@ EXCEPT !.place = "open", !.licence =
                 IF Under[p] = root THEN None ELSE Licensed(call[s].mode, p)]]
    /\ UNCHANGED <<root, grantedReads, approvedPaths, run>>

Return(s) ==
    /\ call[s] # None /\ call[s].place = "open"
    /\ call' = [call EXCEPT ![s] = None]
    /\ UNCHANGED <<root, grantedReads, approvedPaths, run>>

-----------------------------------------------------------------------------
Next ==
    \/ \E s \in Sessions, attached \in SUBSET Paths : BeginRun(s, attached)
    \/ \E s \in Sessions : EndRun(s)
    \/ \E r \in Roots : SetRoot(r)
    \/ \E s \in Sessions, mode \in Modes, p \in Paths : Evaluate(s, mode, p)
    \/ \E s \in Sessions, p \in Paths : Search(s, p)
    \/ \E s \in Sessions : Allow(s)
    \/ \E s \in Sessions : Deny(s)
    \/ \E s \in Sessions : Execute(s)
    \/ \E s \in Sessions : Return(s)

Spec == Init /\ [][Next]_vars

-----------------------------------------------------------------------------
\* Whatever other sessions and set_workspace do between a call's evaluation
\* and its execution, a path that is outside the root when the tool resolves it
\* was attached to (not for writers) or allowed in a run that is still in
\* progress, and no file an exclusion names is ever opened.
OpensAreLicensed ==
    \A s \in Sessions : call[s] # None /\ call[s].place = "open" =>
        call[s].licence # {} /\ Opened(call[s].mode, call[s].path) \cap Excluded = {}

=============================================================================
