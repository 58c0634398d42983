----------------------------- MODULE FileTools -----------------------------
(***************************************************************************)
(* The tools that change files and the symbol index over them              *)
(* (tools/fs.go, delete_symbol.go, notebook_edit.go, code_index.go,        *)
(* shell.go).  The executor runs the calls of a turn in parallel, sessions *)
(* run side by side, and no lock covers a file: an edit reads, computes    *)
(* and writes in steps, and only then drops the file from the index, which *)
(* another call may be filling.                                            *)
(*                                                                         *)
(* A file's content is the set of the texts (lines, symbols, cells) it     *)
(* holds.  os.WriteFile truncates, then writes: between the two the file   *)
(* is empty, and of two writers the later one leaves the tail of a longer  *)
(* content behind.                                                         *)
(***************************************************************************)
EXTENDS Naturals, Sequences

CONSTANTS
    Calls,
    Files,
    Texts,
    Scripts,    \* the edits of one call: sequences of [old, new], new may be None
    None

EditsNameTexts ==
    \A e \in Scripts : e \in Seq([old : Texts, new : Texts \cup {None}])
NoneIsNothing == None \notin Files /\ \A content \in SUBSET Texts : content # None

VARIABLES
    disk,       \* Files -> content, None when absent
    indexed,    \* codeIndex.byFile (built): the content indexed, or None
    call,       \* Calls -> what the call is doing
    excused     \* history: files that changed behind the index's back

vars == <<disk, indexed, call, excused>>

Contents == SUBSET Texts

Idle == [place |-> "idle"]

\* `new' is the content a call is about to write, `at' the name its open file
\* has by now, None when it has none; `wrote' (history) whether a move has
\* changed its source, `overtaken' (history) whether the file was changed since
\* the index read it.
Writer(place, f, new) == [place |-> place, file |-> f, new |-> new, at |-> None]
Mover(place, f, to) == [place |-> place, file |-> f, to |-> to, wrote |-> FALSE]
Indexer(place, f, got) ==
    [place |-> place, file |-> f, got |-> got, overtaken |-> FALSE]

TypeOK ==
    /\ disk \in [Files -> Contents \cup {None}]
    /\ indexed \in [Files -> Contents \cup {None}]
    /\ \A c \in Calls :
         \/ call[c] = Idle
         \/ call[c] \in [place : {"truncate", "write", "invalidate"}, file : Files,
                         new : Contents, at : Files \cup {None}]
         \/ call[c] \in [place : {"rename", "remove", "invalidate"}, file : Files,
                         to : Files, wrote : BOOLEAN]
         \/ call[c] \in [place : {"index", "store"}, file : Files,
                         got : Contents \cup {None}, overtaken : BOOLEAN]
         \/ call[c] \in [place : {"failed"}, file : Files, wrote : BOOLEAN]
         \/ call[c] \in [place : {"torn"}, file : Files]
    /\ excused \subseteq Files

Init ==
    /\ disk \in [Files -> {{}, Texts, None}]
    /\ indexed = [f \in Files |-> None]
    /\ call = [c \in Calls |-> Idle]
    /\ excused = {}

-----------------------------------------------------------------------------
\* An indexing call that has read f before f changes.
Reading(c, f) == call[c].place = "store" /\ call[c].file = f

\* c goes to `next'; the files of S have changed under the calls indexing them.
After(c, next, S) ==
    [d \in Calls |->
        IF d = c THEN next
        ELSE IF \E f \in S : Reading(d, f) THEN [call[d] EXCEPT !.overtaken = TRUE]
        ELSE call[d]]

Moves(c, next, S) == call' = After(c, next, S)

Refused(f) == [place |-> "failed", file |-> f, wrote |-> FALSE]
Failure(c) == [place |-> "failed", file |-> call[c].file, wrote |-> call[c].wrote]

\* A file renamed to `to' (None: removed) takes its open writers along; those
\* of the file it replaces keep a file without a name.
Follow(calls, f, to) ==
    [d \in Calls |->
        IF calls[d].place # "write" THEN calls[d]
        ELSE IF calls[d].at = f THEN [calls[d] EXCEPT !.at = to]
        ELSE IF calls[d].at = to THEN [calls[d] EXCEPT !.at = None]
        ELSE calls[d]]

\* The disk has failed a write after the file was opened for it.
Torn(f) == [place |-> "torn", file |-> f]

Return(c) ==
    /\ call[c].place \in {"failed", "torn"}
    /\ Moves(c, Idle, {})
    /\ UNCHANGED <<disk, indexed, excused>>

-----------------------------------------------------------------------------
(* Edits *)

Edited(content, e) == (content \ {e.old}) \cup ({e.new} \ {None})

\* applyEdits: each edit against the result of the one before; None once an
\* old text is missing, or when there is no file.
Applied(start, edits) ==
    LET after[i \in 0..Len(edits)] ==
          IF i = 0 THEN start
          ELSE IF after[i - 1] = None \/ edits[i].old \notin after[i - 1] THEN None
          ELSE Edited(after[i - 1], edits[i])
    IN after[Len(edits)]

\* The tools that edit read the file and compute all of the result, None when
\* they refuse, before they touch it.
Change(c, f, new) ==
    /\ call[c] = Idle
    /\ Moves(c, IF disk[f] = None \/ new = None THEN Refused(f)
                ELSE Writer("truncate", f, new), {})
    /\ UNCHANGED <<disk, indexed, excused>>

EditFile(c, f, old, new) == Change(c, f, Applied(disk[f], <<[old |-> old, new |-> new]>>))

MultiEdit(c, f, edits) == Change(c, f, Applied(disk[f], edits))

\* The lines between two anchors, each found exactly once.
DeleteRange(c, f, lines) ==
    Change(c, f, IF disk[f] # None /\ lines \subseteq disk[f] THEN disk[f] \ lines ELSE None)

\* The one declaration of a name; one that shares a specification is refused.
DeleteSymbol(c, f, decl) ==
    Change(c, f, IF disk[f] # None /\ decl \in disk[f] THEN disk[f] \ {decl} ELSE None)

\* A cell is inserted next to another, replaced or deleted (`new' is None).
NotebookEdit(c, f, anchor, op, new) ==
    Change(c, f, IF disk[f] = None \/ anchor \notin disk[f] THEN None
                 ELSE IF op = "insert" THEN disk[f] \cup {new}
                 ELSE Edited(disk[f], [old |-> anchor, new |-> new]))

WriteFile(c, f, content) ==
    /\ call[c] = Idle
    /\ Moves(c, Writer("truncate", f, content), {})
    /\ UNCHANGED <<disk, indexed, excused>>

\* os.WriteFile opens the file, which truncates it, or cannot.
Truncate(c) ==
    /\ call[c].place = "truncate"
    /\ LET f == call[c].file IN
       \/ /\ disk' = [disk EXCEPT ![f] = {}]
          /\ Moves(c, [call[c] EXCEPT !.place = "write", !.at = f], {f})
       \/ /\ Moves(c, Refused(f), {})
          /\ UNCHANGED disk
    /\ UNCHANGED <<indexed, excused>>

\* What another writer put there since the truncation may outlast a shorter
\* content.  A file moved meanwhile is written under its new name, which the
\* index will not be told of.
Write(c) ==
    /\ call[c].place = "write"
    /\ LET f == call[c].at IN
       /\ IF f = None THEN UNCHANGED disk
          ELSE \E tail \in SUBSET disk[f] : disk' = [disk EXCEPT ![f] = call[c].new \cup tail]
       /\ excused' = excused \cup ({f} \ {call[c].file, None})
       /\ Moves(c, [call[c] EXCEPT !.place = "invalidate"], {f})
    /\ UNCHANGED indexed

\* The disk is full or gone: a part of the content is there, and the tool returns
\* the error at once.  The index is told of no name the file has had.
WriteFails(c) ==
    /\ call[c].place = "write"
    /\ LET f == call[c].at IN
       /\ IF f = None THEN UNCHANGED disk
          ELSE \E part \in SUBSET call[c].new, tail \in SUBSET disk[f] :
                 disk' = [disk EXCEPT ![f] = part \cup tail]
       /\ excused' = excused \cup ({f, call[c].file} \ {None})
       /\ Moves(c, Torn(call[c].file), {f})
    /\ UNCHANGED indexed

-----------------------------------------------------------------------------
(* move_file *)

Move(c, f, to) ==
    /\ call[c] = Idle
    /\ f # to
    /\ Moves(c, IF disk[to] # None THEN Refused(f)
                ELSE Mover("rename", f, to), {})
    /\ UNCHANGED <<disk, indexed, excused>>

\* The destination was looked at before: what has appeared there is replaced.
Rename(c) ==
    /\ call[c].place = "rename"
    /\ LET f == call[c].file
           to == call[c].to
       IN IF disk[f] = None
            THEN /\ Moves(c, Failure(c), {})
                 /\ UNCHANGED disk
            ELSE /\ disk' = [disk EXCEPT ![to] = disk[f], ![f] = None]
                 /\ call' = Follow(After(c, [call[c] EXCEPT !.place = "invalidate",
                                                           !.wrote = TRUE], {f, to}), f, to)
    /\ UNCHANGED <<indexed, excused>>

\* EXDEV, or no permission: the content is copied, and the source stays when that
\* fails.  The index is not told of what the failed copy left.
CopyAcross(c) ==
    /\ call[c].place = "rename" /\ disk[call[c].file] # None
    /\ LET f == call[c].file
           to == call[c].to
       IN \/ /\ disk' = [disk EXCEPT ![to] = disk[f]]
             /\ Moves(c, [call[c] EXCEPT !.place = "remove"], {to})
             /\ UNCHANGED excused
          \/ /\ \E part \in SUBSET disk[f] : disk' = [disk EXCEPT ![to] = part]
             /\ Moves(c, Failure(c), {to})
             /\ excused' = excused \cup {to}
          \/ /\ Moves(c, Failure(c), {})
             /\ UNCHANGED <<disk, excused>>
    /\ UNCHANGED indexed

\* The source may be gone or not removable: an error, though the copy is made.
RemoveSource(c) ==
    /\ call[c].place = "remove"
    /\ LET f == call[c].file
           to == call[c].to
       IN \/ /\ disk[f] # None
             /\ disk' = [disk EXCEPT ![f] = None]
             /\ call' = Follow(After(c, [call[c] EXCEPT !.place = "invalidate",
                                                       !.wrote = TRUE], {f}), f, None)
             /\ UNCHANGED excused
          \/ /\ Moves(c, Failure(c), {})
             /\ excused' = excused \cup {to}
             /\ UNCHANGED disk
    /\ UNCHANGED indexed

-----------------------------------------------------------------------------
(* The index *)

Touched(c) == {call[c].file} \cup IF "to" \in DOMAIN call[c] THEN {call[c].to} ELSE {}

\* invalidateCodeIndex, the last step of every tool that writes.
Invalidate(c) ==
    /\ call[c].place = "invalidate"
    /\ indexed' = [f \in Files |-> IF f \in Touched(c) THEN None ELSE indexed[f]]
    /\ excused' = excused \ Touched(c)
    /\ Moves(c, Idle, {})
    /\ UNCHANGED disk

\* indexFile, of code_index's outline, search and info: nothing to do for a
\* file that is built.
LookUp(c, f) ==
    /\ call[c] = Idle
    /\ indexed[f] = None
    /\ Moves(c, Indexer("index", f, None), {})
    /\ UNCHANGED <<disk, indexed, excused>>

\* A file that cannot be read or parsed is skipped.
ReadToIndex(c) ==
    /\ call[c].place = "index"
    /\ LET f == call[c].file IN
       Moves(c, IF disk[f] = None THEN Idle ELSE Indexer("store", f, disk[f]), {})
    /\ UNCHANGED <<disk, indexed, excused>>

\* Under the lock, unless another call has built the file meanwhile.
Store(c) ==
    /\ call[c].place = "store"
    /\ LET f == call[c].file IN
       IF indexed[f] = None
         THEN /\ indexed' = [indexed EXCEPT ![f] = call[c].got]
              /\ excused' = IF call[c].overtaken THEN excused \cup {f} ELSE excused
         ELSE UNCHANGED <<indexed, excused>>
    /\ Moves(c, Idle, {})
    /\ UNCHANGED disk

\* SetWorkspaceRoot.
ClearIndex ==
    /\ indexed' = [f \in Files |-> None]
    /\ excused' = {}
    /\ UNCHANGED <<disk, call>>

-----------------------------------------------------------------------------
\* A shell command, or anything outside the program, changes a file; the index
\* is not told.
Shell(f, content) ==
    /\ disk' = [disk EXCEPT ![f] = content]
    /\ LET read == [d \in Calls |->
            IF Reading(d, f) THEN [call[d] EXCEPT !.overtaken = TRUE] ELSE call[d]]
       IN call' = IF content = None THEN Follow(read, f, None) ELSE read
    /\ excused' = excused \cup {f}
    /\ UNCHANGED indexed

Next ==
    \/ \E c \in Calls : Return(c)
    \/ \E c \in Calls, f \in Files, old \in Texts, new \in Texts : EditFile(c, f, old, new)
    \/ \E c \in Calls, f \in Files, edits \in Scripts : MultiEdit(c, f, edits)
    \/ \E c \in Calls, f \in Files, lines \in (SUBSET Texts) \ {{}} : DeleteRange(c, f, lines)
    \/ \E c \in Calls, f \in Files, decl \in Texts : DeleteSymbol(c, f, decl)
    \/ \E c \in Calls, f \in Files, anchor \in Texts, new \in Texts :
          NotebookEdit(c, f, anchor, "insert", new)
    \/ \E c \in Calls, f \in Files, anchor \in Texts, new \in Texts \cup {None} :
          NotebookEdit(c, f, anchor, "replace", new)
    \/ \E c \in Calls, f \in Files, content \in Contents : WriteFile(c, f, content)
    \/ \E c \in Calls : Truncate(c)
    \/ \E c \in Calls : Write(c)
    \/ \E c \in Calls : WriteFails(c)
    \/ \E c \in Calls, f \in Files, to \in Files : Move(c, f, to)
    \/ \E c \in Calls : Rename(c)
    \/ \E c \in Calls : CopyAcross(c)
    \/ \E c \in Calls : RemoveSource(c)
    \/ \E c \in Calls : Invalidate(c)
    \/ \E c \in Calls, f \in Files : LookUp(c, f)
    \/ \E c \in Calls : ReadToIndex(c)
    \/ \E c \in Calls : Store(c)
    \/ ClearIndex
    \/ \E f \in Files, content \in Contents \cup {None} : Shell(f, content)

Spec == Init /\ [][Next]_vars

-----------------------------------------------------------------------------
\* An entry of the symbol index differs from its file only while the call that
\* changed the file has yet to invalidate it, or when the file was changed
\* behind the index: by a shell command, by a failed write or move, or while the
\* entry was being read.
StaleForAReason ==
    \A f \in Files : indexed[f] # None /\ indexed[f] # disk[f] =>
        \/ f \in excused
        \/ \E c \in Calls : call[c].place \in {"write", "remove", "invalidate"} /\ f \in Touched(c)

\* A call that reports an error has left the file it names as it found it: all
\* edits of a multi_edit or none, and a move that fails keeps its source.  The
\* one exception is a write that the disk fails after the file was opened, which
\* has truncated it: such a call is `torn', and nothing restores the file.
FailuresLeaveTheFile ==
    \A c \in Calls : call[c].place = "failed" => ~ call[c].wrote

=============================================================================
