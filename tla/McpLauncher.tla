----------------------------- MODULE McpLauncher ----------------------------
(***************************************************************************)
(* How the command line of an MCP server comes about: the resolvers of     *)
(* mcp/launcher.go install the package of an npx or uvx line once and      *)
(* answer with a line that starts the installed program, and connectServer *)
(* (mcp/registry_resolve.go) starts that line, or the user's own when the  *)
(* resolver has none.  npm, uv and the package are external: each command  *)
(* succeeds, fails, or is cut off by the resolver's timeout.               *)
(***************************************************************************)
EXTENDS Naturals, Sequences

CONSTANTS Args,        \* the words that may follow the command
          Flags,       \* those of them that begin with a dash
          MaxResolves  \* bound: resolves of the run

LauncherAssumption == Flags \subseteq Args /\ MaxResolves \in Nat

VARIABLES
  spec,      \* the server's command and its arguments
  stage,     \* where the resolver is: "idle", "view", "install", "inspect"
  res,       \* the last resolution: its status and launch line
  package,   \* the package the resolver works on
  disk,      \* packages whole in the install directory
  resolves

vars == <<spec, stage, res, package, disk, resolves>>

Commands == {"npx", "uvx", "go", "other", "url"}
NoSpec == [command |-> "none", args |-> <<>>]

\* the path of the program a package installs, denoted by the package's name
Program(p) == p

Init ==
  /\ spec = NoSpec /\ stage = "idle" /\ res = [status |-> "none", command |-> "", args |-> <<>>]
  /\ package = "" /\ disk = {} /\ resolves = 0

Resolution(status, command, args) == [status |-> status, command |-> command, args |-> args]
Unresolved(status) == Resolution(status, "", <<>>)

\* Register or Update: the fingerprint covers the command and its arguments, so
\* another line voids the resolution.  (A change during a resolve is McpRegistry's.)
SetSpec(c, args) ==
  /\ stage = "idle"
  /\ spec' = [command |-> c, args |-> args]
  /\ res' = IF spec' = spec THEN res ELSE Unresolved("none")
  /\ UNCHANGED <<stage, package, disk, resolves>>

\* parseNpxArgs: the first word that is no flag names the package
PackageAt(args) == CHOOSE i \in 1 .. Len(args) :
  args[i] \notin Flags /\ \A j \in 1 .. i - 1 : args[j] \in Flags
NamesPackage(args) == \E i \in 1 .. Len(args) : args[i] \notin Flags

\* what follows the package's name is the server's
ExtraArgs(args) == SubSeq(args, PackageAt(args) + 1, Len(args))

\* pickResolver, and the resolvers that answer without running anything
Immediate(s) ==
  CASE s.command \in {"npx", "uvx"} -> Unresolved("unsupported")
    [] s.command \in {"go", "other"} -> Unresolved("unsupported")
    [] s.command = "url" -> Unresolved("ready")

Resolve ==
  /\ stage = "idle" /\ spec # NoSpec /\ res.status # "ready" /\ resolves < MaxResolves
  /\ resolves' = resolves + 1
  /\ IF spec.command \in {"npx", "uvx"} /\ NamesPackage(spec.args)
       THEN /\ package' = spec.args[PackageAt(spec.args)]
            /\ stage' = IF spec.command = "npx" THEN "view" ELSE "install"
            /\ UNCHANGED res
       ELSE res' = Immediate(spec) /\ UNCHANGED <<package, stage>>
  /\ UNCHANGED <<spec, disk>>

Fails == stage' = "idle" /\ res' = Unresolved("failed")

\* npm view; an empty answer leaves the version as requested
View ==
  /\ stage = "view"
  /\ (stage' = "install" /\ UNCHANGED res) \/ Fails
  /\ UNCHANGED <<spec, package, disk, resolves>>

\* npm install, uv tool install: cut off, it leaves a directory that is not whole
Install ==
  /\ stage = "install"
  /\ \/ stage' = "inspect" /\ disk' = disk \cup {package} /\ UNCHANGED res
     \/ Fails /\ disk' \in {disk, disk \ {package}}
  /\ UNCHANGED <<spec, package, resolves>>

NpxLine == Resolution("ready", "node", <<Program(package)>> \o ExtraArgs(spec.args))

\* uvxResolver.Resolve: "the binary takes the server's extra args", but the
\* answer carries none
UvxLine == Resolution("ready", Program(package), <<>>)

\* package.json read and its bin entry picked, or the executable found under bin
Inspect ==
  /\ stage = "inspect"
  /\ \/ stage' = "idle" /\ res' = IF spec.command = "npx" THEN NpxLine ELSE UvxLine
     \/ Fails
  /\ UNCHANGED <<spec, package, disk, resolves>>

\* connectServer: without a ready resolution the user's own line is started
LaunchLine ==
  IF res.status = "ready" THEN [command |-> res.command, args |-> res.args] ELSE spec

ArgLists == UNION {[1 .. n -> Args] : n \in 0 .. 2}

Next ==
  \/ \E c \in Commands, args \in ArgLists : SetSpec(c, args)
  \/ Resolve \/ View \/ Install \/ Inspect

Spec == Init /\ [][Next]_vars

-----------------------------------------------------------------------------
TypeOK ==
  /\ stage \in {"idle", "view", "install", "inspect"}
  /\ res.status \in {"none", "ready", "failed", "unsupported"}
  /\ (res.status # "ready") => res = Unresolved(res.status)
  /\ disk \subseteq Args \ Flags
  /\ resolves \in 0 .. MaxResolves

\* A resolution that is ready starts a program that is whole on the disk, also
\* after an earlier install of the package that failed or was cut off.
ReadyIsInstalled ==
  (stage = "idle" /\ res.status = "ready" /\ spec.command \in {"npx", "uvx"}) =>
    spec.args[PackageAt(spec.args)] \in disk

Serves(l, s) ==
  \/ l = s
  \/ /\ NamesPackage(s.args)
     /\ LET program == Program(s.args[PackageAt(s.args)])
            extra == SubSeq(s.args, PackageAt(s.args) + 1, Len(s.args))
        IN \/ l = [command |-> "node", args |-> <<program>> \o extra]
           \/ l = [command |-> program, args |-> extra]

Starts == stage = "idle" /\ spec.command \in Commands \ {"url"} /\ res.status # "none"

\* The same for every server but those that uvx installed: also a server whose
\* resolve failed, was cut off, or does not concern it starts as its user wrote it.
StartsTheNpxServer == (Starts /\ spec.command # "uvx") => Serves(LaunchLine, spec)
=============================================================================
