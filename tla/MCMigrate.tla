----------------------------- MODULE MCMigrate ------------------------------
(***************************************************************************)
(* A small home for TLC: a repository and a plain service directory, a     *)
(* tracked file and a tracked link in the repository, a configuration file *)
(* elsewhere, and the plan of a manifest with one action of each kind.     *)
(***************************************************************************)
EXTENDS Migrate

CONSTANTS repo, svc,       \* entries
          code, unit,      \* files: tracked code in repo, a config file
          alias,           \* a tracked link in repo
          memory_dir       \* a project directory

MCEntries == {repo, svc}
MCFiles == {code, unit, alias}
MCTarget == [f \in MCFiles |-> IF f = unit THEN repo ELSE svc]
MCInDir == [f \in MCFiles |-> IF f = unit THEN "config" ELSE repo]

MCPlan == << Id("backup", "-"), Id("xdg", "-"),
             Id("hook-before", svc), Id("move", svc), Id("move", repo),
             Id("rewrite", unit), Id("rewrite", code),
             Id("link", alias), Id("project", memory_dir),
             Id("cmd", svc), Id("commit", repo), Id("push", repo), Id("ci-summary", "-"),
             Id("bridge", repo), Id("bridge", svc), Id("bridges-record", "-"),
             Id("verify", "with-bridges"), Id("verify", "bridgeless") >>
=============================================================================
