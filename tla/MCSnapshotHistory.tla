-------------------------- MODULE MCSnapshotHistory --------------------------
(* Model-checking definitions for SnapshotHistory.                         *)
EXTENDS SnapshotHistory

CONSTANTS s1, s2, a, b, c

Installs(version, dependencies) ==
  [link |-> FALSE, resolved |-> None, name |-> None, version |-> version,
   dependencies |-> dependencies, devDependencies |-> {},
   optionalDependencies |-> {}, peerDependencies |-> {}]
LinkTo(path) == [Installs(None, {}) EXCEPT !.link = TRUE, !.resolved = path]
Lock(packages) == [lockfileVersion |-> 3, packages |-> packages]

X == <<"node_modules", "x">>
Y == <<"node_modules", "y">>
W == <<"node_modules", "w">>
Workspace == <<"packages", "w">>
WorkspaceY == Workspace \o Y
WorkspaceT == Workspace \o <<"node_modules", "t">>
WorkspaceV == Workspace \o <<"node_modules", "v">>
V == <<"packages", "v">>

(* a: the root depends on x and x on y.  b: x is for development only, a   *)
(* workspace w is linked and has a y and a t of its own, another workspace *)
(* v is linked inside of it and has t for a peer, which is installed       *)
(* around the link alone, and an optional dependency is not installed.     *)
(* c: something required is not installed.                                 *)
LockA == Lock(Root :> Installs(None, {"x"}) @@ X :> Installs("1", {"y"})
                @@ Y :> Installs("1", {}))
LockB == Lock(Root :> [Installs(None, {}) EXCEPT !.devDependencies = {"x"}]
                @@ X :> [Installs("1", {"y", "z"}) EXCEPT
                           !.optionalDependencies = {"z"}, !.devDependencies = {"q"}]
                @@ Y :> Installs("1", {})
                @@ W :> LinkTo(Workspace)
                @@ Workspace :> [Installs("2", {"y"}) EXCEPT !.name = "w"]
                @@ WorkspaceY :> Installs("2", {})
                @@ WorkspaceT :> Installs("1", {})
                @@ WorkspaceV :> LinkTo(V)
                @@ V :> [Installs("1", {}) EXCEPT !.name = "v",
                                                  !.peerDependencies = {"t"}])
LockC == Lock(Root :> Installs(None, {"x"}) @@ Y :> Installs("1", {"z"}))
McLockfile == a :> LockA @@ b :> LockB @@ c :> LockC

(* Two lockfiles of one service, the first of them deployed again later, a *)
(* retry of the second, and lockfiles of another service.                  *)
McService == [i \in Jobs |-> IF i >= 5 THEN s2 ELSE s1]
McContent == [i \in Jobs |-> CASE i \in {2, 4} -> b [] i = 6 -> c [] OTHER -> a]
McAt == [i \in Jobs |-> CASE i = 1 -> 1 [] i \in {3, 6} -> 3 [] OTHER -> 2]

=============================================================================
