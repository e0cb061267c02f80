------------------------------ MODULE MCConsole ------------------------------
(* Instances of Console for TLC. *)
EXTENDS Console

\* Rows of a tree, numbered from the root: every forest has such a numbering.
Nodes == 1 .. 3

MCDefault == [provider |-> "a", prefix |-> "p", size |-> 10]

\* Two accounts, one of them with two workspaces.
MCOwnerOf == [m \in 1 .. 3 |-> IF m = 3 THEN "b" ELSE "a"]

\* Two people, one of them on two invitation pages.
MCVisitorOf == [j \in JoinPages |-> IF j = "j3" THEN 2 ELSE 1]

\* The second owner matters as another entry of the cache, one assignment will do.
SecondOwner == v3["o2"] = {1}

Flat == <<None, None, None>>
Forests == {Flat, <<None, 1, 2>>}

\* Nodes of a flat list are alike: what matters is how many are assigned.
FirstOwner == v2 = Flat => v3["o1"] \in {{}, {1}, {2, 3}}

\* A root of two children; a chain; a chain or two roots where a row can be created.
Branches == {<<None, 1, 1>>, <<None, 1, 2>>, <<None, 1, Unborn>>, <<None, None, Unborn>>}

\* A root of two children; a root of one child where one more can be created.
Directories == {<<None, 1, 1>>, <<None, 1, Unborn>>}

\* The console's bar of three levels, for a group below the root and for one further
\* down; pages in a row of three below the root of a workspace.
Bar(where, built, menu, types) == [at |-> where, code |-> built, group |-> menu, kinds |-> types]
Plausible ==
  \/ /\ v1 \in {Bar("console", "tools", 2, <<"dir", "dir", "page", "page">>),
                Bar("console", "biz", 3, <<"dir", "dir", "page", "page">>)}
     /\ v2[4].up = 2
  \/ /\ v1 = Bar("workspace", "other", 2, <<"dir", "page", "page", "page">>)
     /\ v2[3].up = 2 /\ v2[4].up = 3

\* The initial states TLC starts from.
MCInit ==
  /\ Init
  /\ area = "dialog" => v2 \in Forests /\ (v2 = Flat => v1 = "flat") /\ FirstOwner /\ SecondOwner
  /\ area = "list" => v2["all"] = 1 .. 3 /\ v2["some"] \in {{3}, 1 .. 3}
  /\ area = "tree" => v2 \in Branches
  /\ area = "tenants" => v1 \in Directories
  /\ area = "profile" => \A f \in ProfileFields : v1[f] = "v"
  /\ area = "bars" => v3 = <<{3}, {2, 4}>> /\ Plausible

MCSpec == MCInit /\ [][Next]_vars
=============================================================================
