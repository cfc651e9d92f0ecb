------------------------ MODULE MCPolicyPublication ------------------------
(* Two requests at a time, two files, two versions and two contents.      *)
EXTENDS PolicyPublication, TLC

MCFiles    == {1, 2}
MCVersions == {1, 2}
MCContents == {1, 2}

\* Requests differ in nothing but what they do.
ClientSymmetry == Permutations(Clients)
=============================================================================
