----------------------------- MODULE MCProjects -----------------------------
(***************************************************************************)
(* Two users, of whom one is called "b-c", or by now "d", and the other    *)
(* "c" at GitHub: a project "a" of the first and a project "a-b" of the    *)
(* second would both be served under "a-b-c".                              *)
(***************************************************************************)
EXTENDS Projects, TLC

ProjectUsers == {"u1", "u2"}
GitHubNames == "u1" :> <<"b", "c">> @@ "u2" :> <<"c">>
NewGitHubNames == "u1" :> {<<"d">>} @@ "u2" :> {}
AskedNames == "u1" :> {<<"a">>} @@ "u2" :> {<<"a">>, <<"a", "b">>}

CallerSymmetry == Permutations(Callers)
=============================================================================
