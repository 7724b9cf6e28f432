-------------------------- MODULE MCRepositoryTests --------------------------
(***************************************************************************)
(* The programs under tests/ of the repository, and what src/test.cpp      *)
(* expects of them: exit status 0, as none has "error" in its path.        *)
(***************************************************************************)
EXTENDS CompilerProperties, RepositoryPrograms

MCPrograms == {Table(program(test.decls)) : test \in RepositoryTests}

NoMessages == {<<>>}

(* A test of the repository passes when the compiler exits with status 0   *)
(* (test.cpp: status == 0 && !expectedError).                              *)
RepositoryTestsPass == status # "failed"
==============================================================================
