---------------------------- MODULE MCImageBuild ----------------------------
(* Small instances of ImageBuild.                                           *)
EXTENDS ImageBuild

BuildScene(first, second, user, trouble, crash) ==
  [kind |-> [b \in Builds |-> IF b = "b1" THEN first ELSE second],
   user |-> user, trouble |-> trouble, crash |-> crash]

\* One build of each kind with failures and death; two in one directory, which is
\* there or has to be made.
BuildScenes ==
  {BuildScene("managed", k, FALSE, 2, TRUE) : k \in {"managed", "plain"}}
  \cup {BuildScene("output", "output", user, 2, FALSE) : user \in BOOLEAN}
  \cup {BuildScene("managed", "output", TRUE, 1, TRUE)}
=============================================================================
