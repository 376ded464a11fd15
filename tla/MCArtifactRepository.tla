-------------------------- MODULE MCArtifactRepository --------------------------
(* An instance of ArtifactRepository for TLC.                               *)
EXTENDS ArtifactRepository, TLC
CONSTANTS c1, c2, c3

(* c3's run has a URI that begins like that of c1's; c1's ends in a slash.  *)
Uris == c1 :> <<"r1", "/">> @@ c2 :> <<"r2">> @@ c3 :> <<"r1", "0">>

(* c1 is given an artifact path that makes its run's URI read like c3's, and *)
(* a blank one; c2 is given absolute paths to c1's run and to the     *)
(* object "r1/0/0" in it; c3 a path with and without slashes at its end.     *)
Paths ==
  c1 :> {<<"0">>, Space}
  @@ c2 :> {<<"/", "r1">>, <<"/", "r1", "/", "0", "/", "0">>}
  @@ c3 :> {<<>>, <<"0">>, <<"0", "/", "/">>}

Ops == c1 :> {"log"} @@ c2 :> {"list", "delete"} @@ c3 :> Op

File(dir, name) == [dir |-> dir, name |-> name]
Trees ==
  c1 :> {File(<<>>, <<"0">>)}
  @@ c2 :> {}
  @@ c3 :> {File(<<>>, <<"a">>), File(<<"d">>, <<"a">>)}
=============================================================================
