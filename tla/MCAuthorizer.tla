------------------------------ MODULE MCAuthorizer ------------------------------
(* An instance of Authorizer for TLC.                                       *)
EXTENDS Authorizer, TLC
CONSTANTS c1, c2, p1, p2, g1, g2

Complete(m, p) ==
  [headers |-> {"date", "(request-target)", "authorization"},
   signed  |-> {"date", "(request-target)"}, method |-> m, by |-> p]

(* Requests signed for the first, a middle and the last method, or for none *)
(* of them, one that gives its date as x-date, and ones that lack something.*)
Requests ==
  {Complete(m, p) : m \in {"post", "delete", "put"}, p \in {p1, p2}}
  \cup {Complete(None, p1)}
  \cup {[Complete("get", p1) EXCEPT
           !.headers = {"x-date", "(request-target)", "authorization"}],
        [Complete("get", p1) EXCEPT !.headers = {"date", "(request-target)"}],
        [Complete("get", p1) EXCEPT !.headers = {"date", "authorization"}],
        [Complete("get", p1) EXCEPT !.signed = None],
        [Complete("get", p1) EXCEPT !.signed = {"date"}]}

CallSymmetry == Permutations(Call)
=============================================================================
