------------------------------- MODULE Calls -------------------------------
(* A function of the library and what it is called with: the state in      *)
(* which TLC checks the pure functions.                                    *)
EXTENDS Sequences

VARIABLES
    subject,   \* which function
    input,     \* what it is called with
    output     \* << >>, or what it returned

callVars == <<subject, input, output>>

Given(s, inputs) == subject = s /\ input \in inputs /\ output = << >>

Call(s, Function(_)) ==
    /\ subject = s /\ output = << >>
    /\ output' = <<Function(input)>>
    /\ UNCHANGED <<subject, input>>

\* What a call of this subject returned, if it has been made.
Returned(s) == {output[i] : i \in {j \in DOMAIN output : subject = s}}

=============================================================================
