------------------------------ MODULE Monitor ------------------------------
(***************************************************************************)
(* What the wrappers of the two platforms share: a kernel, a recorder that *)
(* may not know the page size, and replay of the events that are recorded. *)
(***************************************************************************)
EXTENDS Replay

CONSTANTS
  PageSize,     \* bytes in a page
  Sizes,        \* byte lengths the program passes
  Protections,
  Expectations  \* a null pointer, a malformed one, or an exact address

ASSUME ProgramAssumption ==
  PageSize \in Nat \ {0} /\ Sizes \subseteq Nat /\ Protections \subseteq Nat

VARIABLES
  kernel,   \* what the kernel maps where
  pageSize  \* g_page_size: 0 until the recorder has been initialized

\* Mutant: a failed call is compared with the expectation too.
apply_expectation_OnFailure(e, expectation) ==
  CASE expectation.kind = "null" -> e
    [] expectation.kind = "malformed" ->
         [e EXCEPT !.violation = "invalid_expectation"]
    [] OTHER ->
         [e EXCEPT !.exact = TRUE, !.expected = expectation.address,
            !.violation = IF e.returned # expectation.address
                            THEN "exact_address_relocated" ELSE "none"]

\* posix.cpp and windows.cpp have one each, and they are the same.
apply_expectation(e, expectation) ==
  CASE expectation.kind = "null" -> e
    [] expectation.kind = "malformed" ->
         [e EXCEPT !.violation = "invalid_expectation"]
    [] OTHER ->
         [e EXCEPT !.exact = TRUE, !.expected = expectation.address,
            !.violation = IF e.success /\ e.returned # expectation.address
                            THEN "exact_address_relocated" ELSE "none"]
=============================================================================
