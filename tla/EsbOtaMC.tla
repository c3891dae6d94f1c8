------------------------------ MODULE EsbOtaMC ------------------------------
(***************************************************************************)
(* Model checking the update session.                                      *)
(***************************************************************************)
EXTENDS EsbOta

\* "A" fills two pages exactly; "B" ends inside its second page and inside its
\* last packet; "M" carries an MCUboot header; "X" is one page too large even
\* for what BEGIN compares with.
MCSizes == [A |-> 6, B |-> 5, M |-> 5, X |-> 10]
MCImages == DOMAIN MCSizes

\* "L" needs a third page, so that its staging area begins at the size of the
\* running firmware and below its end.
LargeSizes == [L |-> 7]
LargeImages == DOMAIN LargeSizes

=============================================================================
