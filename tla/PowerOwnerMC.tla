---------------------------- MODULE PowerOwnerMC ----------------------------
(***************************************************************************)
(* Model checking the power owner: the bounds its configurations share,    *)
(* and what the comments of the source say of it that the code does not    *)
(* do, each refuted by a configuration of its own.                         *)
(***************************************************************************)
EXTENDS PowerOwner

\* An idle timeout that is already over when its notice is due, and one that
\* leaves room for a notice, its lead time and an expired lease before it.
MCDeadlines == {0, 4}

\* The only idle deadline where timing is not what is checked.
MCDue == {0}

\* The deadlines of a tracker whose sensors never ask for sleep.
MCNoDeadlines == {}

-----------------------------------------------------------------------------
\* Disagreements with the comments, each refuted by a run of its own.

\* power_request.h:121, "physical shutdown is irreversible": unless a dock or a
\* drained battery keeps coming back, a shutdown that became physical completes.
PhysicalShutdownCompletes == <>[]~env["drained"] => (mb.phys ~> ~Running)

=============================================================================
